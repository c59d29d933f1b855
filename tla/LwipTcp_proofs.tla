-------------------------- MODULE LwipTcp_proofs --------------------------
(***************************************************************************)
(* Proofs about LwipTcp for any number of control blocks, of hosts and of  *)
(* early segments, any window and any limits of the pool and the heap.     *)
(***************************************************************************)
EXTENDS LwipTcp, FiniteSetTheorems, WellFoundedInduction, SequenceTheorems, TLAPS

(* A nonempty set of natural numbers has a least element, and Min is it. *)
LEMMA MinIn ==
  ASSUME NEW S \in SUBSET Nat, S # {}
  PROVE  Min(S) \in S /\ \A y \in S : Min(S) <= y
<1>1. PICK x \in S : \A y \in S : ~(<<y, x>> \in OpToRel(<, Nat))
  BY NatLessThanWellFounded, WFMin
<1>2. ASSUME NEW y \in S PROVE x <= y
  <2>1. <<y, x>> \in OpToRel(<, Nat) <=> y < x
    BY DEF OpToRel
  <2>2. ~(y < x)
    BY <1>1, <2>1, Zenon
  <2>3. x \in Nat /\ y \in Nat
    OBVIOUS
  <2> QED
    BY <2>2, <2>3
<1> QED
  BY <1>1, <1>2 DEF Min

(* Induction, with the property given as the set of numbers that have it. *)
LEMMA NatInduct ==
  ASSUME NEW S, 0 \in S, \A n \in Nat : n \in S => n + 1 \in S
  PROVE  Nat \subseteq S
<1>1. SUFFICES ASSUME Nat \ S # {} PROVE FALSE
  OBVIOUS
<1> DEFINE x == Min(Nat \ S)
<1>2. x \in Nat \ S /\ \A y \in Nat \ S : x <= y
  BY <1>1, MinIn
<1> HIDE DEF x
<1>3. x # 0 /\ x - 1 \in Nat /\ ~(x <= x - 1) /\ (x - 1) + 1 = x
  BY <1>2
<1> QED
  BY <1>2, <1>3

-----------------------------------------------------------------------------
(* Segments and queues of segments of a stream whose FIN has the number e.  *)
SegRec == [seq : Nat, data : Seq(Nat), fin : 0..1]

(* The number after a segment, its FIN included. *)
End(g) == g.seq + TcpLen(g)

(* A segment of the stream: each byte is at its number, and a FIN is at     *)
(* e.                                                                       *)
SegOk(g, e) ==
  /\ g \in SegRec
  /\ \A j \in 1..Len(g.data) : g.data[j] = g.seq + j - 1
  /\ DataEnd(g) <= e /\ (g.fin = 1 => DataEnd(g) = e)

(* A queue of segments of the stream, sorted, without overlaps, nothing     *)
(* after a FIN.                                                             *)
QueueOk(q, e) ==
  /\ q \in Seq(SegRec)
  /\ \A k \in 1..Len(q) : SegOk(q[k], e) /\ TcpLen(q[k]) > 0
  /\ \A j, k \in 1..Len(q) : j < k => q[j].fin = 0 /\ DataEnd(q[j]) <= q[k].seq

(* A queue that lies behind lo and ends before hi. *)
Inside(q, lo, hi) == \A k \in 1..Len(q) : q[k].seq > lo /\ End(q[k]) <= hi

(* What the numbers of a segment are. *)
LEMMA SegFacts ==
  ASSUME NEW g \in SegRec
  PROVE  /\ g.seq \in Nat /\ Len(g.data) \in Nat /\ g.fin \in {0, 1} /\ g.data \in Seq(Nat)
         /\ TcpLen(g) = Len(g.data) + g.fin /\ TcpLen(g) \in Nat
         /\ DataEnd(g) = g.seq + Len(g.data) /\ DataEnd(g) \in Nat
         /\ End(g) = DataEnd(g) + g.fin /\ End(g) \in Nat
<1>1. g.seq \in Nat /\ Len(g.data) \in Nat /\ g.fin \in {0, 1} /\ g.data \in Seq(Nat)
  BY DEF SegRec
<1> QED
  BY <1>1 DEF TcpLen, DataEnd, End

(* A piece of a sequence. *)
LEMMA Piece ==
  ASSUME NEW S, NEW s \in Seq(S), NEW a \in Nat, NEW b \in Nat, a >= 1, b <= Len(s), a <= b + 1
  PROVE  /\ SubSeq(s, a, b) \in Seq(S) /\ Len(SubSeq(s, a, b)) = b - a + 1
         /\ b - a + 1 \in Nat
         /\ \A i \in 1..(b - a + 1) : /\ SubSeq(s, a, b)[i] = s[a + i - 1]
                                      /\ a + i - 1 \in 1..Len(s)
<1>1. Len(s) \in Nat /\ \A i \in a..b : s[i] \in S
  OBVIOUS
<1>2. /\ SubSeq(s, a, b) \in Seq(S)
      /\ Len(SubSeq(s, a, b)) = IF a <= b THEN b - a + 1 ELSE 0
      /\ \A i \in 1..(b - a + 1) : SubSeq(s, a, b)[i] = s[a + i - 1]
  BY <1>1, SubSeqProperties
<1>3. b - a + 1 \in Nat /\ (~(a <= b) => b - a + 1 = 0)
  OBVIOUS
<1>4. \A i \in 1..(b - a + 1) : a + i - 1 \in 1..Len(s)
  BY <1>1
<1> QED
  BY <1>2, <1>3, <1>4

(* A piece of a segment's data. *)
LEMMA PieceOfData ==
  ASSUME NEW s \in Seq(Nat), NEW a \in Nat, NEW b \in Nat, a >= 1, b <= Len(s), a <= b + 1
  PROVE  /\ SubSeq(s, a, b) \in Seq(Nat) /\ Len(SubSeq(s, a, b)) = b - a + 1
         /\ \A i \in 1..(b - a + 1) : /\ SubSeq(s, a, b)[i] = s[a + i - 1]
                                      /\ a + i - 1 \in 1..Len(s)
<1>1. PICK S : S = Nat
  OBVIOUS
<1>2. s \in Seq(S)
  BY <1>1
<1>3. /\ SubSeq(s, a, b) \in Seq(S) /\ Len(SubSeq(s, a, b)) = b - a + 1
      /\ \A i \in 1..(b - a + 1) : /\ SubSeq(s, a, b)[i] = s[a + i - 1]
                                   /\ a + i - 1 \in 1..Len(s)
  BY <1>2, Piece
<1> QED
  BY <1>1, <1>3

(* And of a queue. *)
LEMMA PieceOfQueue ==
  ASSUME NEW s \in Seq(SegRec), NEW a \in Nat, NEW b \in Nat, a >= 1, b <= Len(s), a <= b + 1
  PROVE  /\ SubSeq(s, a, b) \in Seq(SegRec) /\ Len(SubSeq(s, a, b)) = b - a + 1
         /\ b - a + 1 \in Nat
         /\ \A i \in 1..(b - a + 1) : /\ SubSeq(s, a, b)[i] = s[a + i - 1]
                                      /\ a + i - 1 \in 1..Len(s)
BY Piece

(* A segment cut at its end. *)
LEMMA CutOk ==
  ASSUME NEW e \in Nat, NEW g, SegOk(g, e), NEW end \in Nat, g.seq <= end, end <= DataEnd(g)
  PROVE  LET h == CutTo(g, end)
         IN  /\ h \in SegRec /\ h.seq = g.seq /\ h.fin = g.fin /\ DataEnd(h) = end
             /\ Len(h.data) = end - g.seq
             /\ \A j \in 1..Len(h.data) : h.data[j] = h.seq + j - 1
             /\ g.fin = 0 => SegOk(h, e)
<1> DEFINE h == CutTo(g, end)
           n == end - g.seq
<1>1. g \in SegRec /\ g.seq \in Nat /\ Len(g.data) \in Nat /\ g.data \in Seq(Nat)
      /\ DataEnd(g) = g.seq + Len(g.data) /\ DataEnd(g) <= e
      /\ \A j \in 1..Len(g.data) : g.data[j] = g.seq + j - 1
  BY SegFacts DEF SegOk
<1>2. n \in Nat /\ n <= Len(g.data) /\ 1 <= n + 1 /\ n - 1 + 1 = n
  BY <1>1
<1> HIDE DEF n
<1>3. /\ SubSeq(g.data, 1, n) \in Seq(Nat) /\ Len(SubSeq(g.data, 1, n)) = n
      /\ \A i \in 1..n : SubSeq(g.data, 1, n)[i] = g.data[i] /\ i \in 1..Len(g.data)
  <2>1. /\ SubSeq(g.data, 1, n) \in Seq(Nat) /\ Len(SubSeq(g.data, 1, n)) = n - 1 + 1
        /\ \A i \in 1..(n - 1 + 1) : /\ SubSeq(g.data, 1, n)[i] = g.data[1 + i - 1]
                                     /\ 1 + i - 1 \in 1..Len(g.data)
    <3>1. PICK t \in Seq(Nat), a \in Nat : t = g.data /\ a = 1
      BY <1>1
    <3>2. a >= 1 /\ n <= Len(t) /\ a <= n + 1 /\ n \in Nat
      BY <1>2, <3>1
    <3>3. /\ SubSeq(t, a, n) \in Seq(Nat) /\ Len(SubSeq(t, a, n)) = n - a + 1
          /\ \A i \in 1..(n - a + 1) : /\ SubSeq(t, a, n)[i] = t[a + i - 1]
                                       /\ a + i - 1 \in 1..Len(t)
      BY ONLY <3>2, PieceOfData, t \in Seq(Nat), a \in Nat
    <3> QED
      BY ONLY <3>1, <3>3
  <2>2. \A i \in 1..n : 1 + i - 1 = i
    OBVIOUS
  <2> QED
    BY <1>2, <2>1, <2>2
<1>4. h = [g EXCEPT !.data = SubSeq(g.data, 1, n)]
  BY DEF CutTo, n
<1>5. /\ h \in SegRec /\ h.seq = g.seq /\ h.fin = g.fin /\ h.data = SubSeq(g.data, 1, n)
  BY <1>1, <1>3, <1>4 DEF SegRec
<1> HIDE DEF h
<1>6. DataEnd(h) = end
  BY <1>1, <1>3, <1>5 DEF DataEnd, n
<1>7. \A j \in 1..Len(h.data) : h.data[j] = h.seq + j - 1
  BY <1>1, <1>3, <1>5
<1>8. g.fin = 0 => SegOk(h, e)
  <2>1. end <= e
    BY <1>1
  <2>2. DataEnd(h) <= e
    BY <1>6, <2>1
  <2>3. SUFFICES ASSUME g.fin = 0 PROVE SegOk(h, e)
    OBVIOUS
  <2>4. h.fin = 0
    BY <1>5, <2>3
  <2>5. h.fin = 1 => DataEnd(h) = e
    BY ONLY <2>4
  <2> QED
    BY ONLY <1>5, <1>7, <2>2, <2>5 DEF SegOk
<1> QED
  BY <1>3, <1>5, <1>6, <1>7, <1>8 DEF h, n

(* A segment that is made to fit the window. *)
LEMMA FitOk ==
  ASSUME NEW e \in Nat, NEW g, SegOk(g, e), NEW c, NEW hi \in Nat, hi = c.rcv + c.wnd, g.seq <= hi
  PROVE  LET h == FitWindow(c, g)
         IN  /\ SegOk(h, e) /\ h.seq = g.seq /\ End(h) <= hi
             /\ Len(h.data) <= Len(g.data)
             /\ TcpLen(g) > 0 /\ g.seq < hi => TcpLen(h) > 0
<1>1. g \in SegRec /\ g.seq \in Nat /\ Len(g.data) \in Nat /\ g.fin \in {0, 1}
      /\ TcpLen(g) = Len(g.data) + g.fin
      /\ DataEnd(g) = g.seq + Len(g.data) /\ DataEnd(g) <= e
      /\ End(g) = DataEnd(g) + g.fin /\ End(g) = g.seq + TcpLen(g)
  BY SegFacts DEF SegOk, End
<1>2. CASE ~(End(g) > hi)
  <2>1. FitWindow(c, g) = g
    BY <1>1, <1>2 DEF FitWindow
  <2> QED
    BY <1>1, <1>2, <2>1
<1>3. CASE End(g) > hi
  <2> DEFINE k == CutTo(g, hi)
             h == [k EXCEPT !.fin = 0]
  <2>1. FitWindow(c, g) = h
    BY <1>1, <1>3 DEF FitWindow
  <2>2. hi <= DataEnd(g)
    BY <1>1, <1>3
  <2>3. /\ k \in SegRec /\ k.seq = g.seq /\ DataEnd(k) = hi /\ Len(k.data) = hi - g.seq
        /\ \A j \in 1..Len(k.data) : k.data[j] = k.seq + j - 1
    BY <2>2, CutOk
  <2> HIDE DEF k
  <2>4. h \in SegRec /\ h.seq = g.seq /\ h.fin = 0 /\ h.data = k.data
    BY <2>3 DEF SegRec
  <2> HIDE DEF h
  <2>5. DataEnd(h) = hi /\ TcpLen(h) = hi - g.seq /\ End(h) = hi
    BY <1>1, <2>3, <2>4 DEF DataEnd, TcpLen, End
  <2>6. hi <= e
    BY <1>1, <2>2
  <2>7. SegOk(h, e)
    BY <2>3, <2>4, <2>5, <2>6 DEF SegOk
  <2>8. Len(h.data) <= Len(g.data)
    BY <1>1, <2>2, <2>3, <2>4
  <2> QED
    BY <1>1, <2>1, <2>4, <2>5, <2>7, <2>8
<1> QED
  BY <1>2, <1>3

(* A segment without what was received before. *)
LEMMA FrontOk ==
  ASSUME NEW e \in Nat, NEW g, SegOk(g, e), NEW c, c.rcv \in Nat
  PROVE  LET h == FrontTrimmed(c, g)
         IN  /\ SegOk(h, e) /\ End(h) = End(g)
             /\ h = g \/ (h.seq = c.rcv /\ g.seq < c.rcv /\ TcpLen(g) > 0)
<1>1. g \in SegRec /\ g.seq \in Nat /\ Len(g.data) \in Nat /\ g.fin \in {0, 1}
      /\ g.data \in Seq(Nat) /\ TcpLen(g) = Len(g.data) + g.fin
      /\ DataEnd(g) = g.seq + Len(g.data) /\ DataEnd(g) <= e /\ (g.fin = 1 => DataEnd(g) = e)
      /\ End(g) = DataEnd(g) + g.fin /\ End(g) = g.seq + TcpLen(g)
      /\ \A j \in 1..Len(g.data) : g.data[j] = g.seq + j - 1
  BY SegFacts DEF SegOk, End
<1>2. CASE ~(c.rcv \in g.seq + 1 .. g.seq + TcpLen(g) - 1)
  BY <1>2 DEF FrontTrimmed
<1>3. CASE c.rcv \in g.seq + 1 .. g.seq + TcpLen(g) - 1
  <2>0. PICK x \in Nat, b \in Nat, l0 \in Nat : x = c.rcv /\ b = g.seq /\ l0 = Len(g.data)
    BY <1>1
  <2>00. b < x /\ x - b \in Nat /\ x - b <= l0 /\ TcpLen(g) > 0
    <3>1. PICK f \in {0, 1} : f = g.fin
      BY <1>1
    <3>2. x \in b + 1 .. b + (l0 + f) - 1 /\ TcpLen(g) = l0 + f
      BY <1>1, <1>3, <2>0, <3>1
    <3> QED
      BY ONLY <3>2, x \in Nat, b \in Nat, l0 \in Nat, f \in {0, 1}
  <2> DEFINE n == c.rcv - g.seq + 1
             l == Len(g.data)
             h == [g EXCEPT !.seq = c.rcv, !.data = SubSeq(g.data, n, l)]
  <2>1. FrontTrimmed(c, g) = h
    BY <1>3 DEF FrontTrimmed
  <2>2. n \in Nat /\ n >= 1 /\ n <= l + 1 /\ l \in Nat /\ l - n + 1 = l - (c.rcv - g.seq)
        /\ g.seq < c.rcv /\ TcpLen(g) > 0
    <3>1. n = x - b + 1 /\ l = l0
      BY <2>0
    <3> HIDE DEF n, l
    <3>2. n \in Nat /\ n >= 1 /\ n <= l + 1 /\ l \in Nat /\ l - n + 1 = l - (x - b)
      BY ONLY <3>1, <2>00, x \in Nat, b \in Nat, l0 \in Nat
    <3> QED
      BY <3>2, <2>0, <2>00
  <2>3. /\ SubSeq(g.data, n, l) \in Seq(Nat) /\ Len(SubSeq(g.data, n, l)) = l - n + 1
        /\ \A i \in 1..(l - n + 1) : /\ SubSeq(g.data, n, l)[i] = g.data[n + i - 1]
                                     /\ n + i - 1 \in 1..l
    <3>1. g.data \in Seq(Nat) /\ n \in Nat /\ l \in Nat /\ n >= 1 /\ l <= Len(g.data) /\ n <= l + 1
      BY <1>1, <2>2
    <3>2. Len(g.data) = l
      OBVIOUS
    <3> HIDE DEF n, l
    <3>3. /\ SubSeq(g.data, n, l) \in Seq(Nat) /\ Len(SubSeq(g.data, n, l)) = l - n + 1
          /\ \A i \in 1..(l - n + 1) : /\ SubSeq(g.data, n, l)[i] = g.data[n + i - 1]
                                       /\ n + i - 1 \in 1..Len(g.data)
      <4>1. PICK t \in Seq(Nat), a \in Nat, b0 \in Nat : t = g.data /\ a = n /\ b0 = l
        BY <3>1
      <4>2. a >= 1 /\ b0 <= Len(t) /\ a <= b0 + 1
        BY <3>1, <4>1
      <4>3. /\ SubSeq(t, a, b0) \in Seq(Nat) /\ Len(SubSeq(t, a, b0)) = b0 - a + 1
            /\ \A i \in 1..(b0 - a + 1) : /\ SubSeq(t, a, b0)[i] = t[a + i - 1]
                                          /\ a + i - 1 \in 1..Len(t)
        BY ONLY <4>2, PieceOfData, t \in Seq(Nat), a \in Nat, b0 \in Nat
      <4> QED
        BY <4>1, <4>3
    <3> QED
      BY ONLY <3>2, <3>3
  <2>4. \A i \in 1..(l - n + 1) : SubSeq(g.data, n, l)[i] = c.rcv + i - 1
    <3>1. SUFFICES ASSUME NEW i \in 1..(l - n + 1) PROVE SubSeq(g.data, n, l)[i] = c.rcv + i - 1
      OBVIOUS
    <3>2. SubSeq(g.data, n, l)[i] = g.seq + (n + i - 1) - 1
      <4> HIDE DEF n
      <4> QED
        BY <1>1, <2>3
    <3>3. g.seq + (n + i - 1) - 1 = c.rcv + i - 1
      <4>1. i \in Nat
        BY <2>3
      <4>2. b + ((x - b + 1) + i - 1) - 1 = x + i - 1
        BY ONLY <4>1, x \in Nat, b \in Nat
      <4> QED
        BY <2>0, <4>2
    <3> QED
      BY <3>2, <3>3
  <2> DEFINE d == SubSeq(g.data, n, l)
  <2>5. h \in SegRec /\ h.seq = c.rcv /\ h.fin = g.fin /\ h.data = d
    <3>1. d \in Seq(Nat)
      BY <2>3
    <3> HIDE DEF d
    <3>2. [g EXCEPT !.seq = c.rcv, !.data = d] \in SegRec
      BY <1>1, <3>1 DEF SegRec
    <3>3. h = [g EXCEPT !.seq = c.rcv, !.data = d]
      BY DEF d
    <3> HIDE DEF h
    <3> QED
      BY <1>1, <3>2, <3>3 DEF SegRec
  <2>6. Len(d) = l - (c.rcv - g.seq) /\ \A i \in 1..Len(d) : d[i] = c.rcv + i - 1
    BY <2>2, <2>3, <2>4
  <2> HIDE DEF h, d
  <2>7. DataEnd(h) = DataEnd(g)
    <3>1. DataEnd(h) = c.rcv + (l - (c.rcv - g.seq))
      BY <2>5, <2>6 DEF DataEnd
    <3> QED
      BY <1>1, <3>1
  <2>8. End(h) = End(g)
    BY <1>1, <2>5, <2>7, SegFacts
  <2>9. SegOk(h, e)
    BY <1>1, <2>5, <2>6, <2>7 DEF SegOk
  <2> QED
    BY <2>1, <2>2, <2>5, <2>8, <2>9
<1> QED
  BY <1>2, <1>3

-----------------------------------------------------------------------------
(* The end of a queue is a queue. *)
LEMMA SuffixOk ==
  ASSUME NEW e \in Nat, NEW q, QueueOk(q, e), NEW n \in 0..Len(q)
  PROVE  LET r == SubSeq(q, n + 1, Len(q))
         IN  /\ QueueOk(r, e) /\ Len(r) = Len(q) - n /\ Len(r) \in Nat /\ Len(q) \in Nat
             /\ \A k \in 1..Len(r) : r[k] = q[n + k] /\ n + k \in 1..Len(q)
<1> DEFINE r == SubSeq(q, n + 1, Len(q))
<1>1. q \in Seq(SegRec) /\ Len(q) \in Nat
  BY DEF QueueOk
<1>2. n + 1 \in Nat /\ n + 1 >= 1 /\ n + 1 <= Len(q) + 1 /\ Len(q) - (n + 1) + 1 = Len(q) - n
      /\ Len(q) <= Len(q)
  BY <1>1
<1>3. /\ r \in Seq(SegRec) /\ Len(r) = Len(q) - (n + 1) + 1 /\ Len(q) - (n + 1) + 1 \in Nat
      /\ \A k \in 1..(Len(q) - (n + 1) + 1) : r[k] = q[(n + 1) + k - 1] /\ (n + 1) + k - 1 \in 1..Len(q)
  <2>1. PICK a \in Nat, b \in Nat : a = n + 1 /\ b = Len(q)
    BY <1>1, <1>2
  <2>2. a >= 1 /\ b <= Len(q) /\ a <= b + 1
    BY <1>2, <2>1
  <2>3. /\ SubSeq(q, a, b) \in Seq(SegRec) /\ Len(SubSeq(q, a, b)) = b - a + 1
        /\ b - a + 1 \in Nat
        /\ \A i \in 1..(b - a + 1) : /\ SubSeq(q, a, b)[i] = q[a + i - 1]
                                     /\ a + i - 1 \in 1..Len(q)
    BY <1>1, <2>2, PieceOfQueue
  <2> QED
    BY <2>1, <2>3
<1> HIDE DEF r
<1>4. Len(r) = Len(q) - n /\ Len(r) \in Nat
  BY <1>2, <1>3
<1>5. ASSUME NEW k \in 1..Len(r) PROVE r[k] = q[n + k] /\ n + k \in 1..Len(q)
  <2>1. (n + 1) + k - 1 = n + k
    BY <1>1
  <2> QED
    BY <1>3, <1>4, <2>1
<1>6. ASSUME NEW j \in 1..Len(r), NEW k \in 1..Len(r), j < k
      PROVE  r[j].fin = 0 /\ DataEnd(r[j]) <= r[k].seq
  <2>1. n + j < n + k
    BY <1>1, <1>4, <1>6
  <2> QED
    BY <1>5, <2>1 DEF QueueOk
<1>7. QueueOk(r, e)
  BY <1>3, <1>5, <1>6 DEF QueueOk
<1> QED
  BY <1>1, <1>4, <1>5, <1>7 DEF r

(* The queue of one segment. *)
LEMMA SingleOk ==
  ASSUME NEW e \in Nat, NEW g, SegOk(g, e), TcpLen(g) > 0
  PROVE  QueueOk(<<g>>, e) /\ Len(<<g>>) = 1 /\ <<g>>[1] = g
<1>1. g \in SegRec
  BY DEF SegOk
<1>2. /\ <<g>> \in Seq(SegRec) /\ Len(<<g>>) = 1 /\ <<g>>[1] = g
      /\ \A k \in 1..1 : k = 1
  BY <1>1
<1> QED
  BY <1>2 DEF QueueOk

(* Two queues, one behind the other. *)
Before(p, q) == \A j \in 1..Len(p), k \in 1..Len(q) : p[j].fin = 0 /\ DataEnd(p[j]) <= q[k].seq

(* r has the elements of p and then those of q. *)
Joined(r, p, q) ==
  /\ Len(r) = Len(p) + Len(q)
  /\ \A k \in 1..Len(r) :
       \/ k \in 1..Len(p) /\ r[k] = p[k]
       \/ k - Len(p) \in 1..Len(q) /\ r[k] = q[k - Len(p)]

(* A queue behind another one, all of it before what follows, is a queue    *)
(* again.                                                                   *)
LEMMA JoinOk ==
  ASSUME NEW e \in Nat, NEW p, QueueOk(p, e), NEW q, QueueOk(q, e), Before(p, q)
  PROVE  QueueOk(p \o q, e) /\ Joined(p \o q, p, q)
<1> DEFINE r == p \o q
<1>1. p \in Seq(SegRec) /\ q \in Seq(SegRec) /\ Len(p) \in Nat /\ Len(q) \in Nat
  BY DEF QueueOk
<1>2. /\ r \in Seq(SegRec) /\ Len(r) = Len(p) + Len(q)
      /\ \A k \in 1..Len(r) : r[k] = IF k <= Len(p) THEN p[k] ELSE q[k - Len(p)]
  BY <1>1
<1> HIDE DEF r
<1>3. ASSUME NEW k \in 1..Len(r)
      PROVE  \/ k \in 1..Len(p) /\ r[k] = p[k]
             \/ k - Len(p) \in 1..Len(q) /\ r[k] = q[k - Len(p)]
  BY <1>1, <1>2
<1>4. ASSUME NEW j \in 1..Len(r), NEW k \in 1..Len(r), j < k
      PROVE  r[j].fin = 0 /\ DataEnd(r[j]) <= r[k].seq
  <2>1. CASE k <= Len(p)
    <3>1. j \in 1..Len(p) /\ k \in 1..Len(p) /\ r[j] = p[j] /\ r[k] = p[k]
      BY <1>1, <1>2, <1>4, <2>1
    <3> QED
      BY <1>4, <3>1 DEF QueueOk
  <2>2. CASE j <= Len(p) /\ ~(k <= Len(p))
    <3>1. j \in 1..Len(p) /\ k - Len(p) \in 1..Len(q) /\ r[j] = p[j] /\ r[k] = q[k - Len(p)]
      BY <1>1, <1>2, <2>2
    <3> QED
      BY <3>1 DEF Before
  <2>3. CASE ~(j <= Len(p))
    <3>1. j - Len(p) \in 1..Len(q) /\ k - Len(p) \in 1..Len(q) /\ r[j] = q[j - Len(p)]
          /\ r[k] = q[k - Len(p)] /\ j - Len(p) < k - Len(p)
      BY <1>1, <1>2, <1>4, <2>3
    <3> QED
      BY <3>1 DEF QueueOk
  <2> QED
    BY <1>1, <1>4, <2>1, <2>2, <2>3
<1>5. \A k \in 1..Len(r) : SegOk(r[k], e) /\ TcpLen(r[k]) > 0
  BY <1>3 DEF QueueOk
<1>6. QueueOk(r, e)
  BY <1>2, <1>4, <1>5 DEF QueueOk
<1> QED
  BY <1>2, <1>3, <1>6 DEF r, Joined

(* How many elements of a sequence of length l come before the first in P. *)
LEMMA FirstOf ==
  ASSUME NEW l \in Nat, NEW P \in SUBSET (1..l)
  PROVE  LET n == Min(P \cup {l + 1}) - 1
         IN  n \in 0..l /\ (\A k \in 1..n : k \notin P) /\ (n < l => n + 1 \in P)
<1> DEFINE Q == P \cup {l + 1}
           m == Min(Q)
<1>1. Q \in SUBSET Nat /\ Q # {}
  OBVIOUS
<1>2. m \in Q /\ \A y \in Q : m <= y
  BY <1>1, MinIn
<1> HIDE DEF m
<1>3. m \in 1..l + 1 /\ \A y \in P : m <= y
  BY <1>2
<1>4. m - 1 \in 0..l /\ m - 1 + 1 = m
  BY <1>3
<1>5. ASSUME NEW k \in 1..(m - 1) PROVE k \notin P
  BY <1>3
<1>6. m - 1 < l => m \in P
  BY <1>2, <1>3
<1> QED
  BY <1>4, <1>5, <1>6 DEF m

(* What becomes of a segment without a FIN and of the queue behind its     *)
(* number: the segment keeps its number and ends where the rest begins.    *)
LEMMA SwallowOk ==
  ASSUME NEW e \in Nat, NEW g, SegOk(g, e), g.fin = 0, TcpLen(g) > 0, NEW q, QueueOk(q, e),
         \A k \in 1..Len(q) : \/ g.seq < q[k].seq
                              \/ k = 1 /\ g.seq = q[1].seq /\ DataEnd(q[1]) <= DataEnd(g)
  PROVE  LET s == Swallow(g, q)
         IN  /\ SegOk(s.seg, e) /\ s.seg.seq = g.seq /\ TcpLen(s.seg) > 0
             /\ \/ End(s.seg) <= End(g)
                \/ \E k \in 1..Len(q) : End(s.seg) = End(q[k])
             /\ \E n \in 0..Len(q) : s.rest = SubSeq(q, n + 1, Len(q))
             /\ \A k \in 1..Len(s.rest) : s.seg.fin = 0 /\ DataEnd(s.seg) <= s.rest[k].seq
<1> DEFINE end == g.seq + TcpLen(g)
           P == {k \in 1..Len(q) : DataEnd(q[k]) > end}
           n == Min(P \cup {Len(q) + 1}) - 1
           rest == SubSeq(q, n + 1, Len(q))
           f == IF \E k \in 1..n : q[k].fin = 1 THEN [g EXCEPT !.fin = 1] ELSE g
           seg == IF rest # <<>> /\ g.seq + TcpLen(f) > Head(rest).seq
                  THEN CutTo(f, Head(rest).seq) ELSE f
<1>1. Swallow(g, q).seg = seg /\ Swallow(g, q).rest = rest
  BY DEF Swallow
<1>2. /\ g \in SegRec /\ g.seq \in Nat /\ Len(g.data) \in Nat /\ TcpLen(g) \in Nat
      /\ TcpLen(g) = Len(g.data) + g.fin /\ DataEnd(g) = g.seq + Len(g.data)
      /\ DataEnd(g) \in Nat /\ DataEnd(g) <= e /\ End(g) = DataEnd(g) + g.fin
      /\ \A j \in 1..Len(g.data) : g.data[j] = g.seq + j - 1
  BY SegFacts DEF SegOk
<1>3. end = DataEnd(g) /\ g.seq < DataEnd(g) /\ End(g) = DataEnd(g) /\ Len(g.data) = TcpLen(g)
  BY <1>2
<1>4. Len(q) \in Nat /\ q \in Seq(SegRec)
  BY DEF QueueOk
<1>5. n \in 0..Len(q) /\ (\A k \in 1..n : k \notin P) /\ (n < Len(q) => n + 1 \in P)
  <2> HIDE DEF P
  <2>1. P \in SUBSET (1..Len(q))
    BY DEF P
  <2> QED
    BY <1>4, <2>1, FirstOf
<1> HIDE DEF n
<1>6. ASSUME NEW k \in 1..n PROVE k \in 1..Len(q) /\ DataEnd(q[k]) <= DataEnd(g)
  <2>1. k \in 1..Len(q) /\ k \notin P
    BY <1>4, <1>5
  <2>2. q[k] \in SegRec
    BY <1>4, <2>1
  <2>3. DataEnd(q[k]) \in Nat
    BY <2>2, SegFacts
  <2> QED
    BY <1>2, <1>3, <2>1, <2>3
<1>7. /\ QueueOk(rest, e) /\ Len(rest) = Len(q) - n /\ Len(rest) \in Nat
      /\ \A k \in 1..Len(rest) : rest[k] = q[n + k] /\ n + k \in 1..Len(q)
  <2> HIDE DEF P, end
  <2>1. e \in Nat /\ QueueOk(q, e)
    OBVIOUS
  <2> QED
    BY ONLY <1>5, <2>1, SuffixOk
<1> HIDE DEF rest
<1>8. ASSUME NEW k \in 1..Len(rest) PROVE \A j \in 1..n : q[j].fin = 0 /\ DataEnd(q[j]) <= rest[k].seq
  <2>1. ASSUME NEW j \in 1..n PROVE j < n + k /\ j \in 1..Len(q)
    BY <1>4, <1>5
  <2> QED
    BY <1>7, <2>1 DEF QueueOk
<1>9. ASSUME NEW k \in 1..Len(rest) PROVE g.seq < rest[k].seq /\ rest[k].seq \in Nat
  <2>0. rest[k] \in SegRec /\ rest[k].seq \in Nat
    BY <1>7, SegFacts DEF QueueOk
  <2>1. CASE g.seq < q[n + k].seq
    BY <1>7, <2>0, <2>1
  <2>2. CASE n + k = 1 /\ g.seq = q[1].seq /\ DataEnd(q[1]) <= DataEnd(g)
    <3>1. n = 0 /\ k = 1
      BY <1>5, <2>2
    <3>2. 1 \in P
      BY <1>4, <1>5, <1>7, <3>1
    <3>3. q[1] \in SegRec
      BY <1>4, <3>2
    <3>4. DataEnd(q[1]) \in Nat
      BY <3>3, SegFacts
    <3> QED
      BY <1>2, <1>3, <2>2, <3>2, <3>4
  <2> QED
    BY <1>7, <2>1, <2>2
<1>10. /\ SegOk(f, e) /\ f.seq = g.seq /\ f.data = g.data /\ TcpLen(f) > 0
       /\ DataEnd(f) = DataEnd(g)
       /\ f.fin = 0 \/ \E k \in 1..n : q[k].fin = 1 /\ End(f) = End(q[k])
  <2>1. CASE ~\E k \in 1..n : q[k].fin = 1
    BY <1>2, <2>1
  <2>2. CASE \E k \in 1..n : q[k].fin = 1
    <3>0. PICK k \in 1..n : q[k].fin = 1
      BY <2>2
    <3>1. f = [g EXCEPT !.fin = 1]
      BY <2>2
    <3>2. SegOk(q[k], e) /\ q[k] \in SegRec
      BY <1>6 DEF QueueOk, SegOk
    <3>3. DataEnd(q[k]) = e /\ End(q[k]) = e + 1
      BY <3>0, <3>2, SegFacts DEF SegOk
    <3>4. DataEnd(g) = e
      BY <1>2, <1>6, <3>3
    <3> HIDE DEF f
    <3>5. f \in SegRec /\ f.seq = g.seq /\ f.data = g.data /\ f.fin = 1
      <4>1. g \in SegRec
        BY <1>2
      <4> QED
        BY ONLY <3>1, <4>1 DEF SegRec
    <3>6. DataEnd(f) = DataEnd(g) /\ TcpLen(f) = Len(g.data) + 1 /\ End(f) = e + 1
      BY <1>2, <3>4, <3>5, SegFacts
    <3>7. SegOk(f, e)
      BY <1>2, <3>4, <3>5, <3>6 DEF SegOk
    <3>8. TcpLen(f) > 0
      BY <1>2, <3>6
    <3> QED
      BY <3>0, <3>3, <3>5, <3>6, <3>7, <3>8
  <2> QED
    BY <2>1, <2>2
<1> HIDE DEF f, P
<1>11. CASE Len(rest) = 0
  <2>1. rest = <<>> /\ seg = f
    BY <1>7, <1>11 DEF QueueOk
  <2>2. End(f) <= End(g) \/ \E k \in 1..Len(q) : End(f) = End(q[k])
    <3>1. f.fin = 0 => End(f) = DataEnd(f)
      BY <1>10, SegFacts DEF SegOk
    <3> QED
      BY <1>2, <1>3, <1>6, <1>10, <3>1
  <2>3. \A k \in 1..Len(rest) : FALSE
    BY <1>11
  <2> HIDE DEF seg
  <2> QED
    BY <1>1, <1>5, <1>10, <2>1, <2>2, <2>3 DEF rest
<1>12. CASE Len(rest) # 0
  <2>1. rest # <<>> /\ Head(rest) = rest[1] /\ 1 \in 1..Len(rest)
    BY <1>7, <1>12 DEF QueueOk
  <2> DEFINE x == rest[1].seq
  <2>2. x \in Nat /\ g.seq < x
    BY <1>9, <2>1
  <2>3. \A k \in 1..Len(rest) : x <= rest[k].seq
    <3>1. SUFFICES ASSUME NEW k \in 1..Len(rest), k # 1 PROVE x <= rest[k].seq
      BY <2>2
    <3>2. DataEnd(rest[1]) <= rest[k].seq
      BY <1>7, <2>1, <3>1 DEF QueueOk
    <3>3. rest[1] \in SegRec
      BY <1>7, <2>1 DEF QueueOk
    <3>4. PICK d \in Nat, l \in Nat : d = DataEnd(rest[1]) /\ d = x + l
      BY <3>3, SegFacts
    <3> HIDE DEF x
    <3> QED
      BY <1>9, <2>2, <3>2, <3>4
  <2>4. f.fin = 0
    BY <1>8, <1>10, <2>1
  <2>5. TcpLen(f) = TcpLen(g) /\ End(f) = DataEnd(g)
    <3>1. f \in SegRec
      BY <1>10 DEF SegOk
    <3> QED
      BY <1>2, <1>3, <1>10, <2>4, <3>1, SegFacts
  <2>6. CASE ~(end > x)
    <3>1. seg = f
      BY <2>1, <2>5, <2>6
    <3>2. DataEnd(f) <= x
      BY <1>2, <1>3, <1>10, <2>2, <2>6
    <3>3. \A k \in 1..Len(rest) : DataEnd(f) <= rest[k].seq
      BY <1>2, <1>9, <1>10, <2>2, <2>3, <3>2
    <3> HIDE DEF seg, x
    <3>4. End(f) <= End(g)
      BY <1>2, <1>3, <2>5
    <3>5. \E m \in 0..Len(q) : rest = SubSeq(q, m + 1, Len(q))
      BY <1>5 DEF rest
    <3> QED
      BY <1>1, <1>10, <2>4, <3>1, <3>3, <3>4, <3>5
  <2>7. CASE end > x
    <3>1. seg = CutTo(f, x)
      BY <2>1, <2>5, <2>7
    <3> HIDE DEF seg, x
    <3>2. f.seq <= x /\ x <= DataEnd(f)
      BY <1>2, <1>3, <1>10, <2>2, <2>7
    <3>3. SegOk(seg, e) /\ seg.seq = g.seq /\ DataEnd(seg) = x /\ seg.fin = 0
          /\ Len(seg.data) = x - g.seq /\ seg \in SegRec
      BY <1>10, <2>2, <2>4, <3>1, <3>2, CutOk
    <3>4. TcpLen(seg) > 0 /\ End(seg) = x
      BY <1>2, <2>2, <3>3, SegFacts
    <3>5. x <= End(g)
      BY <1>2, <1>3, <2>2, <2>7
    <3>6. \A k \in 1..Len(rest) : DataEnd(seg) <= rest[k].seq
      BY <2>3, <3>3
    <3> QED
      BY <1>1, <1>5, <3>3, <3>4, <3>5, <3>6 DEF rest
  <2> QED
    BY <2>6, <2>7
<1> QED
  BY <1>7, <1>11, <1>12

(* What tcp_oos_insert_segment makes of a segment and the queue behind it. *)
LEMMA InsertOk ==
  ASSUME NEW e \in Nat, NEW g, SegOk(g, e), TcpLen(g) > 0, NEW q, QueueOk(q, e),
         \A k \in 1..Len(q) : \/ g.seq < q[k].seq
                              \/ k = 1 /\ g.seq = q[1].seq /\ DataEnd(q[1]) <= DataEnd(g),
         NEW hi \in Nat, End(g) <= hi, \A k \in 1..Len(q) : End(q[k]) <= hi
  PROVE  LET r == OosInsert(g, q)
         IN  /\ QueueOk(r, e) /\ Len(r) \in Nat /\ Len(r) <= Len(q) + 1
             /\ \A k \in 1..Len(r) : g.seq <= r[k].seq /\ End(r[k]) <= hi
<1>1. /\ g \in SegRec /\ g.seq \in Nat /\ g.fin \in {0, 1} /\ End(g) \in Nat /\ Len(q) \in Nat
      /\ End(g) = DataEnd(g) + g.fin /\ DataEnd(g) \in Nat
  BY SegFacts DEF SegOk, QueueOk
<1>2. CASE g.fin = 1
  <2>1. OosInsert(g, q) = <<g>>
    BY <1>2 DEF OosInsert
  <2>2. QueueOk(<<g>>, e) /\ Len(<<g>>) = 1 /\ <<g>>[1] = g
    BY SingleOk
  <2>3. \A k \in 1..1 : k = 1
    OBVIOUS
  <2> QED
    BY <1>1, <2>1, <2>2, <2>3
<1>3. CASE g.fin = 0
  <2> DEFINE s == Swallow(g, q)
  <2>1. /\ SegOk(s.seg, e) /\ s.seg.seq = g.seq /\ TcpLen(s.seg) > 0
        /\ \/ End(s.seg) <= End(g)
           \/ \E k \in 1..Len(q) : End(s.seg) = End(q[k])
        /\ \E n \in 0..Len(q) : s.rest = SubSeq(q, n + 1, Len(q))
        /\ \A k \in 1..Len(s.rest) : s.seg.fin = 0 /\ DataEnd(s.seg) <= s.rest[k].seq
    BY <1>3, SwallowOk
  <2>2. PICK n \in 0..Len(q) : s.rest = SubSeq(q, n + 1, Len(q))
    BY <2>1
  <2>3. OosInsert(g, q) = <<s.seg>> \o s.rest
    BY <1>3 DEF OosInsert
  <2>4. PICK seg, rest : seg = s.seg /\ rest = s.rest
    OBVIOUS
  <2> HIDE DEF s
  <2>5. /\ QueueOk(rest, e) /\ Len(rest) = Len(q) - n /\ Len(rest) \in Nat
        /\ \A k \in 1..Len(rest) : rest[k] = q[n + k] /\ n + k \in 1..Len(q)
    BY <2>2, <2>4, SuffixOk
  <2>60. PICK one : one = <<seg>>
    OBVIOUS
  <2>6. QueueOk(one, e) /\ Len(one) = 1 /\ one[1] = seg
    BY <2>1, <2>4, <2>60, SingleOk
  <2>7. seg \in SegRec /\ End(seg) \in Nat /\ End(seg) <= hi /\ DataEnd(seg) \in Nat
        /\ g.seq <= DataEnd(seg)
    <3>1. seg \in SegRec
      BY <2>1, <2>4 DEF SegOk
    <3>2. End(seg) \in Nat /\ DataEnd(seg) \in Nat /\ seg.seq <= DataEnd(seg)
      BY <3>1, SegFacts
    <3> QED
      BY <1>1, <2>1, <2>4, <3>1, <3>2
  <2>8. \A j \in 1..Len(one), k \in 1..Len(rest) :
          one[j].fin = 0 /\ DataEnd(one[j]) <= rest[k].seq
    <3>1. \A j \in 1..Len(one) : one[j] = seg
      BY <2>6
    <3> QED
      BY <2>1, <2>4, <3>1
  <2> DEFINE r == one \o rest
  <2>9. /\ QueueOk(r, e) /\ Len(r) = Len(one) + Len(rest)
        /\ \A k \in 1..Len(r) : \/ k \in 1..Len(one) /\ r[k] = one[k]
                                \/ k - Len(one) \in 1..Len(rest) /\ r[k] = rest[k - Len(one)]
    <3>1. e \in Nat
      OBVIOUS
    <3>2. Before(one, rest)
      BY <2>8 DEF Before
    <3>3. QueueOk(one \o rest, e) /\ Joined(one \o rest, one, rest)
      BY ONLY <2>5, <2>6, <3>1, <3>2, JoinOk
    <3> QED
      BY <3>3 DEF Joined
  <2> HIDE DEF r
  <2>10. Len(r) \in Nat /\ Len(r) <= Len(q) + 1
    BY <1>1, <2>5, <2>6, <2>9
  <2>11. ASSUME NEW k \in 1..Len(r) PROVE g.seq <= r[k].seq /\ End(r[k]) <= hi
    <3>1. CASE k \in 1..Len(one) /\ r[k] = one[k]
      BY <1>1, <2>1, <2>4, <2>6, <2>7, <3>1
    <3>2. ASSUME NEW j \in 1..Len(rest), r[k] = rest[j] PROVE g.seq <= r[k].seq /\ End(r[k]) <= hi
      <4>1. End(r[k]) <= hi
        BY <2>5, <3>2
      <4>2. DataEnd(seg) <= rest[j].seq /\ rest[j] \in SegRec
        BY <2>1, <2>4, <2>5 DEF QueueOk
      <4>3. rest[j].seq \in Nat
        BY <4>2, SegFacts
      <4> QED
        BY <1>1, <2>7, <3>2, <4>1, <4>2, <4>3
    <3> QED
      BY <2>9, <3>1, <3>2
  <2> QED
    BY <2>3, <2>4, <2>60, <2>9, <2>10, <2>11 DEF r
<1> QED
  BY <1>1, <1>2, <1>3

(* The queue after a segment in the window that is not the next one. *)
LEMMA QueuedOk ==
  ASSUME NEW e \in Nat, NEW g, SegOk(g, e), TcpLen(g) > 0,
         NEW c, QueueOk(c.ooseq, e), NEW lo \in Nat, NEW hi \in Nat, hi = c.rcv + c.wnd,
         Inside(c.ooseq, lo, hi), lo < g.seq, End(g) <= hi
  PROVE  LET r == Queued(c, g)
         IN  /\ QueueOk(r, e) /\ Inside(r, lo, hi)
             /\ Len(r) \in Nat /\ Len(c.ooseq) \in Nat /\ Len(r) <= Len(c.ooseq) + 1
<1>0. PICK q : q = c.ooseq
  OBVIOUS
<1> DEFINE P == {k \in 1..Len(q) : q[k].seq >= g.seq}
           n == Min(P \cup {Len(q) + 1}) - 1
           front == [k \in 1..n |->
                       IF k = n /\ DataEnd(q[k]) > g.seq THEN CutTo(q[k], g.seq) ELSE q[k]]
           there == n < Len(q) /\ q[n + 1].seq = g.seq /\ Len(g.data) <= Len(q[n + 1].data)
           atEnd == q # <<>> /\ n = Len(q)
           rest == SubSeq(q, n + 1, Len(q))
           fit == IF atEnd THEN FitWindow(c, g) ELSE g
<1>1. Queued(c, g) = IF there \/ (atEnd /\ Last(q).fin = 1) THEN q
                     ELSE front \o OosInsert(fit, rest)
  BY <1>0 DEF Queued
<1>2. QueueOk(q, e) /\ q \in Seq(SegRec) /\ Len(q) \in Nat /\ Inside(q, lo, hi)
  BY <1>0 DEF QueueOk
<1>3. CASE there \/ (atEnd /\ Last(q).fin = 1)
  <2>1. Queued(c, g) = q
    BY <1>1, <1>3
  <2> QED
    BY <1>0, <1>2, <2>1
<1>4. CASE ~(there \/ (atEnd /\ Last(q).fin = 1))
  <2>1. Queued(c, g) = front \o OosInsert(fit, rest)
    BY <1>1, <1>4
  <2>2. /\ g \in SegRec /\ g.seq \in Nat /\ Len(g.data) \in Nat /\ g.fin \in {0, 1}
        /\ TcpLen(g) = Len(g.data) + g.fin /\ TcpLen(g) \in Nat
        /\ DataEnd(g) = g.seq + Len(g.data) /\ DataEnd(g) \in Nat
        /\ End(g) = DataEnd(g) + g.fin /\ End(g) \in Nat /\ End(g) = g.seq + TcpLen(g)
    BY SegFacts DEF SegOk, End
  <2>3. fit = g
    <3>1. FitWindow(c, g) = g
      BY <2>2 DEF FitWindow
    <3> QED
      BY <3>1
  <2>4. n \in 0..Len(q) /\ (\A k \in 1..n : k \notin P) /\ (n < Len(q) => n + 1 \in P)
    <3> HIDE DEF P
    <3>1. P \in SUBSET (1..Len(q))
      BY DEF P
    <3> QED
      BY <1>2, <3>1, FirstOf
  <2>5. \A k \in 1..Len(q) : /\ q[k] \in SegRec /\ q[k].seq \in Nat /\ q[k].fin \in {0, 1}
                             /\ DataEnd(q[k]) = q[k].seq + Len(q[k].data)
                             /\ Len(q[k].data) \in Nat /\ DataEnd(q[k]) \in Nat
                             /\ TcpLen(q[k]) = Len(q[k].data) + q[k].fin
                             /\ SegOk(q[k], e) /\ TcpLen(q[k]) > 0 /\ lo < q[k].seq
                             /\ End(q[k]) \in Nat /\ End(q[k]) = DataEnd(q[k]) + q[k].fin
                             /\ End(q[k]) <= hi
    BY <1>2, SegFacts DEF QueueOk, Inside
  <2>6. \A k \in 1..n : k \in 1..Len(q) /\ q[k].seq < g.seq
    <3> HIDE DEF n
    <3>1. SUFFICES ASSUME NEW k \in 1..n PROVE k \in 1..Len(q) /\ q[k].seq < g.seq
      OBVIOUS
    <3>2. k \in 1..Len(q) /\ k \notin P
      BY <1>2, <2>4
    <3>3. ~(q[k].seq >= g.seq) /\ q[k].seq \in Nat
      BY <2>5, <3>2
    <3> QED
      BY <2>2, <3>2, <3>3
  <2>61. n < Len(q) => n + 1 \in 1..Len(q) /\ g.seq <= q[n + 1].seq
    <3> HIDE DEF n
    <3>1. SUFFICES ASSUME n < Len(q) PROVE n + 1 \in 1..Len(q) /\ g.seq <= q[n + 1].seq
      OBVIOUS
    <3>2. PICK j \in 1..Len(q) : j = n + 1 /\ j \in P
      BY <1>2, <2>4, <3>1
    <3>3. q[j].seq >= g.seq /\ q[j].seq \in Nat
      BY <2>5, <3>2
    <3>4. g.seq <= q[j].seq
      BY <2>2, <3>3
    <3> QED
      BY <3>2, <3>4
  <2>62. ~there /\ ~(n = Len(q) /\ q # <<>> /\ Last(q).fin = 1)
    BY <1>4
  <2>63. n \in 0..Len(q) /\ n \in Nat
    BY <1>2, <2>4
  <2>64. e \in Nat
    OBVIOUS
  <2> HIDE DEF fit, n, P, front
  <2>7. /\ QueueOk(rest, e) /\ Len(rest) = Len(q) - n /\ Len(rest) \in Nat
        /\ \A k \in 1..Len(rest) : rest[k] = q[n + k] /\ n + k \in 1..Len(q)
    BY ONLY <1>2, <2>63, <2>64, SuffixOk
  <2>8. n < Len(q) /\ q[n + 1].seq = g.seq => ~(Len(g.data) <= Len(q[n + 1].data))
    BY <2>62
  <2>9. \A k \in 1..n : q[k].fin = 0 /\ (k < n => DataEnd(q[k]) <= q[n].seq)
    <3>1. SUFFICES ASSUME NEW k \in 1..n
                   PROVE  q[k].fin = 0 /\ (k < n => DataEnd(q[k]) <= q[n].seq)
      OBVIOUS
    <3>2. k \in 1..Len(q) /\ n \in 1..Len(q)
      BY <1>2, <2>63
    <3>3. CASE k < n
      BY <1>2, <3>2, <3>3 DEF QueueOk
    <3>4. CASE k = n /\ n < Len(q)
      <4>1. n + 1 \in 1..Len(q) /\ k < n + 1
        BY <1>2, <3>2, <3>4
      <4> QED
        BY <1>2, <3>2, <3>4, <4>1 DEF QueueOk
    <3>5. CASE k = n /\ n = Len(q)
      <4>1. q # <<>> /\ Last(q) = q[n]
        <5>1. q # <<>>
          BY <1>2, <3>2
        <5> QED
          BY <3>5, <5>1 DEF Last
      <4>2. q[n].fin # 1
        BY <2>62, <3>5, <4>1
      <4>3. q[k].fin = 0
        BY <2>5, <3>2, <3>5, <4>2
      <4> QED
        BY <2>63, <3>5, <4>3
    <3> QED
      BY <1>2, <2>63, <3>3, <3>4, <3>5
  <2>10. \A k \in 1..Len(rest) :
            \/ g.seq < rest[k].seq
            \/ k = 1 /\ g.seq = rest[1].seq /\ DataEnd(rest[1]) <= DataEnd(g)
    <3>1. SUFFICES ASSUME NEW k \in 1..Len(rest), ~(g.seq < rest[k].seq)
                   PROVE  k = 1 /\ g.seq = rest[1].seq /\ DataEnd(rest[1]) <= DataEnd(g)
      OBVIOUS
    <3>2. n < Len(q) /\ 1 \in 1..Len(rest) /\ n + 1 \in 1..Len(q) /\ rest[1] = q[n + 1]
      <4>1. n < Len(q) /\ 1 \in 1..Len(rest)
        BY <1>2, <2>63, <2>7
      <4>2. n + 1 \in 1..Len(q)
        BY <1>2, <2>63, <4>1
      <4> QED
        BY <2>7, <4>1, <4>2
    <3>3. g.seq <= q[n + 1].seq
      BY <2>61, <3>2
    <3>21. PICK h : h = q[n + 1]
      OBVIOUS
    <3>22. /\ h.seq \in Nat /\ DataEnd(h) \in Nat /\ Len(h.data) \in Nat /\ h.fin \in {0, 1}
           /\ DataEnd(h) = h.seq + Len(h.data) /\ TcpLen(h) = Len(h.data) + h.fin /\ TcpLen(h) > 0
      BY <2>5, <3>2, <3>21
    <3>23. PICK b \in Nat, d \in Nat, lb \in Nat, fb \in {0, 1} :
             b = h.seq /\ d = DataEnd(h) /\ lb = Len(h.data) /\ fb = h.fin
      BY ONLY <3>22
    <3>24. d = b + lb /\ lb + fb > 0
      BY ONLY <3>22, <3>23
    <3>25. PICK a \in Nat, la \in Nat, fa \in {0, 1} : a = g.seq /\ la = Len(g.data) /\ fa = g.fin
      BY ONLY <2>2
    <3>26. DataEnd(g) = a + la
      BY ONLY <2>2, <3>25
    <3>30. /\ a = g.seq /\ b = q[n + 1].seq /\ d = DataEnd(q[n + 1]) /\ la = Len(g.data)
           /\ lb = Len(q[n + 1].data) /\ fb = q[n + 1].fin /\ d = b + lb /\ fa = g.fin
           /\ DataEnd(g) = a + la /\ lb + fb > 0
      BY ONLY <3>21, <3>23, <3>24, <3>25, <3>26
    <3>31. a <= b
      BY <3>3, <3>30
    <3>4. k = 1
      <4>1. SUFFICES ASSUME k # 1 PROVE FALSE
        OBVIOUS
      <4>2. 1 < k
        BY <2>7, <4>1
      <4>3. rest[1].fin = 0 /\ DataEnd(rest[1]) <= rest[k].seq
        BY <2>7, <3>2, <4>2 DEF QueueOk
      <4>4. PICK x \in Nat : x = rest[k].seq
        BY <2>5, <2>7
      <4>5. fb = 0 /\ d <= x /\ ~(a < x)
        BY <3>1, <3>2, <3>30, <4>3, <4>4
      <4> QED
        <5>1. d = b + lb /\ lb > 0
          BY <3>30, <4>5
        <5> QED
          BY ONLY <3>31, <4>5, <5>1, a \in Nat, b \in Nat, x \in Nat, lb \in Nat, d \in Nat
    <3>5. a = b
      <4>1. ~(a < b)
        BY <3>1, <3>2, <3>30, <3>4
      <4> QED
        BY ONLY <3>31, <4>1, a \in Nat, b \in Nat
    <3>6. lb < la
      <4>1. ~(la <= lb)
        BY <2>8, <3>2, <3>30, <3>5
      <4> QED
        BY ONLY <4>1, la \in Nat, lb \in Nat
    <3>7. d <= a + la
      BY ONLY <3>30, <3>5, <3>6, la \in Nat, lb \in Nat, a \in Nat
    <3> QED
      BY <3>2, <3>30, <3>4, <3>5, <3>7
  <2> DEFINE ins == OosInsert(g, rest)
  <2>11. /\ QueueOk(ins, e) /\ Len(ins) \in Nat /\ Len(ins) <= Len(rest) + 1
         /\ \A k \in 1..Len(ins) : g.seq <= ins[k].seq /\ End(ins[k]) <= hi
    <3>1. \A k \in 1..Len(rest) : End(rest[k]) <= hi
      BY <2>5, <2>7
    <3>2. e \in Nat /\ SegOk(g, e) /\ TcpLen(g) > 0 /\ hi \in Nat /\ End(g) <= hi
      OBVIOUS
    <3> HIDE DEF rest
    <3> QED
      BY ONLY <2>7, <2>10, <3>1, <3>2, InsertOk
  <2>12. ASSUME NEW k \in 1..n
         PROVE  /\ front[k] \in SegRec /\ SegOk(front[k], e) /\ TcpLen(front[k]) > 0
                /\ front[k].fin = 0 /\ DataEnd(front[k]) <= g.seq /\ front[k].seq = q[k].seq
                /\ End(front[k]) <= hi /\ DataEnd(front[k]) <= DataEnd(q[k])
    <3>0. k \in 1..Len(q) /\ q[k].fin = 0 /\ q[k].seq < g.seq
      BY <2>6, <2>9
    <3>1. CASE k = n /\ DataEnd(q[k]) > g.seq
      <4>1. PICK h : h = front[k]
        OBVIOUS
      <4>2. h = CutTo(q[k], g.seq)
        BY <3>1, <4>1 DEF front
      <4>20. PICK x : x = q[k]
        OBVIOUS
      <4>21. PICK y \in Nat, z \in Nat : y = g.seq /\ z = x.seq
        BY <2>2, <2>5, <3>0, <4>20
      <4>3. q[k].seq <= g.seq /\ g.seq <= DataEnd(q[k])
        BY <2>2, <2>5, <3>0, <3>1
      <4>4. /\ h \in SegRec /\ h.seq = q[k].seq /\ h.fin = q[k].fin /\ DataEnd(h) = g.seq
            /\ Len(h.data) = g.seq - q[k].seq /\ SegOk(h, e)
        <5>1. SegOk(x, e) /\ x.fin = 0 /\ x.seq <= y /\ y <= DataEnd(x) /\ h = CutTo(x, y)
          BY <2>5, <3>0, <4>2, <4>20, <4>21, <4>3
        <5>2. /\ h \in SegRec /\ h.seq = x.seq /\ h.fin = x.fin /\ DataEnd(h) = y
              /\ Len(h.data) = y - x.seq /\ SegOk(h, e)
          BY ONLY <2>64, <4>21, <5>1, CutOk
        <5> QED
          BY <4>20, <4>21, <5>2
      <4>5. TcpLen(h) > 0 /\ End(h) = g.seq
        <5>1. h.fin = 0 /\ Len(h.data) = y - z /\ z < y
          BY <3>0, <4>20, <4>21, <4>4
        <5>2. TcpLen(h) = (y - z) + 0 /\ End(h) = y + 0
          BY <4>21, <4>4, <5>1, SegFacts
        <5> QED
          BY <4>21, <5>1, <5>2
      <4>6. g.seq <= hi
        BY <2>2
      <4> QED
        BY <2>2, <3>0, <4>1, <4>3, <4>4, <4>5, <4>6
    <3>2. CASE ~(k = n /\ DataEnd(q[k]) > g.seq)
      <4>1. front[k] = q[k]
        BY <3>2 DEF front
      <4>2. DataEnd(q[k]) <= g.seq
        <5>1. CASE k = n
          BY <2>2, <2>5, <3>0, <3>2, <5>1
        <5>2. CASE k # n
          <6>1. k < n /\ n \in 1..n
            BY <2>63, <5>2
          <6>2. n \in 1..Len(q) /\ q[n].seq < g.seq /\ DataEnd(q[k]) <= q[n].seq
            BY <2>6, <2>9, <6>1
          <6>3. PICK x \in Nat, y \in Nat, z \in Nat : x = DataEnd(q[k]) /\ y = q[n].seq /\ z = g.seq
            BY <2>2, <2>5, <3>0, <6>2
          <6> QED
            BY <6>2, <6>3
        <5> QED
          BY <5>1, <5>2
      <4> HIDE DEF front
      <4> QED
        BY <2>5, <3>0, <4>1, <4>2
    <3> QED
      BY <3>1, <3>2
  <2>13. n \in Nat /\ Len(front) = n /\ front \in Seq(SegRec)
    <3>1. n \in Nat
      BY <2>63
    <3>2. front = [k \in 1..n |-> front[k]]
      BY DEF front
    <3>3. front \in [1..n -> SegRec]
      BY <2>12, <3>2
    <3> QED
      BY <3>1, <3>3
  <2> HIDE DEF rest, ins, there
  <2>14. ASSUME NEW j \in 1..Len(front), NEW k \in 1..Len(front), j < k
         PROVE  front[j].fin = 0 /\ DataEnd(front[j]) <= front[k].seq
    <3>1. j \in 1..n /\ k \in 1..n /\ j \in 1..Len(q) /\ k \in 1..Len(q)
      BY <2>6, <2>13
    <3>2. DataEnd(q[j]) <= q[k].seq
      BY <1>2, <2>14, <3>1 DEF QueueOk
    <3>3. front[j].fin = 0 /\ DataEnd(front[j]) <= DataEnd(q[j]) /\ front[k].seq = q[k].seq
          /\ front[j] \in SegRec
      BY <2>12, <3>1
    <3>4. DataEnd(front[j]) \in Nat /\ DataEnd(q[j]) \in Nat /\ q[k].seq \in Nat
      BY <2>5, <3>1, <3>3, SegFacts
    <3> QED
      BY <3>2, <3>3, <3>4
  <2>15. QueueOk(front, e)
    BY <2>12, <2>13, <2>14 DEF QueueOk
  <2>16. \A j \in 1..Len(front), k \in 1..Len(ins) :
           front[j].fin = 0 /\ DataEnd(front[j]) <= ins[k].seq
    <3>1. SUFFICES ASSUME NEW j \in 1..Len(front), NEW k \in 1..Len(ins)
                   PROVE  front[j].fin = 0 /\ DataEnd(front[j]) <= ins[k].seq
      OBVIOUS
    <3>2. j \in 1..n
      BY <2>13
    <3>3. front[j] \in SegRec /\ DataEnd(front[j]) <= g.seq /\ front[j].fin = 0
      BY <2>12, <3>2
    <3>4. ins[k] \in SegRec /\ g.seq <= ins[k].seq
      BY <2>11 DEF QueueOk
    <3>5. DataEnd(front[j]) \in Nat /\ ins[k].seq \in Nat
      BY <3>3, <3>4, SegFacts
    <3>6. PICK x \in Nat, y \in Nat, z \in Nat : x = DataEnd(front[j]) /\ y = g.seq /\ z = ins[k].seq
      BY <2>2, <3>5
    <3> QED
      BY <3>3, <3>4, <3>6
  <2> DEFINE r == front \o ins
  <2>17. /\ QueueOk(r, e) /\ Len(r) = Len(front) + Len(ins)
         /\ \A k \in 1..Len(r) :
              \/ k \in 1..Len(front) /\ r[k] = front[k]
              \/ k - Len(front) \in 1..Len(ins) /\ r[k] = ins[k - Len(front)]
    <3>2. Before(front, ins)
      BY <2>16 DEF Before
    <3>3. QueueOk(front \o ins, e) /\ Joined(front \o ins, front, ins)
      BY ONLY <2>11, <2>15, <2>64, <3>2, JoinOk
    <3> QED
      BY <3>3 DEF Joined
  <2> HIDE DEF r
  <2>18. Inside(r, lo, hi)
    <3>1. SUFFICES ASSUME NEW k \in 1..Len(r) PROVE r[k].seq > lo /\ End(r[k]) <= hi
      BY DEF Inside
    <3>2. CASE k \in 1..Len(front) /\ r[k] = front[k]
      <4>1. k \in 1..n /\ k \in 1..Len(q)
        BY <2>6, <2>13, <3>2
      <4> QED
        BY <2>5, <2>12, <3>2, <4>1
    <3>3. ASSUME NEW j \in 1..Len(ins), r[k] = ins[j] PROVE r[k].seq > lo /\ End(r[k]) <= hi
      <4>1. ins[j] \in SegRec /\ g.seq <= ins[j].seq /\ End(ins[j]) <= hi
        BY <2>11 DEF QueueOk
      <4>2. ins[j].seq \in Nat
        BY <4>1, SegFacts
      <4> QED
        BY <2>2, <3>3, <4>1, <4>2
    <3> QED
      BY <2>17, <3>2, <3>3
  <2>19. Len(r) \in Nat /\ Len(r) <= Len(q) + 1
    BY <1>2, <2>63, <2>7, <2>11, <2>13, <2>17
  <2> QED
    BY <1>0, <1>2, <2>1, <2>3, <2>17, <2>18, <2>19 DEF r, ins, rest, front, n, P, fit
<1> QED
  BY <1>3, <1>4

-----------------------------------------------------------------------------
(* The fields of a control block.                                           *)
States == {"CLOSED", "SYN_RCVD", "ESTABLISHED", "LAST_ACK"}

(* The control blocks; the window is only bounded by the stream below. *)
PcbRec == [st : States, peer : AllHosts, rcv : Nat, wnd : Int, snd : Nat, idle : 0..IdleMax,
           rtime : Int, rto : Nat \ {0}, est : Nat \ {0}, nrtx : 0..MaxRtx, dup : Nat,
           infr : BOOLEAN, delay : BOOLEAN, ooseq : Seq(SegRec), arg : BOOLEAN,
           got : Seq(Nat), base : Nat]

(* The bytes given to the application are those from b on, rcv_nxt counts   *)
(* them and a FIN, and the right edge of the window stays at hi.            *)
Stream(c, b, f, hi) ==
  /\ \A k \in 1..Len(c.got) : c.got[k] = b + k - 1
  /\ c.rcv = b + Len(c.got) + f
  /\ c.rcv + c.wnd = hi /\ c.rcv <= hi

(* What is left alone when data moves into the stream. *)
SameButData(d, c) ==
  /\ d \in PcbRec
  /\ d.st = c.st /\ d.peer = c.peer /\ d.snd = c.snd /\ d.idle = c.idle /\ d.rtime = c.rtime
  /\ d.rto = c.rto /\ d.est = c.est /\ d.nrtx = c.nrtx /\ d.dup = c.dup /\ d.infr = c.infr
  /\ d.delay = c.delay /\ d.arg = c.arg /\ d.base = c.base

(* The next segment moves into the stream. *)
LEMMA ConsumeOk ==
  ASSUME NEW e \in Nat, NEW g, SegOk(g, e), NEW c, c \in PcbRec, NEW b \in Nat, NEW hi \in Nat,
         Stream(c, b, 0, hi), g.seq = c.rcv, End(g) <= hi
  PROVE  LET d == Consume(c, g)
         IN  /\ SameButData(d, c) /\ d.ooseq = c.ooseq
             /\ Stream(d, b, g.fin, hi) /\ d.rcv = End(g)
<1> DEFINE d == Consume(c, g)
<1>1. g \in SegRec /\ g.seq \in Nat /\ Len(g.data) \in Nat /\ g.fin \in {0, 1}
      /\ g.data \in Seq(Nat) /\ TcpLen(g) = Len(g.data) + g.fin /\ TcpLen(g) \in Nat
      /\ End(g) = g.seq + TcpLen(g) /\ End(g) \in Nat
      /\ \A j \in 1..Len(g.data) : g.data[j] = g.seq + j - 1
  BY SegFacts DEF SegOk, End
<1>2. c.got \in Seq(Nat) /\ c.wnd \in Int /\ c.rcv \in Nat /\ Len(c.got) \in Nat
  BY DEF PcbRec
<1> DEFINE r == c.rcv + TcpLen(g)
           w == c.wnd - TcpLen(g)
           s == c.got \o g.data
<1>3. d = [c EXCEPT !.rcv = r, !.wnd = w, !.got = s]
  BY DEF Consume
<1>4. r \in Nat /\ w \in Int /\ s \in Seq(Nat) /\ Len(s) = Len(c.got) + Len(g.data)
  BY <1>1, <1>2
<1>5. \A k \in 1..Len(s) : s[k] = b + k - 1
  <2>1. SUFFICES ASSUME NEW k \in 1..Len(s) PROVE s[k] = b + k - 1
    OBVIOUS
  <2>2. CASE k <= Len(c.got)
    BY <1>1, <1>2, <1>4, <2>2 DEF Stream
  <2>3. CASE ~(k <= Len(c.got))
    <3> HIDE DEF s
    <3>0. PICK lc \in Nat, lg \in Nat, kk \in Nat : lc = Len(c.got) /\ lg = Len(g.data) /\ kk = k
      BY <1>1, <1>2
    <3>00. 1 <= kk /\ kk <= lc + lg /\ ~(kk <= lc)
      <4>1. Len(s) = lc + lg
        BY <1>4, <3>0
      <4>2. kk \in 1..(lc + lg)
        BY <3>0, <4>1
      <4>3. ~(kk <= lc)
        BY <2>3, <3>0
      <4> QED
        BY ONLY <4>2, <4>3, lc \in Nat, lg \in Nat
    <3>01. kk - lc \in Nat /\ kk - lc \in 1..lg
      BY ONLY <3>00, kk \in Nat, lc \in Nat, lg \in Nat
    <3>1. PICK j \in Nat : j = k - Len(c.got)
      BY <3>0, <3>01
    <3>2. j \in 1..Len(g.data)
      BY <3>0, <3>01, <3>1
    <3>3. s[k] = g.data[j]
      BY <1>1, <1>2, <1>4, <2>3, <3>1 DEF s
    <3>4. g.data[j] = c.rcv + j - 1
      BY <1>1, <3>2
    <3>5. PICK l \in Nat, x \in Nat : l = Len(c.got) /\ x = c.rcv
      BY <1>2
    <3>6. x = b + l
      BY <3>5 DEF Stream
    <3>7. k \in Nat
      OBVIOUS
    <3>8. s[k] = x + j - 1 /\ j = k - l
      BY <3>1, <3>3, <3>4, <3>5
    <3>9. x + j - 1 = b + k - 1
      BY ONLY <3>6, <3>7, <3>8, x \in Nat, l \in Nat, b \in Nat, k \in Nat, j \in Nat
    <3> QED
      BY <3>8, <3>9
  <2> QED
    BY <2>2, <2>3
<1> HIDE DEF r, w, s
<1>6. d \in PcbRec
  BY <1>3, <1>4 DEF PcbRec
<1>7. SameButData(d, c) /\ d.ooseq = c.ooseq /\ d.rcv = r /\ d.wnd = w /\ d.got = s
  BY <1>3, <1>6 DEF SameButData, PcbRec
<1>8. r = End(g) /\ r + w = hi /\ r <= hi /\ r = b + Len(s) + g.fin
  <2>1. PICK x \in Nat, v \in Int, l \in Nat : x = c.rcv /\ v = c.wnd /\ l = Len(c.got)
    BY <1>2
  <2>2. PICK t \in Nat, m \in Nat, f \in {0, 1} : t = TcpLen(g) /\ m = Len(g.data) /\ f = g.fin
    BY <1>1
  <2>3. r = x + t /\ w = v - t /\ x + v = hi /\ x = b + l + 0 /\ t = m + f /\ Len(s) = l + m
        /\ End(g) = x + t /\ x + t <= hi
    BY <1>1, <1>4, <2>1, <2>2 DEF Stream, r, w
  <2>4. r = x + t /\ x + t <= hi
    BY <2>3
  <2>5. (x + t) + (v - t) = hi
    BY ONLY <2>3, x \in Nat, t \in Nat, v \in Int, hi \in Nat
  <2>6. x + t = b + (l + m) + f
    BY ONLY <2>3, x \in Nat, t \in Nat, l \in Nat, m \in Nat, b \in Nat, f \in {0, 1}
  <2> QED
    BY <2>2, <2>3, <2>4, <2>5, <2>6
<1> HIDE DEF d
<1> QED
  BY <1>5, <1>7, <1>8 DEF Stream, d

-----------------------------------------------------------------------------
(* TakeQueued as a recursive function.                                      *)
TakeStep(q, k, t) ==
  IF t.n = k - 1 /\ q[k].seq = t.conn.rcv
  THEN [conn |-> Consume(t.conn, q[k]), n |-> k, fin |-> t.fin \/ q[k].fin = 1]
  ELSE t

(* Before the first queued segment. *)
NothingTaken(c) == [conn |-> c, n |-> 0, fin |-> FALSE]

(* The function of the first n queued segments that TakeQueued defines. *)
IsTaken(f, c, q, n) ==
  f = [k \in 0..n |-> IF k = 0 THEN NothingTaken(c) ELSE TakeStep(q, k, f[k - 1])]

(* There is such a function for every n. *)
LEMMA TakenExists ==
  ASSUME NEW c, NEW q
  PROVE  \A n \in Nat : \E f : IsTaken(f, c, q, n)
<1> DEFINE S == {n \in Nat : \E f : IsTaken(f, c, q, n)}
<1>1. 0 \in S
  <2> DEFINE f == [k \in 0..0 |-> NothingTaken(c)]
  <2>1. \A k \in 0..0 : k = 0
    OBVIOUS
  <2>2. f = [k \in 0..0 |-> IF k = 0 THEN NothingTaken(c) ELSE TakeStep(q, k, f[k - 1])]
    BY <2>1
  <2> HIDE DEF f
  <2>3. IsTaken(f, c, q, 0)
    BY <2>2 DEF IsTaken
  <2> QED
    BY <2>3
<1>2. ASSUME NEW n \in Nat, n \in S PROVE n + 1 \in S
  <2>1. PICK f : IsTaken(f, c, q, n)
    BY <1>2
  <2> DEFINE h == [k \in 0..n + 1 |-> IF k = n + 1 THEN TakeStep(q, n + 1, f[n]) ELSE f[k]]
  <2>2. ASSUME NEW k \in 0..n + 1
        PROVE  h[k] = IF k = 0 THEN NothingTaken(c) ELSE TakeStep(q, k, h[k - 1])
    <3>1. CASE k = n + 1
      <4>1. k # 0 /\ k - 1 = n /\ n \in 0..n + 1 /\ n # n + 1
        BY <3>1
      <4> QED
        BY <3>1, <4>1
    <3>2. CASE k # n + 1
      <4>1. k \in 0..n
        BY <3>2
      <4>2. f[k] = IF k = 0 THEN NothingTaken(c) ELSE TakeStep(q, k, f[k - 1])
        BY <2>1, <4>1 DEF IsTaken
      <4>3. k # 0 => k - 1 \in 0..n + 1 /\ k - 1 # n + 1
        BY <4>1
      <4> QED
        BY <3>2, <4>2, <4>3
    <3> QED
      BY <3>1, <3>2
  <2>3. h = [k \in 0..n + 1 |-> h[k]]
    OBVIOUS
  <2> HIDE DEF h
  <2>4. IsTaken(h, c, q, n + 1)
    BY <2>2, <2>3 DEF IsTaken
  <2> QED
    BY <2>4
<1> HIDE DEF S
<1>3. Nat \subseteq S
  BY <1>1, <1>2, NatInduct
<1> QED
  BY <1>3 DEF S

(* TakeQueued is its value at the end of the queue. *)
LEMMA TakeQueuedIs ==
  ASSUME NEW c, NEW q, Len(q) \in Nat
  PROVE  \E f : IsTaken(f, c, q, Len(q)) /\ TakeQueued(c, q) = f[Len(q)]
<1> DEFINE F == CHOOSE f : f = [k \in 0..Len(q) |->
                              IF k = 0 THEN NothingTaken(c) ELSE TakeStep(q, k, f[k - 1])]
<1>1. \E f : f = [k \in 0..Len(q) |->
                    IF k = 0 THEN NothingTaken(c) ELSE TakeStep(q, k, f[k - 1])]
  <2>1. \E f : IsTaken(f, c, q, Len(q))
    BY TakenExists
  <2> QED
    BY <2>1 DEF IsTaken
<1>2. TakeQueued(c, q) = F[Len(q)]
  BY DEF TakeQueued, TakeStep, NothingTaken
<1>3. F = [k \in 0..Len(q) |-> IF k = 0 THEN NothingTaken(c) ELSE TakeStep(q, k, F[k - 1])]
  BY <1>1, Zenon
<1> HIDE DEF F
<1> QED
  BY <1>2, <1>3 DEF IsTaken

(* A condition as a number, to count with. *)
Flag(x) == IF x THEN 1 ELSE 0

(* After k of the queued segments were looked at. *)
TakenSoFar(t, k, c, q, b, hi) ==
  /\ t.n \in 0..k /\ t.fin \in BOOLEAN
  /\ SameButData(t.conn, c)
  /\ Stream(t.conn, b, Flag(t.fin), hi)
  /\ t.fin => t.n = Len(q)
  /\ \A j \in t.n + 1..Len(q) :
       /\ t.conn.rcv <= q[j].seq
       /\ t.n # k => t.conn.rcv < q[j].seq

(* One more queued segment is looked at. *)
LEMMA TakeStepOk ==
  ASSUME NEW e \in Nat, NEW q, QueueOk(q, e), NEW c, NEW b \in Nat, NEW hi \in Nat,
         \A j \in 1..Len(q) : End(q[j]) <= hi,
         NEW k \in Nat, k + 1 \in 1..Len(q), NEW t, TakenSoFar(t, k, c, q, b, hi)
  PROVE  TakenSoFar(TakeStep(q, k + 1, t), k + 1, c, q, b, hi)
<1>1. /\ t.n \in 0..k /\ t.n \in Nat /\ t.fin \in BOOLEAN /\ t.conn \in PcbRec /\ t.conn.rcv \in Nat
      /\ Len(q) \in Nat /\ (k + 1) - 1 = k
  <2>1. t.n \in 0..k /\ t.fin \in BOOLEAN /\ t.conn \in PcbRec
    BY DEF TakenSoFar, SameButData
  <2>2. t.conn.rcv \in Nat
    BY <2>1 DEF PcbRec
  <2>3. Len(q) \in Nat
    BY DEF QueueOk
  <2> QED
    BY <2>1, <2>2, <2>3
<1>2. \A j \in 1..Len(q) : /\ SegOk(q[j], e) /\ q[j] \in SegRec /\ q[j].seq \in Nat
                           /\ q[j].fin \in {0, 1} /\ DataEnd(q[j]) \in Nat
                           /\ End(q[j]) = DataEnd(q[j]) + q[j].fin
                           /\ q[j].seq <= DataEnd(q[j])
  <2>1. SUFFICES ASSUME NEW h, SegOk(h, e)
                 PROVE  /\ h \in SegRec /\ h.seq \in Nat /\ h.fin \in {0, 1} /\ DataEnd(h) \in Nat
                        /\ End(h) = DataEnd(h) + h.fin /\ h.seq <= DataEnd(h)
    BY DEF QueueOk
  <2>2. h \in SegRec
    BY <2>1 DEF SegOk
  <2> QED
    BY <2>2, SegFacts
<1>3. CASE t.n = k /\ q[k + 1].seq = t.conn.rcv
  <2> DEFINE u == [conn |-> Consume(t.conn, q[k + 1]), n |-> k + 1,
                   fin |-> t.fin \/ q[k + 1].fin = 1]
  <2>1. TakeStep(q, k + 1, t) = u
    BY <1>1, <1>3 DEF TakeStep
  <2>2. t.fin = FALSE
    BY <1>1, <1>3 DEF TakenSoFar
  <2>3. PICK g : g = q[k + 1]
    OBVIOUS
  <2>4. SegOk(g, e) /\ g.seq = t.conn.rcv /\ End(g) <= hi /\ g.fin \in {0, 1}
    BY <1>2, <1>3, <2>3
  <2>5. Stream(t.conn, b, 0, hi)
    BY <2>2 DEF TakenSoFar, Flag
  <2> DEFINE d == Consume(t.conn, g)
  <2>6. SameButData(d, t.conn) /\ Stream(d, b, g.fin, hi) /\ d.rcv = End(g)
    BY <1>1, <2>4, <2>5, ConsumeOk
  <2> HIDE DEF d
  <2>7. u.conn = d /\ u.n = k + 1 /\ u.fin = (g.fin = 1)
    BY <2>2, <2>3 DEF d
  <2> HIDE DEF u
  <2>8. SameButData(u.conn, c)
    BY <2>6, <2>7 DEF SameButData, TakenSoFar
  <2>9. Stream(u.conn, b, Flag(u.fin), hi)
    BY <2>4, <2>6, <2>7 DEF Flag
  <2>10. ASSUME NEW j \in k + 2..Len(q) PROVE g.fin = 0 /\ u.conn.rcv <= q[j].seq
    <3>1. j \in 1..Len(q) /\ k + 1 < j
      BY <1>1
    <3>2. g.fin = 0 /\ DataEnd(g) <= q[j].seq
      BY <2>3, <3>1 DEF QueueOk
    <3>3. End(g) = DataEnd(g)
      BY <1>2, <2>3, <3>2
    <3> QED
      BY <2>6, <2>7, <3>2, <3>3
  <2>11. u.fin => u.n = Len(q)
    <3>1. SUFFICES ASSUME g.fin = 1, k + 1 # Len(q) PROVE FALSE
      BY <2>7
    <3>2. k + 2 \in k + 2..Len(q)
      BY <1>1, <3>1
    <3> QED
      BY <2>10, <3>1, <3>2
  <2>12. u.n \in 0..k + 1 /\ u.n + 1 = k + 2 /\ u.fin \in BOOLEAN
    BY <2>7
  <2> QED
    BY <2>1, <2>7, <2>8, <2>9, <2>10, <2>11, <2>12 DEF TakenSoFar
<1>4. CASE ~(t.n = k /\ q[k + 1].seq = t.conn.rcv)
  <2>1. TakeStep(q, k + 1, t) = t
    BY <1>1, <1>4 DEF TakeStep
  <2>2. t.n \in 0..k + 1 /\ t.n # k + 1
    BY <1>1
  <2>3. ASSUME NEW j \in t.n + 1..Len(q) PROVE t.conn.rcv < q[j].seq
    <3>1. CASE t.n # k
      BY <2>3, <3>1 DEF TakenSoFar
    <3>2. CASE t.n = k
      <4>1. k + 1 \in t.n + 1..Len(q) /\ j \in 1..Len(q)
        BY <1>1, <3>2
      <4>2. t.conn.rcv <= q[k + 1].seq /\ t.conn.rcv # q[k + 1].seq
        BY <1>4, <3>2, <4>1 DEF TakenSoFar
      <4>3. t.conn.rcv < q[k + 1].seq
        BY <1>1, <1>2, <4>2
      <4>4. j = k + 1 \/ DataEnd(q[k + 1]) <= q[j].seq
        <5>1. j = k + 1 \/ k + 1 < j
          BY <1>1, <3>2
        <5> QED
          BY <4>1, <5>1 DEF QueueOk
      <4>5. PICK x \in Nat, y \in Nat, z \in Nat, v \in Nat :
              /\ x = t.conn.rcv /\ y = q[k + 1].seq /\ z = DataEnd(q[k + 1]) /\ v = q[j].seq
        BY <1>1, <1>2, <4>1
      <4>6. y <= z /\ x < y /\ (v = y \/ z <= v)
        BY <1>2, <4>1, <4>3, <4>4, <4>5
      <4>7. x < v
        BY ONLY <4>6, x \in Nat, y \in Nat, z \in Nat, v \in Nat
      <4> QED
        BY <4>5, <4>7
    <3> QED
      BY <3>1, <3>2
  <2>4. \A j \in t.n + 1..Len(q) : t.conn.rcv <= q[j].seq /\ t.conn.rcv < q[j].seq
    BY <2>3 DEF TakenSoFar
  <2> QED
    BY <2>1, <2>2, <2>4 DEF TakenSoFar
<1> QED
  BY <1>3, <1>4

(* And so all of them. *)
LEMMA TakeAllOk ==
  ASSUME NEW e \in Nat, NEW q, QueueOk(q, e), NEW c, c \in PcbRec, NEW b \in Nat, NEW hi \in Nat,
         Stream(c, b, 0, hi), \A k \in 1..Len(q) : c.rcv <= q[k].seq /\ End(q[k]) <= hi
  PROVE  TakenSoFar(TakeQueued(c, q), Len(q), c, q, b, hi)
<1>1. Len(q) \in Nat
  BY DEF QueueOk
<1>2. PICK f : IsTaken(f, c, q, Len(q)) /\ TakeQueued(c, q) = f[Len(q)]
  BY <1>1, TakeQueuedIs
<1> DEFINE S == {k \in Nat : k <= Len(q) => TakenSoFar(f[k], k, c, q, b, hi)}
<1>3. 0 \in S
  <2>1. f[0] = NothingTaken(c)
    BY <1>1, <1>2 DEF IsTaken
  <2>2. PICK t : t = f[0]
    OBVIOUS
  <2>3. t.n = 0 /\ t.fin = FALSE /\ t.conn = c
    BY <2>1, <2>2 DEF NothingTaken
  <2>4. SameButData(c, c)
    BY DEF SameButData
  <2>5. TakenSoFar(t, 0, c, q, b, hi)
    <3>1. Stream(t.conn, b, Flag(t.fin), hi) /\ SameButData(t.conn, c)
      BY <2>3, <2>4 DEF Flag
    <3>2. \A j \in t.n + 1..Len(q) : t.conn.rcv <= q[j].seq /\ (t.n # 0 => t.conn.rcv < q[j].seq)
      BY <2>3
    <3>3. t.fin \in BOOLEAN /\ ~t.fin
      BY <2>3, Zenon
    <3>4. t.n \in 0..0
      BY <2>3
    <3> QED
      BY <3>1, <3>2, <3>3, <3>4 DEF TakenSoFar
  <2> QED
    BY <2>2, <2>5
<1>4. ASSUME NEW k \in Nat, k \in S PROVE k + 1 \in S
  <2>1. SUFFICES ASSUME k + 1 <= Len(q) PROVE TakenSoFar(f[k + 1], k + 1, c, q, b, hi)
    OBVIOUS
  <2>2. k + 1 \in 1..Len(q) /\ k <= Len(q) /\ k + 1 \in 0..Len(q) /\ k + 1 # 0 /\ (k + 1) - 1 = k
    BY <1>1, <2>1
  <2>3. f[k + 1] = TakeStep(q, k + 1, f[k])
    BY <1>2, <2>2 DEF IsTaken
  <2>4. TakenSoFar(f[k], k, c, q, b, hi)
    BY <1>4, <2>2
  <2>5. \A j \in 1..Len(q) : End(q[j]) <= hi
    OBVIOUS
  <2>6. TakenSoFar(TakeStep(q, k + 1, f[k]), k + 1, c, q, b, hi)
    BY <2>2, <2>4, <2>5, TakeStepOk
  <2> QED
    BY <2>3, <2>6
<1> HIDE DEF S
<1>5. Nat \subseteq S
  BY <1>3, <1>4, NatInduct
<1>6. TakenSoFar(f[Len(q)], Len(q), c, q, b, hi)
  <2>1. Len(q) \in S
    BY <1>1, <1>5
  <2>2. Len(q) <= Len(q)
    BY <1>1
  <2> QED
    BY <2>1, <2>2 DEF S
<1> QED
  BY <1>2, <1>6

(* The connection after the queued segments that follow were taken. *)
Taken(d, c, e, b, f, hi, n) ==
  /\ SameButData(d, c)
  /\ Stream(d, b, f, hi)
  /\ QueueOk(d.ooseq, e) /\ Inside(d.ooseq, d.rcv, hi)
  /\ Len(d.ooseq) \in Nat /\ Len(d.ooseq) <= n
  /\ f = 1 => d.ooseq = <<>>

(* The connection with the queued segments that are left over. *)
LEMMA RemainingOk ==
  ASSUME NEW e \in Nat, NEW q, QueueOk(q, e), NEW c, c \in PcbRec, NEW b \in Nat, NEW hi \in Nat,
         NEW f0 \in {0, 1}, Stream(c, b, f0, hi), f0 = 1 => Len(q) = 0,
         \A k \in 1..Len(q) : c.rcv <= q[k].seq /\ End(q[k]) <= hi
  PROVE  LET t == TakeQueued(c, q)
         IN  /\ t.fin \in BOOLEAN
             /\ Taken(Remaining(t, q), c, e, b, Flag(t.fin \/ f0 = 1), hi, Len(q))
<1>0. Len(q) \in Nat /\ q \in Seq(SegRec)
  BY DEF QueueOk
<1> DEFINE t == TakeQueued(c, q)
           f == Flag(t.fin \/ f0 = 1)
           r == SubSeq(q, t.n + 1, Len(q))
           d == [t.conn EXCEPT !.ooseq = r]
<1>1. Remaining(t, q) = d
  BY DEF Remaining
<1>2. /\ t.n \in 0..Len(q) /\ t.fin \in BOOLEAN /\ SameButData(t.conn, c)
      /\ Stream(t.conn, b, f, hi) /\ (f = 1 => t.n = Len(q))
      /\ \A j \in t.n + 1..Len(q) : t.conn.rcv < q[j].seq
  <2>1. CASE f0 = 0
    <3>1. TakenSoFar(t, Len(q), c, q, b, hi)
      BY <2>1, TakeAllOk
    <3> HIDE DEF t
    <3>2. f = Flag(t.fin) /\ (f = 1 => t.fin)
      BY <2>1 DEF Flag
    <3>3. ASSUME NEW j \in t.n + 1..Len(q) PROVE t.n # Len(q)
      BY <1>0
    <3> QED
      BY <3>1, <3>2, <3>3 DEF TakenSoFar
  <2>2. CASE f0 = 1
    <3>1. Len(q) = 0
      BY <2>2
    <3>2. PICK h : IsTaken(h, c, q, 0) /\ t = h[0]
      BY <1>0, <3>1, TakeQueuedIs
    <3>3. t = NothingTaken(c)
      BY <3>2 DEF IsTaken
    <3> HIDE DEF t
    <3>4. t.conn = c /\ t.n = 0 /\ t.fin = FALSE /\ f = 1
      BY <2>2, <3>3 DEF NothingTaken, Flag
    <3>5. SameButData(c, c)
      BY DEF SameButData
    <3>6. Stream(t.conn, b, f, hi)
      BY <2>2, <3>4
    <3>7. \A j \in t.n + 1..Len(q) : FALSE
      BY <3>1, <3>4
    <3>8. t.fin \in BOOLEAN
      BY <3>4, Zenon
    <3>9. SameButData(t.conn, c)
      BY <3>4, <3>5
    <3>10. t.n \in 0..Len(q) /\ t.n = Len(q)
      BY <3>1, <3>4
    <3> HIDE DEF f
    <3> QED
      BY ONLY <3>6, <3>7, <3>8, <3>9, <3>10
  <2> QED
    BY <2>1, <2>2
<1> HIDE DEF t
<1>3. /\ QueueOk(r, e) /\ Len(r) = Len(q) - t.n /\ Len(r) \in Nat
      /\ \A k \in 1..Len(r) : r[k] = q[t.n + k] /\ t.n + k \in 1..Len(q)
  <2>1. PICK n : n = t.n
    OBVIOUS
  <2>2. n \in 0..Len(q)
    BY <1>2, <2>1
  <2>3. PICK z : z = SubSeq(q, n + 1, Len(q))
    OBVIOUS
  <2>4. QueueOk(q, e) /\ e \in Nat
    OBVIOUS
  <2>5. /\ QueueOk(z, e) /\ Len(z) = Len(q) - n /\ Len(z) \in Nat
        /\ \A k \in 1..Len(z) : z[k] = q[n + k] /\ n + k \in 1..Len(q)
    BY ONLY <2>2, <2>3, <2>4, SuffixOk
  <2>6. r = z
    BY <2>1, <2>3
  <2> HIDE DEF r
  <2> QED
    BY ONLY <2>1, <2>5, <2>6
<1>4. r \in Seq(SegRec) /\ Len(r) <= Len(q)
  BY <1>0, <1>2, <1>3 DEF QueueOk
<1>5. f = 1 => r = <<>>
  <2>1. SUFFICES ASSUME f = 1 PROVE r = <<>>
    OBVIOUS
  <2>2. Len(r) = 0
    BY <1>0, <1>2, <1>3, <2>1
  <2> HIDE DEF r
  <2> QED
    BY <1>4, <2>2
<1>6. \A k \in 1..Len(r) : t.conn.rcv < r[k].seq /\ End(r[k]) <= hi
  <2>1. SUFFICES ASSUME NEW k \in 1..Len(r) PROVE t.conn.rcv < r[k].seq /\ End(r[k]) <= hi
    OBVIOUS
  <2>2. r[k] = q[t.n + k] /\ t.n + k \in 1..Len(q)
    BY <1>3
  <2>3. t.n + k \in t.n + 1..Len(q)
    BY <1>0, <1>2, <2>2
  <2> QED
    BY <1>2, <2>2, <2>3
<1> HIDE DEF r, f
<1>7. t.conn \in PcbRec
  BY <1>2 DEF SameButData
<1>8. d \in PcbRec
  BY <1>4, <1>7 DEF PcbRec
<1>9. SameButData(d, t.conn) /\ d.ooseq = r /\ d.rcv = t.conn.rcv /\ d.wnd = t.conn.wnd
      /\ d.got = t.conn.got
  BY <1>7, <1>8 DEF SameButData, PcbRec
<1> HIDE DEF d
<1>10. SameButData(d, c)
  BY <1>2, <1>9 DEF SameButData
<1>11. Stream(d, b, f, hi)
  BY <1>2, <1>9 DEF Stream
<1>12. Inside(d.ooseq, d.rcv, hi)
  BY <1>6, <1>9 DEF Inside
<1>13. Taken(d, c, e, b, f, hi, Len(q))
  BY <1>3, <1>4, <1>5, <1>9, <1>10, <1>11, <1>12 DEF Taken
<1> QED
  BY <1>1, <1>2, <1>13 DEF t, f

(* The next segment and the queued ones behind it. *)
LEMMA InSequenceOk ==
  ASSUME NEW e \in Nat, NEW c, c \in PcbRec, QueueOk(c.ooseq, e), NEW b \in Nat, NEW hi \in Nat,
         Stream(c, b, 0, hi), Inside(c.ooseq, c.rcv, hi),
         NEW g, SegOk(g, e), g.seq = c.rcv, TcpLen(g) > 0, c.rcv < hi
  PROVE  LET r == InSequence(c, g)
         IN  /\ r.fin \in BOOLEAN
             /\ Taken(r.conn, c, e, b, Flag(r.fin), hi, Len(c.ooseq))
<1>0. c.rcv \in Nat /\ c.wnd \in Int /\ hi = c.rcv + c.wnd /\ g.seq <= hi /\ g.seq < hi
  BY DEF PcbRec, Stream
<1>1. PICK fit : fit = FitWindow(c, g)
  OBVIOUS
<1>2. SegOk(fit, e) /\ fit.seq = c.rcv /\ End(fit) <= hi /\ TcpLen(fit) > 0
  BY <1>0, <1>1, FitOk
<1>3. fit \in SegRec /\ fit.fin \in {0, 1} /\ End(fit) \in Nat
  BY <1>2, SegFacts DEF SegOk
<1>4. PICK q : q = c.ooseq
  OBVIOUS
<1>5. QueueOk(q, e) /\ Inside(q, c.rcv, hi) /\ Len(q) \in Nat
  BY <1>4 DEF QueueOk
<1>6. PICK s : s = IF fit.fin = 1 THEN [seg |-> fit, rest |-> <<>>] ELSE Swallow(fit, q)
  OBVIOUS
<1>7. PICK x, y : x = s.seg /\ y = s.rest
  OBVIOUS
<1>8. /\ SegOk(x, e) /\ x.seq = c.rcv /\ TcpLen(x) > 0 /\ End(x) <= hi /\ x.fin \in {0, 1}
      /\ QueueOk(y, e) /\ Len(y) \in Nat /\ Len(y) <= Len(q)
      /\ \A k \in 1..Len(y) : x.fin = 0 /\ DataEnd(x) <= y[k].seq /\ End(y[k]) <= hi
  <2>1. CASE fit.fin = 1
    <3>1. x = fit /\ y = <<>>
      BY <1>6, <1>7, <2>1
    <3>2. QueueOk(<<>>, e) /\ Len(<<>>) = 0
      BY DEF QueueOk
    <3>3. \A k \in 1..0 : FALSE
      OBVIOUS
    <3> QED
      BY <1>2, <1>3, <1>5, <3>1, <3>2, <3>3
  <2>2. CASE fit.fin # 1
    <3>1. fit.fin = 0 /\ s = Swallow(fit, q)
      BY <1>3, <1>6, <2>2
    <3>2. \A k \in 1..Len(q) : \/ fit.seq < q[k].seq
                               \/ k = 1 /\ fit.seq = q[1].seq /\ DataEnd(q[1]) <= DataEnd(fit)
      BY <1>2, <1>5 DEF Inside
    <3>3. /\ SegOk(x, e) /\ x.seq = fit.seq /\ TcpLen(x) > 0
          /\ \/ End(x) <= End(fit)
             \/ \E k \in 1..Len(q) : End(x) = End(q[k])
          /\ \E n \in 0..Len(q) : y = SubSeq(q, n + 1, Len(q))
          /\ \A k \in 1..Len(y) : x.fin = 0 /\ DataEnd(x) <= y[k].seq
      <4>1. e \in Nat /\ SegOk(fit, e) /\ fit.fin = 0 /\ TcpLen(fit) > 0 /\ QueueOk(q, e)
        BY <1>2, <1>5, <3>1
      <4>2. LET u == Swallow(fit, q)
            IN  /\ SegOk(u.seg, e) /\ u.seg.seq = fit.seq /\ TcpLen(u.seg) > 0
                /\ \/ End(u.seg) <= End(fit)
                   \/ \E k \in 1..Len(q) : End(u.seg) = End(q[k])
                /\ \E n \in 0..Len(q) : u.rest = SubSeq(q, n + 1, Len(q))
                /\ \A k \in 1..Len(u.rest) : u.seg.fin = 0 /\ DataEnd(u.seg) <= u.rest[k].seq
        BY ONLY <3>2, <4>1, SwallowOk
      <4> QED
        BY ONLY <1>7, <3>1, <4>2
    <3>4. PICK n \in 0..Len(q) : y = SubSeq(q, n + 1, Len(q))
      BY <3>3
    <3>5. /\ QueueOk(y, e) /\ Len(y) = Len(q) - n /\ Len(y) \in Nat
          /\ \A k \in 1..Len(y) : y[k] = q[n + k] /\ n + k \in 1..Len(q)
      BY <1>5, <3>4, SuffixOk
    <3>6. Len(y) <= Len(q)
      BY <1>5, <3>5
    <3>7. \A k \in 1..Len(y) : End(y[k]) <= hi
      BY <1>5, <3>5 DEF Inside
    <3>8. x \in SegRec /\ x.fin \in {0, 1} /\ End(x) \in Nat
      BY <3>3, SegFacts DEF SegOk
    <3>9. End(x) <= hi
      <4>1. CASE End(x) <= End(fit)
        BY <1>2, <1>3, <3>8, <4>1
      <4>2. CASE \E k \in 1..Len(q) : End(x) = End(q[k])
        BY <1>5, <4>2 DEF Inside
      <4> QED
        BY <3>3, <4>1, <4>2
    <3> QED
      BY <1>2, <3>3, <3>5, <3>6, <3>7, <3>8, <3>9
  <2> QED
    BY <2>1, <2>2
<1>9. PICK d : d = Consume(c, x)
  OBVIOUS
<1>10. SameButData(d, c) /\ Stream(d, b, x.fin, hi) /\ d.rcv = End(x)
  BY <1>8, <1>9, ConsumeOk
<1>11. x.fin = 1 => Len(y) = 0
  <2>1. SUFFICES ASSUME x.fin = 1, Len(y) # 0 PROVE FALSE
    OBVIOUS
  <2>2. 1 \in 1..Len(y)
    BY <1>8, <2>1
  <2> QED
    BY <1>8, <2>1, <2>2
<1>12. \A k \in 1..Len(y) : d.rcv <= y[k].seq /\ End(y[k]) <= hi
  <2>1. x \in SegRec
    BY <1>8 DEF SegOk
  <2>2. x.fin = 0 => End(x) = DataEnd(x)
    BY <2>1, SegFacts
  <2> QED
    BY <1>8, <1>10, <2>2
<1>13. PICK t : t = TakeQueued(d, y)
  OBVIOUS
<1>14. t.fin \in BOOLEAN /\ Taken(Remaining(t, y), d, e, b, Flag(t.fin \/ x.fin = 1), hi, Len(y))
  <2>1. d \in PcbRec
    BY <1>10 DEF SameButData
  <2> QED
    BY <1>8, <1>10, <1>11, <1>12, <1>13, <2>1, RemainingOk
<1>15. PICK r : r = InSequence(c, g)
  OBVIOUS
<1>16. r = [conn |-> Remaining(t, y), fin |-> t.fin \/ x.fin = 1]
  BY <1>1, <1>4, <1>6, <1>7, <1>9, <1>13, <1>15 DEF InSequence
<1>17. PICK z : z = Remaining(t, y)
  OBVIOUS
<1>18. r.conn = z /\ r.fin = (t.fin \/ x.fin = 1) /\ r.fin \in BOOLEAN
  BY <1>14, <1>16, <1>17
<1>19. Taken(z, c, e, b, Flag(r.fin), hi, Len(q))
  <2>1. Taken(z, d, e, b, Flag(r.fin), hi, Len(y))
    BY <1>14, <1>17, <1>18
  <2>2. SameButData(z, c)
    BY <1>10, <2>1 DEF Taken, SameButData
  <2>3. Len(z.ooseq) \in Nat /\ Len(z.ooseq) <= Len(y)
    BY <2>1 DEF Taken
  <2>4. Len(z.ooseq) <= Len(q)
    BY <1>5, <1>8, <2>3
  <2> QED
    BY <2>1, <2>2, <2>4 DEF Taken
<1> QED
  BY <1>4, <1>15, <1>18, <1>19

(* How far n earlier connections of a host had come. *)
PastOk(past, n) == \E S : past \in Seq(S) /\ Len(past) = n /\ \A f \in S : f.nxt \in Nat

(* The hosts. *)
HostOk(c) ==
  /\ c = [st |-> c.st, inc |-> c.inc, nxt |-> c.nxt, irs |-> c.irs, rcv |-> c.rcv,
          past |-> c.past]
  /\ c.inc # 0 => PastOk(c.past, c.inc - 1)
  /\ c.st \in {"CLOSED", "SYN_SENT", "OPEN"}
  /\ c.inc \in 0..Len(Units) /\ c.nxt \in Nat

(* All hosts, and the answers under way. *)
HostsOk ==
  /\ cli = [p \in Peers |-> cli[p]]
  /\ \A p \in Peers : HostOk(cli[p])
  /\ IsFiniteSet(toCli) /\ Cardinality(toCli) <= Wire

(* Data that arrives is of the host's k-th connection and in its window.   *)
ArrivedData(s, k) ==
  /\ SegOk(InSeg(s), FinOf(k))
  /\ k * Gap + 1 <= s.seq
  /\ End(InSeg(s)) <= k * Gap + 1 + Wnd \/ s.seq = k * Gap + 1 + Wnd

(* The smaller of two numbers. *)
LEMMA MinOfTwo ==
  ASSUME NEW a \in Nat, NEW b \in Nat
  PROVE  Min({a, b}) \in Nat /\ Min({a, b}) \in {a, b} /\ Min({a, b}) <= a /\ Min({a, b}) <= b
BY MinIn

(* The numbers of the k-th connection of a host. *)
LEMMA FinOfNat ==
  ASSUME NEW k \in 1..Len(Units)
  PROVE  /\ k \in Nat /\ k * Gap \in Nat /\ Units[k] \in Nat /\ FinOf(k) \in Nat
         /\ FinOf(k) = k * Gap + 1 + Units[k] /\ Gap \in Nat /\ Wnd \in Nat
         /\ Units[k] + 3 <= Gap
<1>1. Gap \in Nat /\ Len(Units) \in Nat /\ Units \in Seq(Nat) /\ Units[k] \in Nat
      /\ Units[k] + 3 <= Gap /\ Wnd \in Nat
  BY HostsAssumption, LwipAssumption
<1>2. k \in Nat
  BY <1>1
<1>3. k * Gap \in Nat
  BY <1>1, <1>2
<1>4. FinOf(k) = k * Gap + 1 + Units[k]
  BY DEF FinOf
<1>5. PICK z \in Nat, u \in Nat : z = k * Gap /\ u = Units[k]
  BY <1>1, <1>3
<1>6. z + 1 + u \in Nat
  OBVIOUS
<1> QED
  BY <1>1, <1>2, <1>3, <1>4, <1>5, <1>6

(* The bytes of a piece of a stream. *)
LEMMA BytesOk ==
  ASSUME NEW x \in Nat, NEW y \in Nat, x <= y
  PROVE  /\ Bytes(x, y) \in Seq(Nat) /\ Len(Bytes(x, y)) = y - x
         /\ \A j \in 1..Len(Bytes(x, y)) : Bytes(x, y)[j] = x + j - 1
<1>1. PICK n \in Nat : n = y - x
  OBVIOUS
<1>2. Bytes(x, y) = [k \in 1..n |-> x + k - 1]
  BY <1>1 DEF Bytes
<1>3. \A k \in 1..n : x + k - 1 \in Nat
  OBVIOUS
<1>4. Bytes(x, y) \in Seq(Nat) /\ Len(Bytes(x, y)) = n
  BY <1>2, <1>3
<1> QED
  BY <1>1, <1>2, <1>4

(* A segment of a host's k-th connection. *)
ArrivesOk(s, p, k) ==
  /\ s.peer = p /\ s.flags \in {"SYN", "RST", "ACK", "FIN|ACK"}
  /\ s.flags = "SYN" => s.seq = k * Gap
  /\ Acks(s) => InSeg(s) \in SegRec /\ (TcpLen(InSeg(s)) = 0 \/ ArrivedData(s, k))

(* A cut of a k-th connection's stream, with or without the FIN. *)
LEMMA PieceOk ==
  ASSUME NEW p \in Peers, NEW k \in 1..Len(Units), NEW x \in Nat, NEW y \in Nat, NEW a,
         NEW f \in {0, 1}, k * Gap + 1 <= x, x <= y, y <= FinOf(k), f = 1 => y = FinOf(k),
         Admitted(k, x, y + f),
         NEW s, s = Seg(p, IF f = 1 THEN "FIN|ACK" ELSE "ACK", x, a, Bytes(x, y))
  PROVE  ArrivesOk(s, p, k)
<1>1. /\ s.peer = p /\ s.flags = (IF f = 1 THEN "FIN|ACK" ELSE "ACK") /\ s.seq = x
      /\ s.data = Bytes(x, y)
  BY DEF Seg
<1>2. InSeg(s) = [seq |-> x, data |-> Bytes(x, y), fin |-> f]
  BY <1>1 DEF InSeg, Fin
<1>3. /\ Bytes(x, y) \in Seq(Nat) /\ Len(Bytes(x, y)) = y - x
      /\ \A j \in 1..Len(Bytes(x, y)) : Bytes(x, y)[j] = x + j - 1
  BY BytesOk
<1>4. InSeg(s) \in SegRec
  BY <1>2, <1>3 DEF SegRec
<1>5. DataEnd(InSeg(s)) = y /\ End(InSeg(s)) = y + f
  BY <1>2, <1>3, <1>4, SegFacts
<1>6. SegOk(InSeg(s), FinOf(k))
  BY <1>2, <1>3, <1>4, <1>5 DEF SegOk
<1>7. y + f <= k * Gap + 1 + Wnd \/ x = k * Gap + 1 + Wnd
  BY LwipAssumption DEF Admitted
<1>8. ArrivedData(s, k)
  BY <1>1, <1>5, <1>6, <1>7 DEF ArrivedData
<1>9. s.flags \in {"ACK", "FIN|ACK"}
  BY <1>1
<1> QED
  BY <1>1, <1>4, <1>8, <1>9 DEF ArrivesOk

(* What a host sent in its k-th connection until it had come as far as c. *)
LEMMA SegmentsOk ==
  ASSUME NEW p \in Peers, NEW k \in 1..Len(Units), NEW c, c.nxt \in Nat,
         NEW s \in SegmentsOf(p, k, c)
  PROVE  ArrivesOk(s, p, k)
<1> DEFINE isn  == k * Gap
           fin  == FinOf(k)
           acks == c.irs + 1 .. c.rcv
           sent == isn + 1 .. Min({c.nxt, fin})
           empty == {Seg(p, "ACK", x, a, <<>>) : x \in isn + 1 .. c.nxt, a \in acks}
           data == UNION {{Seg(p, "ACK", x, a, Bytes(x, y)) :
                             y \in {z \in sent : z > x /\ Admitted(k, x, z)}, a \in acks}
                            : x \in sent}
           last == {Seg(p, "FIN|ACK", x, a, Bytes(x, fin)) :
                      x \in {y \in sent : c.nxt > fin /\ Admitted(k, y, fin + 1)}, a \in acks}
<1>1. SegmentsOf(p, k, c) = {Seg(p, "SYN", isn, 0, <<>>)} \cup empty \cup data \cup last
  BY DEF SegmentsOf
<1>2. k \in Nat /\ isn \in Nat /\ fin \in Nat
  BY FinOfNat
<1>3. \A x \in sent : x \in Nat /\ isn + 1 <= x /\ x <= fin
  <2>1. Min({c.nxt, fin}) \in Nat /\ Min({c.nxt, fin}) <= fin
    BY <1>2, MinOfTwo
  <2> HIDE DEF isn, fin
  <2> QED
    BY <1>2, <2>1
<1>4. \A x \in isn + 1 .. c.nxt : x \in Nat
  <2> HIDE DEF isn
  <2> QED
    BY <1>2
<1> HIDE DEF sent, acks
<1>5. CASE s = Seg(p, "SYN", isn, 0, <<>>)
  <2>1. s.peer = p /\ s.flags = "SYN" /\ s.seq = k * Gap
    BY <1>5 DEF Seg
  <2> QED
    BY <2>1 DEF Acks, ArrivesOk
<1>6. CASE s \in empty
  <2>1. PICK x \in isn + 1 .. c.nxt, a \in acks : s = Seg(p, "ACK", x, a, <<>>)
    BY <1>6
  <2>2. x \in Nat
    BY <1>4, <2>1
  <2>3. s.peer = p /\ s.flags = "ACK" /\ s.seq = x /\ s.data = <<>>
    BY <2>1 DEF Seg
  <2>4. InSeg(s) = [seq |-> x, data |-> <<>>, fin |-> 0]
    BY <2>3 DEF InSeg, Fin
  <2>5. InSeg(s) \in SegRec
    BY <2>2, <2>4 DEF SegRec
  <2>6. TcpLen(InSeg(s)) = 0
    BY <2>4 DEF TcpLen
  <2> QED
    BY <2>3, <2>5, <2>6 DEF ArrivesOk
<1>7. CASE s \in data
  <2>1. PICK x \in sent, y \in sent, a \in acks :
          y > x /\ Admitted(k, x, y) /\ s = Seg(p, "ACK", x, a, Bytes(x, y))
    BY <1>7
  <2>2. x \in Nat /\ y \in Nat /\ k * Gap + 1 <= x /\ x <= y /\ y <= FinOf(k) /\ y + 0 = y
    BY <1>3, <2>1
  <2>3. PICK f \in {0, 1} : f = 0
    OBVIOUS
  <2>4. Admitted(k, x, y + f) /\ s = Seg(p, IF f = 1 THEN "FIN|ACK" ELSE "ACK", x, a, Bytes(x, y))
    BY <2>1, <2>2, <2>3
  <2> QED
    BY <2>2, <2>3, <2>4, PieceOk
<1>8. CASE s \in last
  <2>1. PICK x \in sent, a \in acks :
          Admitted(k, x, fin + 1) /\ s = Seg(p, "FIN|ACK", x, a, Bytes(x, fin))
    BY <1>8
  <2>2. PICK y \in Nat : y = FinOf(k)
    BY <1>2
  <2>3. x \in Nat /\ k * Gap + 1 <= x /\ x <= y /\ y <= FinOf(k)
    BY <1>3, <2>1, <2>2
  <2>4. PICK f \in {0, 1} : f = 1
    OBVIOUS
  <2>5. Admitted(k, x, y + f) /\ s = Seg(p, IF f = 1 THEN "FIN|ACK" ELSE "ACK", x, a, Bytes(x, y))
    BY <2>1, <2>2, <2>4
  <2> QED
    BY <2>2, <2>3, <2>4, <2>5, PieceOk
<1> HIDE DEF empty, data, last
<1> QED
  BY <1>1, <1>5, <1>6, <1>7, <1>8

(* A reset. *)
LEMMA ResetsOk ==
  ASSUME NEW p \in Peers, NEW k \in 1..Len(Units), NEW c, NEW s \in ResetsOf(p, k, c)
  PROVE  ArrivesOk(s, p, k)
<1>1. s.peer = p /\ s.flags = "RST"
  BY DEF ResetsOf, Seg
<1> QED
  BY <1>1 DEF Acks, ArrivesOk

(* A segment that may arrive, of the present connection of its host or of   *)
(* an earlier one: a SYN has the initial number of its connection, data     *)
(* lies in the stream of its connection and in the window the server opened *)
(* for that one.                                                            *)
LEMMA ArrivingOk ==
  ASSUME HostsOk, NEW s \in Arriving
  PROVE  /\ s.peer \in AllHosts /\ s.flags \in {"SYN", "RST", "ACK", "FIN|ACK"}
         /\ s.flags = "SYN" =>
              /\ s.seq \in Nat
              /\ s.peer \in Peers =>
                   \E k \in 1..Len(Units) : k <= cli[s.peer].inc /\ s.seq = k * Gap
         /\ Acks(s) =>
              /\ s.peer \in Peers /\ InSeg(s) \in SegRec
              /\ \E m \in 1..Len(Units) : TcpLen(InSeg(s)) = 0 \/ ArrivedData(s, m)
<1>1. CASE s \in {Seg(q, "SYN", 0, 0, <<>>) : q \in Knockers}
  <2>1. PICK q \in Knockers : s = Seg(q, "SYN", 0, 0, <<>>)
    BY <1>1
  <2>2. s.peer = q /\ s.flags = "SYN" /\ s.seq = 0 /\ q \notin Peers
    BY <2>1, LwipAssumption DEF Seg
  <2> QED
    BY <2>2 DEF AllHosts, Acks
<1>2. ASSUME NEW p \in Peers, cli[p].inc # 0, s \in ArrivingFrom(p)
      PROVE  \E k \in 1..Len(Units) : k <= cli[p].inc /\ ArrivesOk(s, p, k)
  <2> DEFINE c == cli[p]
  <2>1. /\ c.inc \in 1..Len(Units) /\ Len(Units) \in Nat /\ c.nxt \in Nat
        /\ PastOk(c.past, c.inc - 1)
    BY <1>2, HostsAssumption DEF HostsOk, HostOk
  <2>2. ASSUME NEW k \in 1..(c.inc - 1)
        PROVE  k \in 1..Len(Units) /\ k <= c.inc /\ c.past[k].nxt \in Nat
    <3>1. PICK S : c.past \in Seq(S) /\ Len(c.past) = c.inc - 1 /\ \A f \in S : f.nxt \in Nat
      BY <2>1 DEF PastOk
    <3>2. c.past[k] \in S
      BY <3>1
    <3> QED
      BY <2>1, <3>1, <3>2
  <2>3. \/ s \in SegmentsOf(p, c.inc, c)
        \/ s \in ResetsOf(p, c.inc, c)
        \/ \E k \in 1..(c.inc - 1) :
             s \in SegmentsOf(p, k, c.past[k]) \/ s \in ResetsOf(p, k, c.past[k])
    BY <1>2 DEF ArrivingFrom
  <2>4. c.inc <= c.inc
    BY <2>1
  <2> HIDE DEF c
  <2>5. \E k \in 1..Len(Units) : k <= c.inc /\ ArrivesOk(s, p, k)
    BY <2>1, <2>2, <2>3, <2>4, SegmentsOk, ResetsOk
  <2> QED
    BY <2>5 DEF c
<1>3. \/ s \in {Seg(q, "SYN", 0, 0, <<>>) : q \in Knockers}
      \/ \E p \in Peers : cli[p].inc # 0 /\ s \in ArrivingFrom(p)
  BY DEF Arriving
<1>4. CASE \E p \in Peers : cli[p].inc # 0 /\ s \in ArrivingFrom(p)
  <2>1. PICK p \in Peers : cli[p].inc # 0 /\ s \in ArrivingFrom(p)
    BY <1>4
  <2>2. PICK k \in 1..Len(Units) : k <= cli[p].inc /\ ArrivesOk(s, p, k)
    BY <1>2, <2>1
  <2>3. /\ s.peer = p /\ s.flags \in {"SYN", "RST", "ACK", "FIN|ACK"}
        /\ s.flags = "SYN" => s.seq = k * Gap
        /\ Acks(s) => InSeg(s) \in SegRec /\ (TcpLen(InSeg(s)) = 0 \/ ArrivedData(s, k))
    BY <2>2 DEF ArrivesOk
  <2>4. k * Gap \in Nat
    BY FinOfNat
  <2> QED
    BY <2>2, <2>3, <2>4 DEF AllHosts
<1> QED
  BY <1>1, <1>3, <1>4

(* A control block with a retransmission timer that has not run out. *)
RecOk(c) == c \in PcbRec /\ c.rtime \in -1..c.rto - 1

(* A connection whose stream is the one of its host's k-th connection. *)
StreamOk(c, k) ==
  /\ c.base = k * Gap + 1
  /\ Stream(c, c.base, 0, c.base + Wnd)
  /\ QueueOk(c.ooseq, FinOf(k)) /\ Inside(c.ooseq, c.rcv, c.base + Wnd)

(* A control block, when the hosts are as given. *)
ConnOk(c, hosts) ==
  /\ RecOk(c)
  /\ c.arg = (c.st = "ESTABLISHED")
  /\ c.st = "CLOSED" => c = Closed
  /\ c.st # "ESTABLISHED" => c.ooseq = <<>>
  /\ c.st # "CLOSED" =>
       LET f == Flag(c.st = "LAST_ACK") IN Stream(c, c.base, f, c.base + Wnd + f)
  /\ c.peer \notin Peers => c.ooseq = <<>>
  /\ c.st # "CLOSED" /\ c.peer \in Peers =>
       \E k \in 1..Len(Units) :
         /\ k <= hosts[c.peer].inc /\ c.base = k * Gap + 1
         /\ QueueOk(c.ooseq, FinOf(k)) /\ Inside(c.ooseq, c.rcv, c.base + Wnd)

(* What the two parts of tcp_receive leave alone. *)
SameStream(d, c) ==
  /\ d.st = c.st /\ d.peer = c.peer /\ d.rcv = c.rcv /\ d.wnd = c.wnd
  /\ d.ooseq = c.ooseq /\ d.arg = c.arg /\ d.got = c.got /\ d.base = c.base

(* What the data of a segment leaves alone. *)
SameTimers(d, c) ==
  /\ d.st = c.st /\ d.peer = c.peer /\ d.rtime = c.rtime /\ d.rto = c.rto /\ d.arg = c.arg
  /\ d.base = c.base /\ d \in PcbRec

(* The empty queue. *)
LEMMA NothingOk == QueueOk(<<>>, 0) /\ (\A e : QueueOk(<<>>, e)) /\ (\A x, y : Inside(<<>>, x, y))
BY DEF QueueOk, Inside

(* A block that is not allocated. *)
LEMMA ClosedOk == \A hosts : ConnOk(Closed, hosts)
<1>1. PICK p : p = CHOOSE q \in AllHosts : TRUE
  OBVIOUS
<1>2. p \in AllHosts
  BY <1>1, HostsAssumption DEF AllHosts
<1>3. /\ Closed = [st |-> "CLOSED", peer |-> p, rcv |-> 0,
           wnd |-> Wnd, snd |-> 0, idle |-> 0, rtime |-> -1, rto |-> RTO, est |-> RTO,
           nrtx |-> 0, dup |-> 0, infr |-> FALSE, delay |-> FALSE, ooseq |-> <<>>,
           arg |-> FALSE, got |-> <<>>, base |-> 0]
  BY <1>1 DEF Closed
<1>4. /\ Wnd \in Int /\ 0 \in 0..IdleMax /\ RTO \in Nat \ {0} /\ 0 \in 0..MaxRtx
      /\ -1 \in -1..RTO - 1 /\ -1 \in Int /\ 0 \in Nat
  BY LwipAssumption
<1>5. <<>> \in Seq(SegRec) /\ <<>> \in Seq(Nat) /\ "CLOSED" \in States
  BY DEF States
<1>6. Closed \in PcbRec
  BY <1>2, <1>3, <1>4, <1>5 DEF PcbRec
<1>7. /\ Closed.st = "CLOSED" /\ Closed.arg = FALSE /\ Closed.ooseq = <<>> /\ Closed.rtime = -1
      /\ Closed.rto = RTO
  BY <1>3
<1> QED
  BY <1>4, <1>6, <1>7 DEF ConnOk, RecOk

(* A step that leaves the stream alone. *)
LEMMA SameOk ==
  ASSUME NEW c, NEW d, NEW hosts, ConnOk(c, hosts), c.st # "CLOSED", RecOk(d), SameStream(d, c)
  PROVE  ConnOk(d, hosts)
<1>1. d.st # "CLOSED"
  BY DEF SameStream
<1>2. \A b, f, hi : Stream(c, b, f, hi) => Stream(d, b, f, hi)
  BY DEF SameStream, Stream
<1>3. \A lo, hi : Inside(c.ooseq, c.rcv, hi) => Inside(d.ooseq, d.rcv, hi)
  BY DEF SameStream
<1> QED
  BY <1>1, <1>2, <1>3 DEF ConnOk, SameStream

(* The acknowledgement leaves the stream alone. *)
LEMMA RexmitOk ==
  ASSUME NEW c, RecOk(c)
  PROVE  /\ RecOk(Rexmit(c)) /\ SameStream(Rexmit(c), c) /\ Rexmit(c).rto = c.rto
         /\ Rexmit(c).est = c.est /\ Rexmit(c).nrtx \in 0..MaxRtx
<1> DEFINE m == Min({c.nrtx + 1, MaxRtx})
<1>1. m \in 0..MaxRtx
  <2>1. MaxRtx \in Nat /\ c.nrtx + 1 \in Nat
    BY LwipAssumption DEF RecOk, PcbRec
  <2> QED
    BY <2>1, MinOfTwo
<1> HIDE DEF m
<1>2. Rexmit(c) = [c EXCEPT !.nrtx = m]
  BY DEF Rexmit, m
<1>3. [c EXCEPT !.nrtx = m] \in PcbRec
  BY <1>1 DEF RecOk, PcbRec
<1> QED
  BY <1>1, <1>2, <1>3 DEF RecOk, SameStream, PcbRec

(* The fields that a duplicate, an acknowledgement or a timer may set. *)
LEMMA SetOk ==
  ASSUME NEW c, RecOk(c)
  PROVE  /\ \A b \in BOOLEAN : /\ RecOk([c EXCEPT !.delay = b])
                               /\ SameStream([c EXCEPT !.delay = b], c)
         /\ \A n \in Nat : /\ RecOk([c EXCEPT !.dup = n]) /\ SameStream([c EXCEPT !.dup = n], c)
         /\ \A n \in 0..IdleMax : /\ RecOk([c EXCEPT !.idle = n])
                                  /\ SameStream([c EXCEPT !.idle = n], c)
         /\ \A n \in Nat : /\ RecOk([c EXCEPT !.dup = n, !.infr = TRUE, !.rtime = 0])
                           /\ SameStream([c EXCEPT !.dup = n, !.infr = TRUE, !.rtime = 0], c)
         /\ \A a \in Nat, t \in Nat \ {0} :
              LET d == [c EXCEPT !.snd = a, !.nrtx = 0, !.dup = 0, !.infr = FALSE,
                                 !.rtime = -1, !.est = t, !.rto = t]
              IN RecOk(d) /\ SameStream(d, c)
<1>1. c \in PcbRec /\ c.rtime \in -1..c.rto - 1 /\ c.rto \in Nat \ {0}
  BY DEF RecOk, PcbRec
<1>2. ASSUME NEW b \in BOOLEAN
      PROVE  RecOk([c EXCEPT !.delay = b]) /\ SameStream([c EXCEPT !.delay = b], c)
  <2>1. [c EXCEPT !.delay = b] \in PcbRec
    BY <1>1 DEF PcbRec
  <2> QED
    BY <1>1, <2>1 DEF RecOk, SameStream, PcbRec
<1>3. ASSUME NEW n \in Nat
      PROVE  RecOk([c EXCEPT !.dup = n]) /\ SameStream([c EXCEPT !.dup = n], c)
  <2>1. [c EXCEPT !.dup = n] \in PcbRec
    BY <1>1 DEF PcbRec
  <2> QED
    BY <1>1, <2>1 DEF RecOk, SameStream, PcbRec
<1>4. ASSUME NEW n \in 0..IdleMax
      PROVE  RecOk([c EXCEPT !.idle = n]) /\ SameStream([c EXCEPT !.idle = n], c)
  <2>1. [c EXCEPT !.idle = n] \in PcbRec
    BY <1>1 DEF PcbRec
  <2> QED
    BY <1>1, <2>1 DEF RecOk, SameStream, PcbRec
<1>5. ASSUME NEW n \in Nat
      PROVE  /\ RecOk([c EXCEPT !.dup = n, !.infr = TRUE, !.rtime = 0])
             /\ SameStream([c EXCEPT !.dup = n, !.infr = TRUE, !.rtime = 0], c)
  <2> DEFINE d == [c EXCEPT !.dup = n, !.infr = TRUE, !.rtime = 0]
  <2>1. d \in PcbRec
    <3>1. PICK x : x = [c EXCEPT !.dup = n]
      OBVIOUS
    <3>2. x \in PcbRec
      BY <1>1, <3>1 DEF PcbRec
    <3>3. [x EXCEPT !.infr = TRUE, !.rtime = 0] \in PcbRec
      <4>1. PICK y : y = [x EXCEPT !.infr = TRUE]
        OBVIOUS
      <4>2. y \in PcbRec
        BY ONLY <3>2, <4>1 DEF PcbRec
      <4>3. [y EXCEPT !.rtime = 0] \in PcbRec
        <5>1. \A t \in Int : [y EXCEPT !.rtime = t] \in PcbRec
          BY ONLY <4>2 DEF PcbRec
        <5> QED
          BY <5>1
      <4>4. [x EXCEPT !.infr = TRUE, !.rtime = 0] = [y EXCEPT !.rtime = 0]
        BY <4>1
      <4> QED
        BY <4>3, <4>4
    <3>4. d = [x EXCEPT !.infr = TRUE, !.rtime = 0]
      BY <3>1
    <3> QED
      BY <3>3, <3>4
  <2>2. d.rtime = 0 /\ d.rto = c.rto /\ SameStream(d, c)
    BY <1>1 DEF SameStream, PcbRec
  <2> HIDE DEF d
  <2>3. d.rtime \in -1..d.rto - 1
    BY <1>1, <2>2
  <2> QED
    BY <2>1, <2>2, <2>3 DEF RecOk, d
<1>6. ASSUME NEW a \in Nat, NEW t \in Nat \ {0}
      PROVE  LET d == [c EXCEPT !.snd = a, !.nrtx = 0, !.dup = 0, !.infr = FALSE,
                                !.rtime = -1, !.est = t, !.rto = t]
             IN RecOk(d) /\ SameStream(d, c)
  <2> DEFINE d == [c EXCEPT !.snd = a, !.nrtx = 0, !.dup = 0, !.infr = FALSE,
                            !.rtime = -1, !.est = t, !.rto = t]
  <2>0. 0 \in 0..MaxRtx /\ -1 \in Int
    BY LwipAssumption
  <2>1. d \in PcbRec
    BY <1>1, <2>0 DEF PcbRec
  <2>2. d.rtime = -1 /\ d.rto = t /\ SameStream(d, c)
    BY <1>1 DEF SameStream, PcbRec
  <2> HIDE DEF d
  <2>3. d.rtime \in -1..d.rto - 1
    BY <2>2
  <2> QED
    BY <2>1, <2>2, <2>3 DEF RecOk, d
<1> QED
  BY <1>2, <1>3, <1>4, <1>5, <1>6

(* The acknowledgement of a segment, new, a duplicate or beyond what was    *)
(* sent, leaves the stream alone.                                           *)
LEMMA AckPartOk ==
  ASSUME NEW c, RecOk(c), NEW s, NEW est \in Rtos
  PROVE  LET a == AckPart(c, s, est)
         IN  RecOk(a.conn) /\ SameStream(a.conn, c) /\ IsFiniteSet(a.out)
<1>1. c \in PcbRec /\ c.snd \in Nat /\ c.dup \in Nat
  BY DEF RecOk, PcbRec
<1> DEFINE dups == c.dup + 1
           fast == dups >= DupAcks /\ ~c.infr
           n == Min({dups, DupAcks})
           m == Min({c.nrtx + 1, MaxRtx})
           ok(d) == RecOk(d) /\ SameStream(d, c)
<1>2. n \in Nat
  BY <1>1, LwipAssumption, MinOfTwo
<1> HIDE DEF n
<1>3. est \in Nat \ {0}
  BY LwipAssumption
<1>4. \A x : IsFiniteSet({x}) /\ IsFiniteSet({})
  BY FS_Singleton, FS_EmptySet
<1>5. \A d, o : Out(d, o).conn = d /\ Out(d, o).out = o
  BY DEF Out
<1>6. CASE s.ack \in c.snd + 1 .. SndNxt(c)
  <2> DEFINE d == [c EXCEPT !.snd = s.ack, !.nrtx = 0, !.dup = 0, !.infr = FALSE,
                            !.rtime = -1, !.est = est, !.rto = est]
  <2>1. SndNxt(c) = c.snd \/ SndNxt(c) = c.snd + 1
    BY <1>1 DEF SndNxt, Outstanding
  <2>2. s.ack \in Nat
    BY <1>1, <1>6, <2>1
  <2>3. ok(d)
    BY <1>3, <2>2, SetOk
  <2>4. AckPart(c, s, est) = Out(d, {})
    <3>1. ~(s.ack > SndNxt(c)) /\ s.ack # c.snd
      BY <1>1, <1>6, <2>1, <2>2
    <3> HIDE DEF fast, dups
    <3> QED
      BY <1>6, <3>1 DEF AckPart
  <2> HIDE DEF d
  <2> QED
    BY <1>4, <1>5, <2>3, <2>4
<1>7. CASE ~(s.ack \in c.snd + 1 .. SndNxt(c)) /\ s.ack > SndNxt(c)
  <2>1. AckPart(c, s, est) = Out(NotDelayed(c), {EmptyAck(c)})
    <3>1. s.ack # c.snd
      <4>1. ~(c.snd > SndNxt(c))
        BY <1>1 DEF SndNxt, Outstanding
      <4> QED
        BY <1>7, <4>1
    <3> QED
      BY <1>7, <3>1 DEF AckPart
  <2>2. ok(NotDelayed(c))
    BY SetOk DEF NotDelayed
  <2>3. IsFiniteSet({EmptyAck(c)})
    BY <1>4
  <2>4. PICK a : a = AckPart(c, s, est)
    OBVIOUS
  <2>5. a.conn = NotDelayed(c) /\ a.out = {EmptyAck(c)}
    BY <1>5, <2>1, <2>4
  <2> QED
    BY <2>2, <2>3, <2>4, <2>5
<1>8. CASE /\ ~(s.ack \in c.snd + 1 .. SndNxt(c)) /\ ~(s.ack > SndNxt(c))
           /\ s.ack = c.snd /\ TcpLen(InSeg(s)) = 0 /\ c.rtime >= 0
  <2>1. CASE fast
    <3> DEFINE d == [Rexmit(c) EXCEPT !.dup = n, !.infr = TRUE, !.rtime = 0]
    <3>1. AckPart(c, s, est) = Out(d, {Flagged(c)})
      BY <1>8, <2>1 DEF AckPart, n
    <3>2. RecOk(d) /\ SameStream(d, Rexmit(c)) /\ SameStream(Rexmit(c), c)
      BY <1>2, RexmitOk, SetOk
    <3> HIDE DEF d
    <3>3. ok(d)
      BY <3>2 DEF SameStream
    <3>4. IsFiniteSet({Flagged(c)})
      BY <1>4
    <3>5. PICK a : a = AckPart(c, s, est)
      OBVIOUS
    <3>6. a.conn = d /\ a.out = {Flagged(c)}
      BY <1>5, <3>1, <3>5
    <3> QED
      BY <3>3, <3>4, <3>5, <3>6
  <2>2. CASE ~fast
    <3> DEFINE d == [c EXCEPT !.dup = n]
    <3>1. AckPart(c, s, est) = Out(d, {})
      BY <1>8, <2>2 DEF AckPart, n
    <3>2. ok(d)
      BY <1>2, SetOk
    <3> HIDE DEF d
    <3> QED
      BY <1>4, <1>5, <3>1, <3>2
  <2> QED
    BY <2>1, <2>2
<1>9. CASE /\ ~(s.ack \in c.snd + 1 .. SndNxt(c)) /\ ~(s.ack > SndNxt(c))
           /\ ~(s.ack = c.snd /\ TcpLen(InSeg(s)) = 0 /\ c.rtime >= 0)
  <2> DEFINE d == [c EXCEPT !.dup = 0]
  <2>1. AckPart(c, s, est) = Out(d, {})
    BY <1>9 DEF AckPart
  <2>2. ok(d)
    BY SetOk
  <2> HIDE DEF d
  <2> QED
    BY <1>4, <1>5, <2>1, <2>2
<1> QED
  BY <1>6, <1>7, <1>8, <1>9

(* A connection after the data of a segment; n were in its queue. *)
DataTaken(d, c, e, f, n) ==
  /\ SameTimers(d, c)
  /\ Stream(d, c.base, f, c.base + Wnd)
  /\ QueueOk(d.ooseq, e) /\ Inside(d.ooseq, d.rcv, c.base + Wnd)
  /\ Len(d.ooseq) \in Nat /\ Len(d.ooseq) <= n
  /\ f = 1 => d.ooseq = <<>>

(* Connections of a host that differ have numbers apart. *)
LEMMA Apart ==
  ASSUME NEW a \in 1..Len(Units), NEW b \in 1..Len(Units), a < b
  PROVE  a * Gap + Gap <= b * Gap
<1>1. a \in Nat /\ b \in Nat /\ Gap \in Nat
  BY FinOfNat
<1>2. PICK j \in Nat : b = a + 1 + j
  <2>1. b - (a + 1) \in Nat /\ b = a + 1 + (b - (a + 1))
    BY <1>1
  <2> QED
    BY <2>1
<1>3. (a + 1 + j) * Gap = a * Gap + Gap + j * Gap
  BY ONLY <1>1, j \in Nat
<1>4. j * Gap \in Nat /\ a * Gap \in Nat
  BY ONLY <1>1, j \in Nat
<1>5. PICK x \in Nat, y \in Nat : x = a * Gap /\ y = j * Gap
  BY <1>4
<1>6. b * Gap = x + Gap + y
  BY <1>2, <1>3, <1>5
<1>7. x + Gap <= x + Gap + y
  BY <1>1
<1> QED
  BY <1>5, <1>6, <1>7

(* The data of a segment, cut at the front and at the window, moves the     *)
(* stream on or goes to the queue; what an earlier or a later connection of *)
(* the host sent is not taken.                                              *)
LEMMA DataPartOk ==
  ASSUME NEW c, RecOk(c), c.st # "LAST_ACK", NEW k \in 1..Len(Units), StreamOk(c, k),
         NEW s, InSeg(s) \in SegRec, NEW m \in 1..Len(Units),
         TcpLen(InSeg(s)) = 0 \/ ArrivedData(s, m)
  PROVE  LET d == DataPart(c, s)
         IN  d.fin \in BOOLEAN
             /\ DataTaken(d.conn, c, FinOf(k), Flag(d.fin), Len(c.ooseq) + 1)
<1>0. /\ c \in PcbRec /\ c.rcv \in Nat /\ c.wnd \in Int /\ c.base \in Nat /\ c.delay \in BOOLEAN
      /\ Len(c.ooseq) \in Nat /\ Wnd \in Nat
  BY LwipAssumption DEF RecOk, PcbRec
<1>1. PICK e \in Nat : e = FinOf(k)
  BY FinOfNat
<1>2. PICK hi \in Nat : hi = c.base + Wnd
  BY <1>0
<1>3. /\ QueueOk(c.ooseq, e) /\ Inside(c.ooseq, c.rcv, hi) /\ Stream(c, c.base, 0, hi)
      /\ hi = c.rcv + c.wnd /\ c.rcv <= hi
  BY <1>1, <1>2 DEF StreamOk, Stream
<1>4. PICK i : i = InSeg(s)
  OBVIOUS
<1>5. i \in SegRec /\ i.seq \in Nat /\ TcpLen(i) \in Nat /\ End(i) \in Nat /\ End(i) = i.seq + TcpLen(i)
      /\ i.seq = s.seq
  BY <1>4, SegFacts DEF End, InSeg
<1>6. PICK g : g = FrontTrimmed(c, i)
  OBVIOUS
<1>7. PICK d : d = DataPart(c, s)
  OBVIOUS
<1> DEFINE new == TcpLen(g) > 0 /\ c.st # "LAST_ACK"
           Unchanged == d.conn = c /\ d.fin = FALSE
<1>8. ASSUME Unchanged
      PROVE  d.fin \in BOOLEAN /\ DataTaken(d.conn, c, e, Flag(d.fin), Len(c.ooseq) + 1)
  <2>1. SameTimers(c, c)
    BY <1>0 DEF SameTimers
  <2>2. Len(c.ooseq) <= Len(c.ooseq) + 1
    BY <1>0
  <2>3. Flag(d.fin) = 0
    BY <1>8 DEF Flag
  <2>4. DataTaken(c, c, e, 0, Len(c.ooseq) + 1)
    BY <1>0, <1>2, <1>3, <2>1, <2>2 DEF DataTaken
  <2>5. d.fin \in BOOLEAN
    BY <1>8, Zenon
  <2> QED
    BY <1>8, <2>3, <2>4, <2>5
<1>9. CASE TcpLen(i) = 0
  <2>1. g = i
    BY <1>0, <1>5, <1>6, <1>9 DEF FrontTrimmed
  <2>2. ~new
    BY <1>9, <2>1
  <2>3. Unchanged
    BY <1>4, <1>6, <1>7, <2>2 DEF DataPart
  <2> QED
    BY <1>1, <1>7, <1>8, <2>3
<1>10. CASE TcpLen(i) # 0
  <2>1. ArrivedData(s, m) /\ TcpLen(i) > 0
    BY <1>4, <1>5, <1>10
  <2>2. PICK em \in Nat, zm \in Nat, zk \in Nat : em = FinOf(m) /\ zm = m * Gap /\ zk = k * Gap
    BY FinOfNat
  <2>3. SegOk(i, em) /\ zm + 1 <= i.seq /\ (End(i) <= zm + 1 + Wnd \/ i.seq = zm + 1 + Wnd)
    BY <1>4, <1>5, <2>1, <2>2 DEF ArrivedData
  <2>4. c.base = zk + 1 /\ hi = zk + 1 + Wnd
    BY <1>2, <2>2 DEF StreamOk
  <2>5. k = m \/ hi <= i.seq \/ End(i) <= c.base
    <3>1. Gap \in Nat /\ Wnd <= Gap /\ k \in Nat /\ m \in Nat
      BY FinOfNat, LwipAssumption
    <3>2. CASE k < m
      <4>1. zk + Gap <= zm
        BY <2>2, <3>2, Apart
      <4>2. zk + 1 + Wnd <= zm + 1
        BY ONLY <1>0, <3>1, <4>1, zk \in Nat, zm \in Nat
      <4> QED
        BY <1>0, <1>5, <2>3, <2>4, <4>2
    <3>3. CASE m < k
      <4>1. zm + Gap <= zk
        BY <2>2, <3>3, Apart
      <4>2. PICK u \in Nat : em = zm + 1 + u /\ u + 3 <= Gap
        BY <2>2, FinOfNat
      <4>3. DataEnd(i) <= em /\ DataEnd(i) \in Nat /\ End(i) <= DataEnd(i) + 1
        BY <1>5, <2>3, SegFacts DEF SegOk, SegRec
      <4>4. DataEnd(i) + 1 <= zk + 1
        BY ONLY <3>1, <4>1, <4>2, <4>3, em \in Nat, zk \in Nat, zm \in Nat
      <4> QED
        BY <1>5, <2>4, <4>3, <4>4
    <3> QED
      BY <3>1, <3>2, <3>3
  <2>8. CASE End(i) <= c.base
    <3>1. c.base <= c.rcv
      <4>1. Len(c.got) \in Nat
        BY <1>0 DEF PcbRec
      <4> QED
        BY <1>0, <1>3, <4>1 DEF Stream
    <3>2. g = i /\ i.seq < c.rcv
      <4>1. PICK x \in Nat, y \in Nat, z \in Nat : x = c.rcv /\ y = i.seq /\ z = TcpLen(i)
        BY <1>0, <1>5
      <4>2. y + z <= x /\ z > 0
        BY <1>0, <1>5, <2>1, <2>8, <3>1, <4>1
      <4>3. ~(x \in y + 1 .. y + z - 1) /\ y < x
        BY ONLY <4>2, x \in Nat, y \in Nat, z \in Nat
      <4> QED
        BY <1>6, <4>1, <4>3 DEF FrontTrimmed
    <3>3. ~InWindow(c, g.seq)
      BY <1>0, <1>5, <3>2 DEF InWindow
    <3>4. Unchanged
      BY <1>4, <1>6, <1>7, <3>3 DEF DataPart
    <3> QED
      BY <1>1, <1>7, <1>8, <3>4
  <2>6. CASE hi <= i.seq
    <3>1. g = i
      <4>1. PICK x \in Nat, y \in Nat, z \in Nat : x = c.rcv /\ y = i.seq /\ z = TcpLen(i)
        BY <1>0, <1>5
      <4>2. x <= hi /\ hi <= y
        BY <1>3, <2>6, <4>1
      <4>3. ~(x \in y + 1 .. y + z - 1)
        BY ONLY <4>2, x \in Nat, y \in Nat, z \in Nat, hi \in Nat
      <4> QED
        BY <1>6, <4>1, <4>3 DEF FrontTrimmed
    <3>2. ~InWindow(c, g.seq)
      BY <1>0, <1>3, <1>5, <2>6, <3>1 DEF InWindow
    <3>3. Unchanged
      BY <1>4, <1>6, <1>7, <3>2 DEF DataPart
    <3> QED
      BY <1>1, <1>7, <1>8, <3>3
  <2>7. CASE k = m /\ ~(hi <= i.seq)
    <3>1. em = e /\ zm = zk
      BY <1>1, <2>2, <2>7
    <3>2. SegOk(i, e) /\ End(i) <= hi
      <4>1. i.seq # zm + 1 + Wnd
        BY <1>0, <2>4, <2>7, <3>1
      <4> QED
        BY <2>3, <2>4, <3>1, <4>1
    <3>3. SegOk(g, e) /\ End(g) = End(i) /\ g \in SegRec
      BY <1>0, <1>6, <3>2, FrontOk DEF SegOk
    <3>4. g.seq \in Nat /\ TcpLen(g) \in Nat /\ End(g) \in Nat /\ End(g) <= hi
      BY <1>5, <3>2, <3>3, SegFacts
    <3>5. CASE ~new
      <4>1. Unchanged
        BY <1>4, <1>6, <1>7, <3>5 DEF DataPart
      <4> QED
        BY <1>1, <1>7, <1>8, <4>1
    <3>6. CASE new /\ ~InWindow(c, g.seq)
      <4>1. Unchanged
        BY <1>4, <1>6, <1>7, <3>6 DEF DataPart
      <4> QED
        BY <1>1, <1>7, <1>8, <4>1
    <3>7. CASE new /\ InWindow(c, g.seq) /\ g.seq = c.rcv
      <4>1. PICK r : r = InSequence(c, g)
        OBVIOUS
      <4>2. d.conn = [r.conn EXCEPT !.delay = ~@] /\ d.fin = r.fin
        BY <1>4, <1>6, <1>7, <3>7, <4>1 DEF DataPart
      <4>3. c.rcv < hi /\ TcpLen(g) > 0
        BY <1>0, <1>3, <3>7 DEF InWindow
      <4>4. r.fin \in BOOLEAN /\ Taken(r.conn, c, e, c.base, Flag(r.fin), hi, Len(c.ooseq))
        BY <1>0, <1>3, <3>3, <3>7, <4>1, <4>3, InSequenceOk
      <4>5. PICK x : x = r.conn
        OBVIOUS
      <4>6. SameButData(x, c) /\ x \in PcbRec /\ x.delay \in BOOLEAN
        BY <4>4, <4>5 DEF Taken, SameButData, PcbRec
      <4>7. PICK y : y = [x EXCEPT !.delay = ~@]
        OBVIOUS
      <4>8. y \in PcbRec
        BY <4>6, <4>7 DEF PcbRec
      <4>9. /\ y.st = x.st /\ y.peer = x.peer /\ y.rtime = x.rtime /\ y.rto = x.rto
            /\ y.arg = x.arg /\ y.base = x.base /\ y.got = x.got /\ y.rcv = x.rcv /\ y.wnd = x.wnd
            /\ y.ooseq = x.ooseq
        BY <4>6, <4>7 DEF PcbRec
      <4>10. SameTimers(y, c)
        BY <4>6, <4>8, <4>9 DEF SameTimers, SameButData
      <4>11. Taken(x, c, e, c.base, Flag(r.fin), hi, Len(c.ooseq))
        BY <4>4, <4>5
      <4>12. Stream(y, c.base, Flag(r.fin), hi)
        BY <4>9, <4>11 DEF Taken, Stream
      <4>13. /\ QueueOk(y.ooseq, e) /\ Inside(y.ooseq, y.rcv, hi) /\ Len(y.ooseq) \in Nat
             /\ Len(y.ooseq) <= Len(c.ooseq) /\ (Flag(r.fin) = 1 => y.ooseq = <<>>)
        BY <4>9, <4>11 DEF Taken
      <4>14. Len(y.ooseq) <= Len(c.ooseq) + 1
        BY <1>0, <4>13
      <4>15. DataTaken(y, c, e, Flag(r.fin), Len(c.ooseq) + 1)
        BY <1>2, <4>10, <4>12, <4>13, <4>14 DEF DataTaken
      <4>16. d.conn = y
        BY <4>2, <4>5, <4>7
      <4> QED
        BY <1>1, <1>7, <4>2, <4>4, <4>15, <4>16
    <3>8. CASE new /\ InWindow(c, g.seq) /\ g.seq # c.rcv
      <4>1. PICK r : r = Queued(c, g)
        OBVIOUS
      <4>2. d.conn = [c EXCEPT !.ooseq = r] /\ d.fin = FALSE
        BY <1>4, <1>6, <1>7, <3>8, <4>1 DEF DataPart
      <4>3. c.rcv < g.seq /\ TcpLen(g) > 0
        BY <1>0, <1>3, <3>4, <3>8 DEF InWindow
      <4>4. /\ QueueOk(r, e) /\ Inside(r, c.rcv, hi)
            /\ Len(r) \in Nat /\ Len(r) <= Len(c.ooseq) + 1
        BY <1>0, <1>3, <3>3, <3>4, <4>1, <4>3, QueuedOk
      <4>5. PICK y : y = [c EXCEPT !.ooseq = r]
        OBVIOUS
      <4>6. r \in Seq(SegRec)
        BY <4>4 DEF QueueOk
      <4>7. y \in PcbRec
        BY <1>0, <4>5, <4>6 DEF PcbRec
      <4>8. /\ y.st = c.st /\ y.peer = c.peer /\ y.rtime = c.rtime /\ y.rto = c.rto
            /\ y.arg = c.arg /\ y.base = c.base /\ y.got = c.got /\ y.rcv = c.rcv /\ y.wnd = c.wnd
            /\ y.ooseq = r
        BY <1>0, <4>5 DEF PcbRec
      <4>9. SameTimers(y, c) /\ Stream(y, c.base, 0, hi)
        BY <1>3, <4>7, <4>8 DEF SameTimers, Stream
      <4>10. DataTaken(y, c, e, 0, Len(c.ooseq) + 1)
        BY <1>2, <4>4, <4>8, <4>9 DEF DataTaken
      <4>11. Flag(d.fin) = 0 /\ d.fin \in BOOLEAN
        <5>1. d.fin \in BOOLEAN
          BY <4>2, Zenon
        <5> QED
          BY <4>2, <5>1 DEF Flag
      <4>12. d.conn = y
        BY <4>2, <4>5
      <4> QED
        BY <1>1, <1>7, <4>10, <4>11, <4>12
    <3> QED
      BY <3>5, <3>6, <3>7, <3>8
  <2> QED
    BY <2>5, <2>6, <2>7, <2>8
<1> QED
  BY <1>9, <1>10

(* The two parts of the result of a step. *)
LEMMA OutIs == \A d, o : Out(d, o).conn = d /\ Out(d, o).out = o
BY DEF Out

(* What one step sends is finite. *)
LEMMA FewFinite ==
  /\ IsFiniteSet({}) /\ \A x : IsFiniteSet({x})
  /\ \A x, y : IsFiniteSet({x} \cup {y}) /\ IsFiniteSet({x} \cup {})
BY FS_EmptySet, FS_Singleton, FS_Union

LEMMA AbortedFinite == \A x : IsFiniteSet(Aborted(x))
BY FewFinite DEF Aborted

(* A FIN was received and the application closes. *)
LEMMA EchoCloseOk ==
  ASSUME NEW x, RecOk(x), x.st = "ESTABLISHED", NEW hosts, x.ooseq = <<>>,
         Stream(x, x.base, 1, x.base + Wnd),
         NEW k \in 1..Len(Units), x.peer \in Peers, k <= hosts[x.peer].inc, x.base = k * Gap + 1
  PROVE  LET r == EchoClose(x)
         IN  ConnOk(r.conn, hosts) /\ IsFiniteSet(r.out) /\ r.conn.st \in {"CLOSED", "LAST_ACK"}
             /\ r.conn.ooseq = <<>>
<1>1. /\ x \in PcbRec /\ x.wnd \in Int /\ x.rcv \in Nat /\ x.base \in Nat /\ x.got \in Seq(Nat)
      /\ Len(x.got) \in Nat /\ Wnd \in Nat \ {0} /\ x.rto \in Nat \ {0}
  BY LwipAssumption DEF RecOk, PcbRec
<1>2. x.wnd # Wnd
  BY <1>1 DEF Stream
<1>3. PICK w : w = x.wnd + 1
  OBVIOUS
<1>4. PICK f : f = [NotDelayed(x) EXCEPT !.st = "LAST_ACK", !.wnd = w, !.rtime = 0, !.arg = FALSE]
  OBVIOUS
<1>5. EchoClose(x) = IF w # Wnd
                     THEN Out(Closed, Aborted(x))
                     ELSE Out(f, {Flagged(f)})
  BY <1>2, <1>3, <1>4 DEF EchoClose
<1>6. CASE w # Wnd
  <2>1. PICK o : o = Aborted(x)
    OBVIOUS
  <2>2. IsFiniteSet(o)
    BY <2>1, AbortedFinite
  <2>3. EchoClose(x).conn = Closed /\ EchoClose(x).out = o
    BY <1>5, <1>6, <2>1, OutIs
  <2>4. Closed.st = "CLOSED" /\ Closed.ooseq = <<>>
    BY DEF Closed
  <2> QED
    BY <2>2, <2>3, <2>4, ClosedOk
<1>7. CASE w = Wnd
  <2>1. EchoClose(x).conn = f /\ IsFiniteSet(EchoClose(x).out)
    <3>1. EchoClose(x).conn = f /\ EchoClose(x).out = {Flagged(f)}
      BY <1>5, <1>7, OutIs
    <3> QED
      BY <3>1, FewFinite
  <2>2. PICK y : y = NotDelayed(x)
    OBVIOUS
  <2>3. RecOk(y) /\ SameStream(y, x)
    BY <2>2, SetOk DEF NotDelayed
  <2>4. y \in PcbRec
    BY <2>3 DEF RecOk
  <2>5. w \in Int /\ "LAST_ACK" \in States
    BY <1>1, <1>3 DEF States
  <2>6. \A t \in Int : [y EXCEPT !.st = "LAST_ACK", !.wnd = w, !.rtime = t, !.arg = FALSE] \in PcbRec
    BY <2>4, <2>5 DEF PcbRec
  <2>7. f \in PcbRec
    <3>1. PICK t \in Int : t = 0
      OBVIOUS
    <3>2. f = [y EXCEPT !.st = "LAST_ACK", !.wnd = w, !.rtime = t, !.arg = FALSE]
      BY <1>4, <2>2, <3>1
    <3> QED
      BY <2>6, <3>2
  <2>8. /\ f.st = "LAST_ACK" /\ f.wnd = w /\ f.rtime = 0 /\ f.arg = FALSE /\ f.rto = y.rto
        /\ f.peer = x.peer /\ f.rcv = x.rcv /\ f.ooseq = x.ooseq /\ f.got = x.got /\ f.base = x.base
    BY <1>4, <2>2, <2>3, <2>4 DEF PcbRec, SameStream
  <2>9. y.rto \in Nat \ {0}
    BY <2>4 DEF PcbRec
  <2>10. RecOk(f)
    BY <2>7, <2>8, <2>9 DEF RecOk
  <2>11. Stream(f, f.base, 1, f.base + Wnd + 1)
    <3>1. x.rcv + x.wnd = x.base + Wnd /\ x.rcv <= x.base + Wnd
      BY DEF Stream
    <3>2. x.rcv + w = x.base + Wnd + 1 /\ x.rcv <= x.base + Wnd + 1
      BY <1>1, <1>3, <3>1
    <3> QED
      BY <2>8, <3>2 DEF Stream
  <2>12. \E j \in 1..Len(Units) :
           /\ j <= hosts[f.peer].inc /\ f.base = j * Gap + 1
           /\ QueueOk(f.ooseq, FinOf(j)) /\ Inside(f.ooseq, f.rcv, f.base + Wnd)
    BY <2>8, NothingOk
  <2>13. Flag(f.st = "LAST_ACK") = 1
    BY <2>8 DEF Flag
  <2>14. ConnOk(f, hosts)
    BY <2>8, <2>10, <2>11, <2>12, <2>13 DEF ConnOk
  <2> QED
    BY <2>1, <2>8, <2>14
<1> QED
  BY <1>6, <1>7

(* A segment on an open connection. *)
LEMMA AnsweredOk ==
  ASSUME NEW c, RecOk(c), c.st = "ESTABLISHED", c.arg = TRUE, NEW hosts,
         NEW k \in 1..Len(Units), c.peer \in Peers, k <= hosts[c.peer].inc, StreamOk(c, k),
         NEW s, InSeg(s) \in SegRec, NEW m \in 1..Len(Units),
         TcpLen(InSeg(s)) = 0 \/ ArrivedData(s, m)
  PROVE  LET d == DataPart(c, s)
             r == Answered(d)
         IN  /\ d.fin \in BOOLEAN /\ ConnOk(r.conn, hosts) /\ IsFiniteSet(r.out)
             /\ d.fin => r.conn.st \in {"CLOSED", "LAST_ACK"}
             /\ ~d.fin => r.conn.st = "ESTABLISHED"
             /\ Len(r.conn.ooseq) \in Nat /\ Len(r.conn.ooseq) <= Len(c.ooseq) + 1
<1>1. PICK d : d = DataPart(c, s)
  OBVIOUS
<1>2. PICK r : r = Answered(d)
  OBVIOUS
<1>3. PICK n \in Nat : n = Len(c.ooseq) + 1
  BY DEF RecOk, PcbRec
<1>4. d.fin \in BOOLEAN /\ DataTaken(d.conn, c, FinOf(k), Flag(d.fin), n)
  BY <1>1, <1>3, DataPartOk
<1>5. PICK x : x = d.conn
  OBVIOUS
<1>6. DataTaken(x, c, FinOf(k), Flag(d.fin), n)
  BY <1>4, <1>5
<1>7. /\ x.st = "ESTABLISHED" /\ x.peer = c.peer /\ x.rtime = c.rtime /\ x.rto = c.rto
      /\ x.arg = TRUE /\ x.base = c.base /\ x \in PcbRec
  BY <1>6 DEF DataTaken, SameTimers
<1>8. RecOk(x)
  BY <1>7 DEF RecOk
<1>9. CASE d.fin
  <2>1. Flag(d.fin) = 1
    BY <1>9 DEF Flag
  <2>2. Stream(x, x.base, 1, x.base + Wnd) /\ x.ooseq = <<>> /\ x.base = k * Gap + 1
    BY <1>6, <1>7, <2>1 DEF DataTaken, StreamOk
  <2>3. r = EchoClose(x)
    BY <1>2, <1>5, <1>9 DEF Answered
  <2>4. ConnOk(r.conn, hosts) /\ IsFiniteSet(r.out) /\ r.conn.st \in {"CLOSED", "LAST_ACK"}
        /\ r.conn.ooseq = <<>>
    BY <1>7, <1>8, <2>2, <2>3, EchoCloseOk
  <2>5. Len(r.conn.ooseq) = 0
    BY <2>4
  <2>6. 0 <= n
    OBVIOUS
  <2> QED
    BY <1>1, <1>2, <1>3, <1>4, <1>9, <2>4, <2>5, <2>6
<1>10. CASE ~d.fin
  <2>1. Flag(d.fin) = 0
    BY <1>10 DEF Flag
  <2>2. /\ Stream(x, x.base, 0, x.base + Wnd) /\ QueueOk(x.ooseq, FinOf(k))
        /\ Inside(x.ooseq, x.rcv, x.base + Wnd) /\ Len(x.ooseq) \in Nat /\ Len(x.ooseq) <= n
        /\ x.base = k * Gap + 1
    BY <1>6, <1>7, <2>1 DEF DataTaken, StreamOk
  <2>3. Flag(x.st = "LAST_ACK") = 0 /\ x.base + Wnd + 0 = x.base + Wnd
    BY <1>7, LwipAssumption DEF Flag, PcbRec
  <2>4. ConnOk(x, hosts)
    BY <1>7, <1>8, <2>2, <2>3 DEF ConnOk
  <2>5. RecOk(NotDelayed(x)) /\ SameStream(NotDelayed(x), x)
    BY <1>8, SetOk DEF NotDelayed
  <2>6. ConnOk(NotDelayed(x), hosts)
    BY <1>7, <2>4, <2>5, SameOk
  <2>7. r.conn \in {x, NotDelayed(x)} /\ IsFiniteSet(r.out)
    <3>1. r = IF d.now THEN Out(NotDelayed(x), {EmptyAck(x)}) ELSE Out(x, {})
      BY <1>2, <1>5, <1>10 DEF Answered
    <3>2. CASE r = Out(NotDelayed(x), {EmptyAck(x)})
      <4>1. r.conn = NotDelayed(x) /\ r.out = {EmptyAck(x)}
        BY <3>2, OutIs
      <4> QED
        BY <4>1, FewFinite
    <3>3. CASE r = Out(x, {})
      <4>1. r.conn = x /\ r.out = {}
        BY <3>3, OutIs
      <4> QED
        BY <4>1, FewFinite
    <3> QED
      BY <3>1, <3>2, <3>3
  <2>8. r.conn.st = "ESTABLISHED" /\ r.conn.ooseq = x.ooseq
    BY <1>7, <2>5, <2>7 DEF SameStream
  <2>9. ConnOk(r.conn, hosts)
    BY <2>4, <2>6, <2>7
  <2> QED
    BY <1>1, <1>2, <1>3, <1>4, <1>10, <2>2, <2>7, <2>8, <2>9
<1> QED
  BY <1>4, <1>9, <1>10

-----------------------------------------------------------------------------
(* The timers. *)
LEMMA BackoffOk == \A n \in Nat : Backoff(n) \in Nat \ {0}
<1>1. SUFFICES ASSUME NEW n \in Nat PROVE Backoff(n) \in Nat \ {0}
  OBVIOUS
<1>2. PICK t : t = <<2, 4, 8, 16, 32, 64, 128>>
  OBVIOUS
<1>3. t[1] = 2 /\ t[2] = 4 /\ t[3] = 8 /\ t[4] = 16 /\ t[5] = 32 /\ t[6] = 64 /\ t[7] = 128
  BY <1>2
<1>4. PICK j : j = IF n < 6 THEN n + 1 ELSE 7
  OBVIOUS
<1>5. j \in {1, 2, 3, 4, 5, 6, 7}
  BY <1>4
<1>6. Backoff(n) = t[j]
  BY <1>2, <1>4 DEF Backoff
<1> QED
  BY <1>3, <1>5, <1>6

(* The retransmission timer leaves the stream alone and is set back         *)
(* before it runs out again.                                                *)
LEMMA RetransmittedOk ==
  ASSUME NEW c, RecOk(c)
  PROVE  LET r == Retransmitted(c)
         IN  RecOk(r.conn) /\ SameStream(r.conn, c) /\ IsFiniteSet(r.out)
<1>1. c \in PcbRec /\ c.rtime \in -1..c.rto - 1 /\ c.rto \in Nat \ {0} /\ c.est \in Nat \ {0}
      /\ c.nrtx \in Nat
  <2>1. c.nrtx \in 0..MaxRtx /\ MaxRtx \in Nat
    BY LwipAssumption DEF RecOk, PcbRec
  <2> QED
    BY <2>1 DEF RecOk, PcbRec
<1>2. PICK t : t = IF c.rtime >= 0 THEN c.rtime + 1 ELSE c.rtime
  OBVIOUS
<1>3. t \in Int /\ -1 <= t
  BY <1>1, <1>2
<1>4. PICK b \in Nat \ {0} : b = Backoff(c.nrtx)
  BY <1>1, BackoffOk
<1>5. PICK z : z = c.est * b
  OBVIOUS
<1>6. z \in Nat \ {0}
  <2>1. PICK e \in Nat \ {0} : e = c.est
    BY <1>1
  <2>2. e * b \in Nat /\ e * b > 0
    BY ONLY e \in Nat \ {0}, b \in Nat \ {0}
  <2> QED
    BY <1>5, <2>1, <2>2
<1>7. CASE t >= c.rto
  <2>1. PICK d : d = [Rexmit(c) EXCEPT !.rtime = 0, !.rto = c.est * Backoff(c.nrtx)]
    OBVIOUS
  <2>2. Retransmitted(c) = Out(d, {Flagged(c)})
    BY <1>2, <1>7, <2>1 DEF Retransmitted
  <2>3. PICK x : x = Rexmit(c)
    OBVIOUS
  <2>4. RecOk(x) /\ SameStream(x, c) /\ x \in PcbRec
    BY <2>3, RexmitOk DEF RecOk
  <2>5. d = [x EXCEPT !.rtime = 0, !.rto = z]
    BY <1>4, <1>5, <2>1, <2>3
  <2>6. \A y \in Int : [x EXCEPT !.rtime = y, !.rto = z] \in PcbRec
    BY <1>6, <2>4 DEF PcbRec
  <2>7. d \in PcbRec
    <3>1. PICK t0 \in Int : t0 = 0
      OBVIOUS
    <3>2. d = [x EXCEPT !.rtime = t0, !.rto = z]
      BY <2>5, <3>1
    <3> QED
      BY <2>6, <3>2
  <2>8. d.rtime = 0 /\ d.rto = z /\ SameStream(d, c)
    BY <2>4, <2>5 DEF PcbRec, SameStream
  <2>9. RecOk(d)
    BY <1>6, <2>7, <2>8 DEF RecOk
  <2>10. Retransmitted(c).conn = d /\ Retransmitted(c).out = {Flagged(c)}
    BY <2>2, OutIs
  <2> QED
    BY <2>8, <2>9, <2>10, FewFinite
<1>8. CASE ~(t >= c.rto)
  <2>1. PICK d : d = [c EXCEPT !.rtime = t]
    OBVIOUS
  <2>2. Retransmitted(c) = Out(d, {})
    BY <1>2, <1>8, <2>1 DEF Retransmitted
  <2>3. d \in PcbRec
    BY <1>1, <1>3, <2>1 DEF PcbRec
  <2>4. d.rtime = t /\ d.rto = c.rto /\ SameStream(d, c)
    BY <1>1, <2>1 DEF PcbRec, SameStream
  <2>5. t \in -1..c.rto - 1
    BY <1>1, <1>3, <1>8
  <2>6. RecOk(d)
    BY <2>3, <2>4, <2>5 DEF RecOk
  <2> QED
    BY <2>2, <2>4, <2>6, OutIs, FewFinite
<1> QED
  BY <1>7, <1>8

(* Early segments that waited too long are dropped. *)
LEMMA OoseqAgedOk ==
  ASSUME NEW c, NEW hosts, ConnOk(c, hosts), c.st # "CLOSED"
  PROVE  LET d == OoseqAged(c)
         IN  /\ ConnOk(d, hosts) /\ d.st = c.st
             /\ Len(d.ooseq) \in Nat /\ Len(d.ooseq) <= Len(c.ooseq)
<1>1. c \in PcbRec /\ Len(c.ooseq) \in Nat /\ RecOk(c)
  BY DEF ConnOk, RecOk, PcbRec
<1>2. PICK d : d = [c EXCEPT !.ooseq = <<>>]
  OBVIOUS
<1>3. d \in PcbRec
  <2>1. <<>> \in Seq(SegRec)
    OBVIOUS
  <2> QED
    BY <1>1, <1>2, <2>1 DEF PcbRec
<1>4. /\ d.st = c.st /\ d.peer = c.peer /\ d.rcv = c.rcv /\ d.wnd = c.wnd /\ d.ooseq = <<>>
      /\ d.arg = c.arg /\ d.got = c.got /\ d.base = c.base /\ d.rtime = c.rtime /\ d.rto = c.rto
  BY <1>1, <1>2 DEF PcbRec
<1>5. RecOk(d)
  BY <1>1, <1>3, <1>4 DEF RecOk
<1>6. \A b, f, hi : Stream(c, b, f, hi) => Stream(d, b, f, hi)
  BY <1>4 DEF Stream
<1>7. \A e : QueueOk(d.ooseq, e)
  BY <1>4, NothingOk
<1>8. \A x, y : Inside(d.ooseq, x, y)
  BY <1>4, NothingOk
<1>9. ConnOk(d, hosts)
  BY <1>4, <1>5, <1>6, <1>7, <1>8 DEF ConnOk
<1>10. Len(d.ooseq) = 0
  BY <1>4
<1>11. OoseqAged(c) \in {c, d}
  BY <1>2 DEF OoseqAged
<1>12. CASE OoseqAged(c) = c
  BY <1>1, <1>12
<1>13. CASE OoseqAged(c) = d
  BY <1>1, <1>4, <1>9, <1>10, <1>13
<1> QED
  BY <1>11, <1>12, <1>13

(* One block in tcp_tmr: tcp_fasttmr, tcp_slowtmr. *)
TimerOk(x, c, hosts) ==
  /\ ConnOk(x.conn, hosts) /\ IsFiniteSet(x.out) /\ x.conn.st \in {c.st, "CLOSED"}
  /\ Len(x.conn.ooseq) \in Nat /\ Len(x.conn.ooseq) <= Len(c.ooseq)

(* tcp_fasttmr for one block. *)
LEMMA FastOk ==
  ASSUME NEW c, NEW hosts, ConnOk(c, hosts)
  PROVE  TimerOk(Fast(c), c, hosts)
<1>1. RecOk(c) /\ Len(c.ooseq) \in Nat
  BY DEF ConnOk, RecOk, PcbRec
<1>2. RecOk(NotDelayed(c)) /\ SameStream(NotDelayed(c), c)
  BY <1>1, SetOk DEF NotDelayed
<1>3. CASE ~c.delay
  <2>1. Fast(c).conn = c /\ Fast(c).out = {}
    BY <1>3, OutIs DEF Fast
  <2> QED
    BY <1>1, <2>1, FewFinite DEF TimerOk
<1>4. CASE c.delay
  <2>1. c.st # "CLOSED"
    <3>1. Closed.delay = FALSE
      BY DEF Closed
    <3> QED
      BY <1>4, <3>1 DEF ConnOk
  <2>2. ConnOk(NotDelayed(c), hosts)
    BY <1>2, <2>1, SameOk
  <2>3. Fast(c).conn = NotDelayed(c) /\ IsFiniteSet(Fast(c).out)
    <3>1. Fast(c) = Out(NotDelayed(c), {EmptyAck(c)})
      BY <1>4 DEF Fast
    <3>2. Fast(c).conn = NotDelayed(c) /\ Fast(c).out = {EmptyAck(c)}
      BY <3>1, OutIs
    <3> QED
      BY <3>2, FewFinite
  <2> QED
    BY <1>1, <1>2, <2>2, <2>3 DEF TimerOk, SameStream
<1> QED
  BY <1>3, <1>4

(* tcp_slowtmr for one block. *)
LEMMA SlowOk ==
  ASSUME NEW c, NEW hosts, ConnOk(c, hosts)
  PROVE  TimerOk(Slow(c), c, hosts)
<1>1. RecOk(c) /\ Len(c.ooseq) \in Nat /\ c.idle + 1 \in Nat /\ IdleMax \in Nat
  <2>1. c.idle \in 0..IdleMax /\ IdleMax \in Nat
    BY LwipAssumption DEF ConnOk, RecOk, PcbRec
  <2>2. RecOk(c) /\ c \in PcbRec
    BY DEF ConnOk, RecOk
  <2>3. Len(c.ooseq) \in Nat
    BY <2>2 DEF PcbRec
  <2> QED
    BY <2>1, <2>2, <2>3
<1>2. CASE c.st = "CLOSED"
  <2>1. Slow(c).conn = c /\ Slow(c).out = {}
    BY <1>2, OutIs DEF Slow
  <2> QED
    BY <1>1, <2>1, FewFinite DEF TimerOk
<1>3. CASE c.st # "CLOSED"
  <2>1. PICK n : n = Min({c.idle + 1, IdleMax})
    OBVIOUS
  <2>2. n \in 0..IdleMax
    BY <1>1, <2>1, MinOfTwo
  <2>3. PICK o : o = [c EXCEPT !.idle = n]
    OBVIOUS
  <2>4. RecOk(o) /\ SameStream(o, c)
    BY <1>1, <2>2, <2>3, SetOk
  <2>5. PICK r : r = IF c.nrtx >= MaxRtx THEN Out(o, {}) ELSE Retransmitted(o)
    OBVIOUS
  <2>6. RecOk(r.conn) /\ SameStream(r.conn, c) /\ IsFiniteSet(r.out)
    <3>1. CASE c.nrtx >= MaxRtx
      BY <2>4, <2>5, <3>1, OutIs, FewFinite
    <3>2. CASE ~(c.nrtx >= MaxRtx)
      <4>1. RecOk(r.conn) /\ SameStream(r.conn, o) /\ IsFiniteSet(r.out)
        BY <2>4, <2>5, <3>2, RetransmittedOk
      <4> QED
        BY <2>4, <4>1 DEF SameStream
    <3> QED
      BY <3>1, <3>2
  <2>7. ConnOk(r.conn, hosts) /\ r.conn.st = c.st /\ r.conn.ooseq = c.ooseq
    BY <1>3, <2>6, SameOk DEF SameStream
  <2>8. PICK x : x = OoseqAged(r.conn)
    OBVIOUS
  <2>9. ConnOk(x, hosts) /\ x.st = c.st /\ Len(x.ooseq) \in Nat /\ Len(x.ooseq) <= Len(c.ooseq)
    BY <1>3, <2>7, <2>8, OoseqAgedOk
  <2>10. Slow(c).conn \in {Closed, x} /\ Slow(c).out = r.out
    BY <1>3, <2>1, <2>3, <2>5, <2>8, OutIs DEF Slow
  <2>11. CASE Slow(c).conn = Closed
    <3>1. Closed.st = "CLOSED" /\ Len(Closed.ooseq) = 0
      BY DEF Closed
    <3> QED
      BY <1>1, <2>6, <2>10, <2>11, <3>1, ClosedOk DEF TimerOk
  <2>12. CASE Slow(c).conn = x
    BY <2>6, <2>9, <2>10, <2>12 DEF TimerOk
  <2> QED
    BY <2>10, <2>11, <2>12
<1> QED
  BY <1>2, <1>3

(* The places of the queues that hold a buffer. *)
HeldSet == UNION {{i} \X (1..Len(pcbs[i].ooseq)) : i \in Pcbs}

(* The inductive invariant. *)
BlocksOk ==
  /\ pcbs = [i \in Pcbs |-> pcbs[i]]
  /\ \A i \in Pcbs : ConnOk(pcbs[i], cli)
  /\ IsFiniteSet(HeldSet) /\ Held <= Pool

(* The counters of the listener and of the heap. *)
CountersOk ==
  /\ pending = Cardinality(Within("SYN_RCVD"))
  /\ heap = Cardinality(Within("ESTABLISHED")) + leaked
  /\ leaked \in Nat /\ heap <= Heap /\ odd \in BOOLEAN

(* The three parts together. *)
LInv == BlocksOk /\ CountersOk /\ HostsOk

(* How many blocks are in a state. *)
LEMMA WithinFinite ==
  \A st : IsFiniteSet(Within(st)) /\ Cardinality(Within(st)) \in Nat
<1>1. ASSUME NEW st PROVE IsFiniteSet(Within(st))
  BY FS_Subset, LwipAssumption DEF Within
<1> QED
  BY <1>1, FS_CardinalityType

(* The values of a flag. *)
LEMMA FlagIs == Flag(TRUE) = 1 /\ Flag(FALSE) = 0 /\ \A x \in BOOLEAN : Flag(x) \in {0, 1}
BY DEF Flag

(* What the invariant says of one block and of the counters. *)
LEMMA InvFacts ==
  ASSUME LInv
  PROVE  /\ \A i \in Pcbs : /\ ConnOk(pcbs[i], cli) /\ RecOk(pcbs[i]) /\ pcbs[i] \in PcbRec
                            /\ pcbs[i].st \in States /\ Len(pcbs[i].ooseq) \in Nat
                            /\ pcbs[i].arg = (pcbs[i].st = "ESTABLISHED")
         /\ pending \in Nat /\ heap \in Nat /\ leaked \in Nat
  <1>1. \A i \in Pcbs : ConnOk(pcbs[i], cli) /\ RecOk(pcbs[i]) /\ pcbs[i] \in PcbRec
                        /\ pcbs[i].arg = (pcbs[i].st = "ESTABLISHED")
    BY DEF LInv, BlocksOk, ConnOk, RecOk
  <1>2. \A i \in Pcbs : pcbs[i].st \in States /\ Len(pcbs[i].ooseq) \in Nat
    BY <1>1 DEF PcbRec
  <1>3. pending \in Nat /\ heap \in Nat /\ leaked \in Nat
    BY WithinFinite DEF LInv, CountersOk
  <1> QED
    BY <1>1, <1>2, <1>3

(* What the hosts get. *)
LEMMA ToCliOk ==
  ASSUME HostsOk, NEW o, IsFiniteSet(o), ToCli(o)
  PROVE  HostsOk' /\ cli' = cli
<1>1. cli' = cli
  BY DEF ToCli
<1>2. IsFiniteSet(toCli \cup o)
  BY FS_Union DEF HostsOk
<1>3. IsFiniteSet(toCli') /\ Cardinality(toCli') <= Wire
  BY <1>2 DEF ToCli, HostsOk
<1> QED
  BY <1>1, <1>3 DEF HostsOk

(* One block changes. *)
LEMMA BlockStep ==
  ASSUME LInv, Held < Pool, NEW i \in Pcbs, NEW r, ConnOk(r.conn, cli), IsFiniteSet(r.out),
         Len(r.conn.ooseq) \in Nat, Len(r.conn.ooseq) <= Len(pcbs[i].ooseq) + 1, Done(i, r),
         pending' = (pending - Flag(pcbs[i].st = "SYN_RCVD")) + Flag(r.conn.st = "SYN_RCVD"),
         heap' = (heap - Flag(pcbs[i].st = "ESTABLISHED")) + Flag(r.conn.st = "ESTABLISHED"),
         heap' <= Heap, leaked' = leaked
  PROVE  LInv'
<1>1. pcbs' = [pcbs EXCEPT ![i] = r.conn] /\ ToCli(r.out) /\ odd' = odd
  BY DEF Done
<1>2. pcbs = [j \in Pcbs |-> pcbs[j]] /\ \A j \in Pcbs : ConnOk(pcbs[j], cli)
  BY DEF LInv, BlocksOk
<1>3. HostsOk' /\ cli' = cli
  BY <1>1, ToCliOk DEF LInv
<1>4. pcbs'[i] = r.conn /\ \A j \in Pcbs : j # i => pcbs'[j] = pcbs[j]
  BY <1>1, <1>2
<1>5. pcbs' = [j \in Pcbs |-> pcbs'[j]]
  BY <1>1, <1>2
<1>6. \A j \in Pcbs : ConnOk(pcbs'[j], cli')
  BY <1>2, <1>3, <1>4
<1>7. IsFiniteSet(HeldSet)' /\ Held' <= Pool
  <2>1. PICK n \in Nat : n = Len(pcbs[i].ooseq)
    BY InvFacts
  <2>2. ASSUME NEW x \in HeldSet' PROVE x \in HeldSet \cup {<<i, n + 1>>}
    <3>1. PICK j \in Pcbs : x \in {j} \X (1..Len(pcbs'[j].ooseq))
      BY <2>2 DEF HeldSet
    <3>2. PICK k \in 1..Len(pcbs'[j].ooseq) : x = <<j, k>>
      BY <3>1
    <3>3. CASE j # i
      <4>1. x \in {j} \X (1..Len(pcbs[j].ooseq))
        BY <1>4, <3>1, <3>3
      <4> QED
        BY <4>1 DEF HeldSet
    <3>4. CASE j = i
      <4>1. k \in 1..Len(r.conn.ooseq) /\ Len(r.conn.ooseq) <= n + 1 /\ k \in Nat
        BY <1>4, <2>1, <3>2, <3>4
      <4>2. k \in 1..n \/ k = n + 1
        BY <4>1
      <4>3. k \in 1..n => x \in {i} \X (1..Len(pcbs[i].ooseq))
        BY <2>1, <3>2, <3>4
      <4> QED
        BY <3>2, <3>4, <4>2, <4>3 DEF HeldSet
    <3> QED
      BY <3>3, <3>4
  <2>3. PICK S, T : S = HeldSet /\ T = HeldSet'
    OBVIOUS
  <2>4. IsFiniteSet(S) /\ Cardinality(S) < Pool /\ Cardinality(S) \in Nat
    <3>1. IsFiniteSet(S)
      BY <2>3 DEF LInv, BlocksOk
    <3> QED
      BY <2>3, <3>1, FS_CardinalityType DEF Held, HeldSet
  <2>5. /\ IsFiniteSet(S \cup {<<i, n + 1>>})
        /\ Cardinality(S \cup {<<i, n + 1>>}) \in {Cardinality(S), Cardinality(S) + 1}
    BY <2>4, FS_AddElement
  <2>6. PICK U : U = S \cup {<<i, n + 1>>}
    OBVIOUS
  <2>7. T \in SUBSET U
    BY <2>2, <2>3, <2>6
  <2>8. IsFiniteSet(T) /\ Cardinality(T) <= Cardinality(U)
    BY <2>5, <2>6, <2>7, FS_Subset
  <2>9. Cardinality(T) \in Nat /\ Cardinality(U) <= Pool /\ Cardinality(U) \in Nat
    BY <2>4, <2>5, <2>6, <2>8, FS_CardinalityType, LwipAssumption
  <2>10. Cardinality(T) <= Pool
    BY <2>8, <2>9, LwipAssumption
  <2>11. Held' = Cardinality(HeldSet')
    BY DEF Held, HeldSet
  <2> QED
    BY <2>3, <2>8, <2>10, <2>11
<1>8. ASSUME NEW st \in States
      PROVE  Cardinality(Within(st)') =
               (Cardinality(Within(st)) - Flag(pcbs[i].st = st)) + Flag(r.conn.st = st)
  <2>1. PICK W : W = Within(st)
    OBVIOUS
  <2>2. IsFiniteSet(W) /\ Cardinality(W) \in Nat /\ (i \in W <=> pcbs[i].st = st)
    BY <2>1, WithinFinite DEF Within
  <2>3. CASE r.conn.st = st
    <3>1. Within(st)' = W \cup {i}
      BY <1>4, <2>1, <2>3 DEF Within
    <3>2. Cardinality(W \cup {i}) = IF i \in W THEN Cardinality(W) ELSE Cardinality(W) + 1
      BY <2>2, FS_AddElement
    <3> QED
      BY <2>1, <2>2, <2>3, <3>1, <3>2 DEF Flag
  <2>4. CASE r.conn.st # st
    <3>1. Within(st)' = W \ {i}
      BY <1>4, <2>1, <2>4 DEF Within
    <3>2. Cardinality(W \ {i}) = IF i \in W THEN Cardinality(W) - 1 ELSE Cardinality(W)
      BY <2>2, FS_RemoveElement
    <3> QED
      BY <2>1, <2>2, <2>4, <3>1, <3>2 DEF Flag
  <2> QED
    BY <2>3, <2>4
<1>9. CountersOk'
  <2>1. "SYN_RCVD" \in States /\ "ESTABLISHED" \in States
    BY DEF States
  <2>2. pending' = Cardinality(Within("SYN_RCVD")')
    BY <1>8, <2>1 DEF LInv, CountersOk
  <2>3. Cardinality(Within("ESTABLISHED")') =
          (Cardinality(Within("ESTABLISHED")) - Flag(pcbs[i].st = "ESTABLISHED"))
            + Flag(r.conn.st = "ESTABLISHED")
    BY <1>8, <2>1
  <2>4. PICK E \in Nat, F \in Nat, a \in {0, 1}, b \in {0, 1}, l \in Nat :
          /\ E = Cardinality(Within("ESTABLISHED")) /\ F = Cardinality(Within("ESTABLISHED")')
          /\ a = Flag(pcbs[i].st = "ESTABLISHED") /\ b = Flag(r.conn.st = "ESTABLISHED")
          /\ l = leaked
    <3>1. Cardinality(Within("ESTABLISHED")') \in Nat
      <4>1. (\A st : IsFiniteSet(Within(st)) /\ Cardinality(Within(st)) \in Nat)'
        BY WithinFinite, PTL
      <4> QED
        BY <4>1
    <3> QED
      BY <3>1, WithinFinite DEF Flag, LInv, CountersOk
  <2>5. heap = E + l /\ heap' = (heap - a) + b /\ F = (E - a) + b
    BY <2>3, <2>4 DEF LInv, CountersOk
  <2>6. heap' = F + l
    BY ONLY <2>5, E \in Nat, F \in Nat, l \in Nat, a \in {0, 1}, b \in {0, 1}
  <2> QED
    BY <1>1, <2>2, <2>4, <2>6 DEF LInv, CountersOk
<1> QED
  BY <1>3, <1>5, <1>6, <1>7, <1>9 DEF LInv, BlocksOk

(* One block changes and stays in its state. *)
LEMMA AnswerStep ==
  ASSUME LInv, Held < Pool, NEW i \in Pcbs, NEW c, ConnOk(c, cli), c.st = pcbs[i].st,
         Len(c.ooseq) \in Nat, Len(c.ooseq) <= Len(pcbs[i].ooseq) + 1,
         NEW o, IsFiniteSet(o), Answer(i, c, o)
  PROVE  LInv'
<1>1. PICK r : r = Out(c, o)
  OBVIOUS
<1>2. r.conn = c /\ r.out = o
  BY <1>1, OutIs
<1>3. Done(i, r) /\ pending' = pending /\ heap' = heap /\ leaked' = leaked
  BY <1>1 DEF Answer
<1>4. pending \in Nat /\ heap \in Nat /\ heap <= Heap
  BY InvFacts DEF LInv, CountersOk
<1>5. PICK a \in {0, 1}, b \in {0, 1} : /\ a = Flag(pcbs[i].st = "SYN_RCVD")
                                         /\ b = Flag(pcbs[i].st = "ESTABLISHED")
  BY DEF Flag
<1>6. pending' = (pending - a) + a /\ heap' = (heap - b) + b /\ heap' <= Heap
  BY <1>3, <1>4
<1> QED
  BY <1>2, <1>3, <1>5, <1>6, BlockStep

(* One block is freed. *)
LEMMA FreedStep ==
  ASSUME LInv, Held < Pool, NEW i \in Pcbs, pcbs[i].st # "CLOSED",
         NEW o, IsFiniteSet(o), Done(i, Out(Closed, o)), Freed(i)
  PROVE  LInv'
<1>1. PICK r : r = Out(Closed, o)
  OBVIOUS
<1>2. r.conn = Closed /\ r.out = o /\ Closed.st = "CLOSED" /\ Closed.ooseq = <<>>
  <2>1. Closed.st = "CLOSED" /\ Closed.ooseq = <<>>
    BY DEF Closed
  <2> QED
    BY <1>1, <2>1, OutIs
<1>3. PICK a \in {0, 1}, b \in {0, 1} : /\ a = Flag(pcbs[i].st = "SYN_RCVD")
                                         /\ b = Flag(pcbs[i].st = "ESTABLISHED")
  BY DEF Flag
<1>4. pending' = pending - a /\ heap' = heap - b /\ leaked' = leaked
  BY <1>3, InvFacts DEF Freed, Flag
<1>5. Flag(r.conn.st = "SYN_RCVD") = 0 /\ Flag(r.conn.st = "ESTABLISHED") = 0
  BY <1>2 DEF Flag
<1>6. pending \in Nat /\ heap \in Nat /\ heap <= Heap /\ Heap \in Nat
  BY InvFacts, LwipAssumption DEF LInv, CountersOk
<1>7. pending' = (pending - a) + 0 /\ heap' = (heap - b) + 0 /\ heap' <= Heap
  BY <1>4, <1>6
<1>8. Len(r.conn.ooseq) = 0 /\ 0 <= Len(pcbs[i].ooseq) + 1
  BY <1>2, InvFacts
<1>9. ConnOk(r.conn, cli)
  BY <1>2, ClosedOk
<1>10. IsFiniteSet(r.out) /\ Done(i, r)
  BY <1>1, <1>2
<1>11. /\ pending' = (pending - Flag(pcbs[i].st = "SYN_RCVD")) + Flag(r.conn.st = "SYN_RCVD")
       /\ heap' = (heap - Flag(pcbs[i].st = "ESTABLISHED")) + Flag(r.conn.st = "ESTABLISHED")
  BY <1>3, <1>5, <1>7
<1> QED
  BY <1>4, <1>7, <1>8, <1>9, <1>10, <1>11, BlockStep

(* The block of a segment's connection. *)
LEMMA FoundOk ==
  ASSUME NEW s, NEW i \in Pcbs, i = Found(s)
  PROVE  pcbs[i].st # "CLOSED" /\ pcbs[i].peer = s.peer
<1>1. PICK S : S = {j \in Pcbs : pcbs[j].st # "CLOSED" /\ pcbs[j].peer = s.peer}
  OBVIOUS
<1>2. S \in SUBSET Nat /\ i # 0
  BY <1>1, LwipAssumption
<1>3. Found(s) = IF S = {} THEN 0 ELSE Min(S)
  BY <1>1 DEF Found
<1>4. S # {} /\ i = Min(S)
  BY <1>2, <1>3
<1>5. i \in S
  BY <1>2, <1>4, MinIn
<1> QED
  BY <1>1, <1>5

(* The block tcp_alloc gives. *)
LEMMA AllocatedOk ==
  ASSUME LInv, NEW i \in Allocated
  PROVE  i \in Pcbs /\ pcbs[i].st \in {"CLOSED", "LAST_ACK", "ESTABLISHED"}
<1>1. CASE Within("CLOSED") # {}
  <2>1. Within("CLOSED") \in SUBSET Nat
    BY LwipAssumption DEF Within
  <2>2. PICK W : W = Within("CLOSED")
    OBVIOUS
  <2>3. i = Min(W)
    BY <1>1, <2>2 DEF Allocated
  <2>4. i \in W
    BY <1>1, <2>1, <2>2, <2>3, MinIn
  <2> QED
    BY <2>2, <2>4 DEF Within
<1>2. CASE Within("CLOSED") = {} /\ Within("LAST_ACK") # {}
  BY <1>2 DEF Allocated, Oldest, Within
<1>3. CASE Within("CLOSED") = {} /\ Within("LAST_ACK") = {}
  BY <1>3 DEF Allocated, Oldest, Within
<1> QED
  BY <1>1, <1>2, <1>3

(* A SYN gets a block, that of an open connection if need be. *)
LEMMA ListenStep ==
  ASSUME LInv, Held < Pool, NEW s \in Arriving, NEW iss \in Iss, Listen(s, iss)
  PROVE  LInv'
<1> DEFINE c == [Closed EXCEPT !.st = "SYN_RCVD", !.peer = s.peer, !.rcv = s.seq + 1,
                            !.base = s.seq + 1, !.snd = iss, !.rtime = 0]
<1>1. PICK i \in Allocated :
            /\ Done(i, Out(c, {Flagged(c)} \cup
                  (IF pcbs[i].st = "ESTABLISHED" THEN Aborted(pcbs[i]) ELSE {})))
            /\ pending' = pending + 1
            /\ heap' = heap - (IF pcbs[i].arg THEN 1 ELSE 0)
            /\ leaked' = leaked
  BY DEF Listen
<1>2. s.flags = "SYN"
  BY DEF Listen
<1>3. i \in Pcbs /\ pcbs[i].st \in {"CLOSED", "LAST_ACK", "ESTABLISHED"}
  BY AllocatedOk
<1>4. /\ s.peer \in AllHosts /\ s.seq \in Nat
      /\ s.peer \in Peers => \E k \in 1..Len(Units) : k <= cli[s.peer].inc /\ s.seq = k * Gap
  BY <1>2, ArrivingOk DEF LInv
<1>5. PICK x : x = Closed
  OBVIOUS
<1>6. RecOk(x) /\ x \in PcbRec
  BY <1>5, ClosedOk DEF ConnOk, RecOk
<1>7. x.wnd = Wnd /\ x.ooseq = <<>> /\ x.arg = FALSE /\ x.got = <<>> /\ x.rto = RTO
  BY <1>5 DEF Closed
<1>8. PICK y : y = c
  OBVIOUS
<1>9. PICK n \in Nat, t \in Int : n = s.seq + 1 /\ t = 0
  BY <1>4
<1>10. y = [x EXCEPT !.st = "SYN_RCVD", !.peer = s.peer, !.rcv = n,
                     !.base = n, !.snd = iss, !.rtime = t]
  BY <1>5, <1>8, <1>9
<1> HIDE DEF c
<1>11. iss \in Nat /\ "SYN_RCVD" \in States /\ Wnd \in Nat /\ RTO \in Nat \ {0}
  BY LwipAssumption DEF States
<1>12. y \in PcbRec
  <2>1. PICK z : z = [x EXCEPT !.st = "SYN_RCVD", !.peer = s.peer, !.rcv = n]
    OBVIOUS
  <2>2. z \in PcbRec
    BY <1>4, <1>6, <1>11, <2>1 DEF PcbRec
  <2>3. [z EXCEPT !.base = n, !.snd = iss, !.rtime = t] \in PcbRec
    BY <1>11, <2>2 DEF PcbRec
  <2>4. y = [z EXCEPT !.base = n, !.snd = iss, !.rtime = t]
    BY <1>10, <2>1
  <2> QED
    BY <2>3, <2>4
<1>13. /\ y.st = "SYN_RCVD" /\ y.peer = s.peer /\ y.rcv = n /\ y.base = n /\ y.rtime = 0
       /\ y.wnd = Wnd /\ y.ooseq = <<>> /\ y.arg = FALSE /\ y.got = <<>> /\ y.rto = RTO
  BY <1>6, <1>7, <1>9, <1>10 DEF PcbRec
<1>14. RecOk(y)
  BY <1>11, <1>12, <1>13 DEF RecOk
<1>15. Stream(y, y.base, 0, y.base + Wnd + 0) /\ Flag(y.st = "LAST_ACK") = 0
  <2>1. Len(y.got) = 0
    BY <1>13
  <2> QED
    BY <1>11, <1>13, <2>1 DEF Stream, Flag
<1>16. y.peer \in Peers => \E k \in 1..Len(Units) :
         /\ k <= cli[y.peer].inc /\ y.base = k * Gap + 1
         /\ QueueOk(y.ooseq, FinOf(k)) /\ Inside(y.ooseq, y.rcv, y.base + Wnd)
  <2>1. SUFFICES ASSUME s.peer \in Peers
                 PROVE  \E k \in 1..Len(Units) :
                          /\ k <= cli[s.peer].inc /\ y.base = k * Gap + 1
                          /\ QueueOk(y.ooseq, FinOf(k)) /\ Inside(y.ooseq, y.rcv, y.base + Wnd)
    BY <1>13
  <2>2. PICK k \in 1..Len(Units) : k <= cli[s.peer].inc /\ s.seq = k * Gap
    BY <1>4, <2>1
  <2>4. QueueOk(y.ooseq, FinOf(k)) /\ Inside(y.ooseq, y.rcv, y.base + Wnd)
    BY <1>13, NothingOk
  <2>5. y.base = k * Gap + 1
    BY <1>9, <1>13, <2>2
  <2> QED
    BY <2>2, <2>4, <2>5
<1>17. ConnOk(y, cli)
  BY <1>13, <1>14, <1>15, <1>16 DEF ConnOk
<1>18. PICK o : o = {Flagged(c)} \cup (IF pcbs[i].st = "ESTABLISHED" THEN Aborted(pcbs[i]) ELSE {})
  OBVIOUS
<1>19. IsFiniteSet(o)
  BY <1>18, FewFinite, AbortedFinite, FS_Union
<1>20. PICK r : r = Out(c, o)
  OBVIOUS
<1>21. r.conn = y /\ r.out = o /\ Done(i, r)
  BY <1>1, <1>8, <1>18, <1>20, OutIs
<1>22. PICK b \in {0, 1} : b = Flag(pcbs[i].st = "ESTABLISHED")
  BY DEF Flag
<1>23. /\ Flag(pcbs[i].st = "SYN_RCVD") = 0 /\ Flag(y.st = "SYN_RCVD") = 1
       /\ Flag(y.st = "ESTABLISHED") = 0
  BY <1>3, <1>13 DEF Flag
<1>24. pending \in Nat /\ heap \in Nat /\ heap <= Heap /\ Heap \in Nat
  BY InvFacts, LwipAssumption DEF LInv, CountersOk
<1>25. heap' = heap - b
  BY <1>1, <1>3, <1>22, InvFacts DEF Flag
<1>26. heap' = (heap - b) + 0 /\ heap' <= Heap /\ pending' = (pending - 0) + 1
  BY <1>1, <1>24, <1>25
<1>27. Len(y.ooseq) = 0 /\ 0 <= Len(pcbs[i].ooseq) + 1
  BY <1>3, <1>13, InvFacts
<1> QED
  BY <1>1, <1>3, <1>17, <1>19, <1>21, <1>22, <1>23, <1>26, <1>27, BlockStep

(* A SYN gets no block, and an echo_state all the same. *)
LEMMA ListenRefusedStep ==
  ASSUME LInv, NEW s, ListenRefused(s)
  PROVE  LInv'
<1>1. /\ heap < Heap /\ heap' = heap + 1 /\ leaked' = leaked + 1 /\ pcbs' = pcbs
      /\ pending' = pending /\ odd' = odd /\ cli' = cli /\ toCli' = toCli
  BY DEF ListenRefused
<1>2. BlocksOk' /\ HostsOk'
  BY <1>1 DEF LInv, BlocksOk, HostsOk, HeldSet, Held
<1>3. \A st : Within(st)' = Within(st)
  BY <1>1 DEF Within
<1>4. PICK E \in Nat : E = Cardinality(Within("ESTABLISHED"))
  BY WithinFinite
<1>5. CountersOk'
  <2>1. heap = E + leaked /\ leaked \in Nat /\ heap \in Nat /\ Heap \in Nat
    BY <1>4, InvFacts, LwipAssumption DEF LInv, CountersOk
  <2>2. heap' = E + leaked' /\ leaked' \in Nat /\ heap' <= Heap
    BY <1>1, <2>1
  <2> QED
    BY <1>1, <1>3, <1>4, <2>2 DEF LInv, CountersOk
<1> QED
  BY <1>2, <1>5 DEF LInv

(* A segment of no connection. *)
LEMMA ListenResetStep ==
  ASSUME LInv, NEW s, ListenReset(s)
  PROVE  LInv'
<1>1. ToCli(Rejected(s)) /\ UNCHANGED server
  BY DEF ListenReset
<1>2. IsFiniteSet(Rejected(s))
  BY FewFinite DEF Rejected
<1>3. HostsOk' /\ cli' = cli
  BY <1>1, <1>2, ToCliOk DEF LInv
<1>4. BlocksOk' /\ CountersOk'
  BY <1>1, <1>3 DEF LInv, BlocksOk, CountersOk, HeldSet, Held, Within, server
<1> QED
  BY <1>3, <1>4 DEF LInv

(* A reset. *)
LEMMA RecvRstStep ==
  ASSUME LInv, Held < Pool, NEW s, NEW i \in Pcbs, i = Found(s), RecvRst(s, i)
  PROVE  LInv'
<1>1. pcbs[i].st # "CLOSED"
  BY FoundOk
<1>2. CASE Done(i, Out(Closed, {})) /\ Freed(i)
  BY <1>1, <1>2, FewFinite, FreedStep
<1>3. CASE Answer(i, NotDelayed(pcbs[i]), {EmptyAck(pcbs[i])})
  <2>1. PICK c : c = NotDelayed(pcbs[i])
    OBVIOUS
  <2>2. RecOk(c) /\ SameStream(c, pcbs[i])
    BY <2>1, InvFacts, SetOk DEF NotDelayed
  <2>3. ConnOk(c, cli)
    BY <1>1, <2>2, InvFacts, SameOk
  <2>4. c.st = pcbs[i].st /\ Len(c.ooseq) \in Nat /\ Len(c.ooseq) <= Len(pcbs[i].ooseq) + 1
    BY <2>2, InvFacts DEF SameStream
  <2>5. IsFiniteSet({EmptyAck(pcbs[i])})
    BY FewFinite
  <2> QED
    BY <1>3, <2>1, <2>3, <2>4, <2>5, AnswerStep
<1> QED
  BY <1>2, <1>3 DEF RecvRst

(* What a step makes of a block that keeps its stream. *)
LEMMA SameStep ==
  ASSUME LInv, Held < Pool, NEW i \in Pcbs, pcbs[i].st # "CLOSED", NEW c, RecOk(c),
         SameStream(c, pcbs[i]), NEW o, IsFiniteSet(o), Answer(i, c, o)
  PROVE  LInv'
<1>1. ConnOk(c, cli)
  BY InvFacts, SameOk
<1>2. c.st = pcbs[i].st /\ Len(c.ooseq) \in Nat /\ Len(c.ooseq) <= Len(pcbs[i].ooseq) + 1
  BY InvFacts DEF SameStream
<1> QED
  BY <1>1, <1>2, AnswerStep

(* Hearing of a host sets the idle time back. *)
LEMMA HeardOk ==
  ASSUME NEW c, RecOk(c)
  PROVE  RecOk([c EXCEPT !.idle = 0]) /\ SameStream([c EXCEPT !.idle = 0], c)
<1>1. 0 \in 0..IdleMax
  BY LwipAssumption
<1> QED
  BY <1>1, SetOk

(* A repeated SYN. *)
LEMMA RecvSynStep ==
  ASSUME LInv, Held < Pool, NEW s, NEW i \in Pcbs, i = Found(s), RecvSyn(s, i)
  PROVE  LInv'
<1>1. pcbs[i].st # "CLOSED" /\ RecOk(pcbs[i])
  BY FoundOk, InvFacts
<1> DEFINE c == pcbs[i]
           heard == [c EXCEPT !.idle = 0]
<1>2. CASE Answer(i, NotDelayed(c), {EmptyAck(c)})
  <2>1. RecOk(NotDelayed(c)) /\ SameStream(NotDelayed(c), c)
    BY <1>1, SetOk DEF NotDelayed
  <2>2. IsFiniteSet({EmptyAck(c)})
    BY FewFinite
  <2> QED
    BY <1>1, <1>2, <2>1, <2>2, SameStep
<1>3. RecOk(heard) /\ SameStream(heard, c)
  BY <1>1, HeardOk
<1> HIDE DEF heard
<1>4. CASE Answer(i, Rexmit(heard), {Flagged(c)})
  <2>1. RecOk(Rexmit(heard)) /\ SameStream(Rexmit(heard), c)
    BY <1>3, RexmitOk DEF SameStream
  <2>2. IsFiniteSet({Flagged(c)})
    BY FewFinite
  <2> QED
    BY <1>1, <1>4, <2>1, <2>2, SameStep
<1>5. CASE Answer(i, heard, {})
  BY <1>1, <1>3, <1>5, FewFinite, SameStep
<1> QED
  BY <1>2, <1>4, <1>5 DEF RecvSyn, heard

(* The last ACK of an opening, and no memory for the echo_state. *)
LEMMA RecvInSynRcvdNoMemStep ==
  ASSUME LInv, Held < Pool, NEW s, NEW i \in Pcbs, i = Found(s), RecvInSynRcvdNoMem(s, i)
  PROVE  LInv'
<1>1. pcbs[i].st # "CLOSED"
  BY FoundOk
<1>2. IsFiniteSet({Rst(pcbs[i])})
  BY FewFinite
<1>3. Done(i, Out(Closed, {Rst(pcbs[i])})) /\ Freed(i)
  BY DEF RecvInSynRcvdNoMem
<1> QED
  BY <1>1, <1>2, <1>3, FreedStep

(* A wrong ACK while a connection is being opened. *)
LEMMA RecvInSynRcvdWrongStep ==
  ASSUME LInv, Held < Pool, NEW s, NEW i \in Pcbs, i = Found(s), RecvInSynRcvdWrong(s, i)
  PROVE  LInv'
<1>1. pcbs[i].st # "CLOSED" /\ RecOk(pcbs[i])
  BY FoundOk, InvFacts
<1>2. PICK h : h = [pcbs[i] EXCEPT !.idle = 0]
  OBVIOUS
<1>3. RecOk(h) /\ SameStream(h, pcbs[i])
  BY <1>1, <1>2, HeardOk
<1>4. IsFiniteSet(Rejected(s))
  BY FewFinite DEF Rejected
<1>5. Answer(i, h, Rejected(s))
  BY <1>2 DEF RecvInSynRcvdWrong
<1> QED
  BY <1>1, <1>3, <1>4, <1>5, SameStep

(* The segment and the connection that an ACK is for. *)
LEMMA StreamFound ==
  ASSUME LInv, NEW s \in Arriving, Acks(s), NEW i \in Pcbs, i = Found(s),
         pcbs[i].st \in {"SYN_RCVD", "ESTABLISHED"}
  PROVE  /\ pcbs[i].peer \in Peers /\ pcbs[i].peer = s.peer
         /\ InSeg(s) \in SegRec
         /\ \E m \in 1..Len(Units) :
              TcpLen(InSeg(s)) = 0 \/ ArrivedData(s, m)
         /\ \E k \in 1..Len(Units) : k <= cli[pcbs[i].peer].inc /\ StreamOk(pcbs[i], k)
<1>1. pcbs[i].st # "CLOSED" /\ pcbs[i].peer = s.peer
  BY FoundOk
<1>2. /\ s.peer \in Peers /\ InSeg(s) \in SegRec
      /\ \E m \in 1..Len(Units) : TcpLen(InSeg(s)) = 0 \/ ArrivedData(s, m)
  BY ArrivingOk DEF LInv
<1>3. PICK c : c = pcbs[i]
  OBVIOUS
<1>4. ConnOk(c, cli) /\ c \in PcbRec
  BY <1>3, InvFacts
<1>5. PICK k \in 1..Len(Units) :
         /\ k <= cli[c.peer].inc /\ c.base = k * Gap + 1
         /\ QueueOk(c.ooseq, FinOf(k)) /\ Inside(c.ooseq, c.rcv, c.base + Wnd)
  BY <1>1, <1>2, <1>3, <1>4 DEF ConnOk
<1>6. Stream(c, c.base, 0, c.base + Wnd)
  <2>1. Flag(c.st = "LAST_ACK") = 0
    BY <1>3 DEF Flag
  <2>2. c.base \in Nat /\ Wnd \in Nat
    BY <1>4, LwipAssumption DEF PcbRec
  <2>3. c.base + Wnd + 0 = c.base + Wnd
    BY <2>2
  <2> QED
    BY <1>1, <1>3, <1>4, <2>1, <2>3 DEF ConnOk
<1>7. StreamOk(c, k)
  BY <1>5, <1>6 DEF StreamOk
<1> QED
  BY <1>1, <1>2, <1>3, <1>5, <1>7

(* A step that leaves the stream alone leaves it the one it was. *)
LEMMA SameStreamOk ==
  ASSUME NEW c, NEW d, NEW k, StreamOk(c, k), d.base = c.base, d.got = c.got, d.rcv = c.rcv,
         d.wnd = c.wnd, d.ooseq = c.ooseq
  PROVE  StreamOk(d, k)
BY DEF StreamOk, Stream

(* The last ACK of an opening, with the data it brings. *)
LEMMA RecvInSynRcvdStep ==
  ASSUME LInv, Held < Pool, NEW s \in Arriving, NEW i \in Pcbs, i = Found(s), NEW est \in Rtos,
         RecvInSynRcvd(s, i, est)
  PROVE  LInv'
<1>1. RecOk(pcbs[i]) /\ pcbs[i].st = "SYN_RCVD" /\ Acks(s)
  BY InvFacts DEF RecvInSynRcvd
<1>2. PICK c : c = [pcbs[i] EXCEPT !.idle = 0]
  OBVIOUS
<1>3. RecOk(c) /\ SameStream(c, pcbs[i])
  BY <1>1, <1>2, HeardOk
<1>4. PICK b : b = AckPart(c, s, est).conn
  OBVIOUS
<1>5. RecOk(b) /\ SameStream(b, pcbs[i])
  <2>1. RecOk(b) /\ SameStream(b, c)
    BY <1>3, <1>4, AckPartOk
  <2> QED
    BY <1>3, <2>1 DEF SameStream
<1>6. PICK a : a = [b EXCEPT !.st = "ESTABLISHED", !.arg = TRUE]
  OBVIOUS
<1>7. "ESTABLISHED" \in States /\ TRUE \in BOOLEAN
  BY DEF States
<1>8. a \in PcbRec
  BY <1>5, <1>6, <1>7 DEF RecOk, PcbRec
<1>9. /\ a.st = "ESTABLISHED" /\ a.arg = TRUE /\ a.peer = b.peer /\ a.rtime = b.rtime
      /\ a.rto = b.rto /\ a.base = b.base /\ a.got = b.got /\ a.rcv = b.rcv /\ a.wnd = b.wnd
      /\ a.ooseq = b.ooseq
  BY <1>5, <1>6 DEF RecOk, PcbRec
<1>10. RecOk(a)
  BY <1>5, <1>8, <1>9 DEF RecOk
<1>11. /\ a.peer = pcbs[i].peer /\ a.base = pcbs[i].base /\ a.got = pcbs[i].got
       /\ a.rcv = pcbs[i].rcv /\ a.wnd = pcbs[i].wnd /\ a.ooseq = pcbs[i].ooseq
  BY <1>5, <1>9 DEF SameStream
<1>12. PICK m \in 1..Len(Units), k \in 1..Len(Units) :
          /\ a.peer \in Peers /\ InSeg(s) \in SegRec
          /\ TcpLen(InSeg(s)) = 0 \/ ArrivedData(s, m)
          /\ k <= cli[a.peer].inc /\ StreamOk(pcbs[i], k)
  BY <1>1, <1>11, StreamFound
<1>13. StreamOk(a, k)
  BY <1>11, <1>12, SameStreamOk
<1>14. PICK d, r : d = DataPart(a, s) /\ r = Answered(d)
  OBVIOUS
<1>15. /\ d.fin \in BOOLEAN /\ ConnOk(r.conn, cli) /\ IsFiniteSet(r.out)
       /\ d.fin => r.conn.st \in {"CLOSED", "LAST_ACK"}
       /\ ~d.fin => r.conn.st = "ESTABLISHED"
       /\ Len(r.conn.ooseq) \in Nat /\ Len(r.conn.ooseq) <= Len(a.ooseq) + 1
  BY <1>9, <1>10, <1>12, <1>13, <1>14, AnsweredOk
<1>16. /\ heap < Heap /\ Done(i, r) /\ pending' = pending - 1
       /\ heap' = heap + 1 - (IF d.fin THEN 1 ELSE 0) /\ leaked' = leaked
  BY <1>2, <1>4, <1>6, <1>14 DEF RecvInSynRcvd, FreedByClose
<1>17. PICK f \in {0, 1} : f = Flag(r.conn.st = "ESTABLISHED")
  BY DEF Flag
<1>18. Flag(pcbs[i].st = "SYN_RCVD") = 1 /\ Flag(pcbs[i].st = "ESTABLISHED") = 0
       /\ Flag(r.conn.st = "SYN_RCVD") = 0
  BY <1>1, <1>15 DEF Flag
<1>19. pending \in Nat /\ heap \in Nat /\ Heap \in Nat
  BY InvFacts, LwipAssumption
<1>20. heap' = (heap - 0) + f
  <2>1. CASE d.fin
    <3>1. f = 0
      BY <1>15, <1>17, <2>1 DEF Flag
    <3> QED
      BY <1>16, <1>19, <2>1, <3>1
  <2>2. CASE ~d.fin
    <3>1. f = 1
      BY <1>15, <1>17, <2>2 DEF Flag
    <3> QED
      BY <1>16, <1>19, <2>2, <3>1
  <2> QED
    BY <2>1, <2>2
<1>21. pending' = (pending - 1) + 0 /\ heap' <= Heap
  BY <1>16, <1>19, <1>20
<1> QED
  BY <1>11, <1>15, <1>16, <1>17, <1>18, <1>20, <1>21, BlockStep

(* A segment on an open connection. *)
LEMMA RecvInEstablishedStep ==
  ASSUME LInv, Held < Pool, NEW s \in Arriving, NEW i \in Pcbs, i = Found(s), NEW est \in Rtos,
         RecvInEstablished(s, i, est)
  PROVE  LInv'
<1>1. RecOk(pcbs[i]) /\ pcbs[i].st = "ESTABLISHED" /\ Acks(s) /\ pcbs[i].arg = TRUE
  <2>1. pcbs[i].st = "ESTABLISHED" /\ Acks(s)
    BY DEF RecvInEstablished
  <2>2. pcbs[i].arg = (pcbs[i].st = "ESTABLISHED") /\ RecOk(pcbs[i])
    BY InvFacts
  <2> QED
    BY <2>1, <2>2
<1>2. PICK c : c = [pcbs[i] EXCEPT !.idle = 0]
  OBVIOUS
<1>3. RecOk(c) /\ SameStream(c, pcbs[i])
  BY <1>1, <1>2, HeardOk
<1>4. PICK p : p = AckPart(c, s, est)
  OBVIOUS
<1>5. PICK a : a = p.conn
  OBVIOUS
<1>6. RecOk(a) /\ SameStream(a, pcbs[i]) /\ IsFiniteSet(p.out)
  <2>1. RecOk(a) /\ SameStream(a, c) /\ IsFiniteSet(p.out)
    BY <1>3, <1>4, <1>5, AckPartOk
  <2> QED
    BY <1>3, <2>1 DEF SameStream
<1>11. /\ a.peer = pcbs[i].peer /\ a.base = pcbs[i].base /\ a.got = pcbs[i].got
       /\ a.rcv = pcbs[i].rcv /\ a.wnd = pcbs[i].wnd /\ a.ooseq = pcbs[i].ooseq
       /\ a.st = "ESTABLISHED" /\ a.arg = TRUE
  BY <1>1, <1>6 DEF SameStream
<1>12. PICK m \in 1..Len(Units), k \in 1..Len(Units) :
          /\ a.peer \in Peers /\ InSeg(s) \in SegRec
          /\ TcpLen(InSeg(s)) = 0 \/ ArrivedData(s, m)
          /\ k <= cli[a.peer].inc /\ StreamOk(pcbs[i], k)
  BY <1>1, <1>11, StreamFound
<1>13. StreamOk(a, k)
  BY <1>11, <1>12, SameStreamOk
<1>14. PICK d, r : d = DataPart(a, s) /\ r = Answered(d)
  OBVIOUS
<1>15. /\ d.fin \in BOOLEAN /\ ConnOk(r.conn, cli) /\ IsFiniteSet(r.out)
       /\ d.fin => r.conn.st \in {"CLOSED", "LAST_ACK"}
       /\ ~d.fin => r.conn.st = "ESTABLISHED"
       /\ Len(r.conn.ooseq) \in Nat /\ Len(r.conn.ooseq) <= Len(a.ooseq) + 1
  BY <1>6, <1>11, <1>12, <1>13, <1>14, AnsweredOk
<1>16. PICK o, q : o = r.out \cup p.out /\ q = Out(r.conn, o)
  OBVIOUS
<1>160. q.conn = r.conn /\ q.out = o /\ IsFiniteSet(o)
  BY <1>6, <1>15, <1>16, OutIs, FS_Union
<1>161. /\ Done(i, q) /\ pending' = pending
        /\ heap' = heap - (IF d.fin THEN 1 ELSE 0) /\ leaked' = leaked
  BY <1>2, <1>4, <1>5, <1>14, <1>16 DEF RecvInEstablished, FreedByClose
<1>17. PICK f \in {0, 1} : f = Flag(r.conn.st = "ESTABLISHED")
  BY DEF Flag
<1>18. Flag(pcbs[i].st = "SYN_RCVD") = 0 /\ Flag(pcbs[i].st = "ESTABLISHED") = 1
       /\ Flag(r.conn.st = "SYN_RCVD") = 0
  BY <1>1, <1>15 DEF Flag
<1>19. pending \in Nat /\ heap \in Nat /\ Heap \in Nat /\ heap <= Heap
  BY InvFacts, LwipAssumption DEF LInv, CountersOk
<1>20. heap' = (heap - 1) + f
  <2>1. CASE d.fin
    <3>1. f = 0
      BY <1>15, <1>17, <2>1 DEF Flag
    <3> QED
      BY <1>161, <1>19, <2>1, <3>1
  <2>2. CASE ~d.fin
    <3>1. f = 1
      BY <1>15, <1>17, <2>2 DEF Flag
    <3> QED
      BY <1>161, <1>19, <2>2, <3>1
  <2> QED
    BY <2>1, <2>2
<1>21. pending' = (pending - 0) + 0 /\ heap' <= Heap
  BY <1>161, <1>19, <1>20
<1> QED
  BY <1>11, <1>15, <1>160, <1>161, <1>17, <1>18, <1>20, <1>21, BlockStep

(* A segment while the last ACK is awaited: its data is not taken. *)
LEMMA RecvInLastAckStep ==
  ASSUME LInv, Held < Pool, NEW s, NEW i \in Pcbs, i = Found(s), NEW est \in Rtos,
         RecvInLastAck(s, i, est)
  PROVE  LInv'
<1>1. RecOk(pcbs[i]) /\ pcbs[i].st = "LAST_ACK" /\ pcbs[i].st # "CLOSED"
  BY InvFacts DEF RecvInLastAck
<1>2. PICK p : p = AckPart(pcbs[i], s, est)
  OBVIOUS
<1>3. PICK a : a = p.conn
  OBVIOUS
<1>4. RecOk(a) /\ SameStream(a, pcbs[i]) /\ IsFiniteSet(p.out) /\ a.st = "LAST_ACK"
  <2>1. RecOk(a) /\ SameStream(a, pcbs[i]) /\ IsFiniteSet(p.out)
    BY <1>1, <1>2, <1>3, AckPartOk
  <2> QED
    BY <1>1, <2>1 DEF SameStream
<1>5. PICK d, r : d = DataPart(a, s) /\ r = Answered(d)
  OBVIOUS
<1>6. d.conn = a /\ d.fin = FALSE
  BY <1>4, <1>5 DEF DataPart
<1>7. RecOk(NotDelayed(a)) /\ SameStream(NotDelayed(a), pcbs[i])
  <2>1. RecOk(NotDelayed(a)) /\ SameStream(NotDelayed(a), a)
    BY <1>4, SetOk DEF NotDelayed
  <2> QED
    BY <1>4, <2>1 DEF SameStream
<1>8. RecOk(r.conn) /\ SameStream(r.conn, pcbs[i]) /\ IsFiniteSet(r.out)
  <2>1. r = IF d.now THEN Out(NotDelayed(a), {EmptyAck(a)}) ELSE Out(a, {})
    BY <1>5, <1>6 DEF Answered
  <2>2. CASE r = Out(NotDelayed(a), {EmptyAck(a)})
    <3>1. r.conn = NotDelayed(a) /\ r.out = {EmptyAck(a)}
      BY <2>2, OutIs
    <3> QED
      BY <1>7, <3>1, FewFinite
  <2>3. CASE r = Out(a, {})
    <3>1. r.conn = a /\ r.out = {}
      BY <2>3, OutIs
    <3> QED
      BY <1>4, <3>1, FewFinite
  <2> QED
    BY <2>1, <2>2, <2>3
<1>9. PICK o : o = r.out \cup p.out
  OBVIOUS
<1>10. IsFiniteSet(o)
  BY <1>4, <1>8, <1>9, FS_Union
<1>11. \/ Done(i, Out(Closed, {})) /\ Freed(i)
       \/ Answer(i, r.conn, o)
  BY <1>2, <1>3, <1>5, <1>9 DEF RecvInLastAck
<1>12. CASE Done(i, Out(Closed, {})) /\ Freed(i)
  BY <1>1, <1>12, FewFinite, FreedStep
<1>13. CASE Answer(i, r.conn, o)
  BY <1>1, <1>8, <1>10, <1>13, SameStep
<1> QED
  BY <1>11, <1>12, <1>13

(* A packet. *)
LEMMA InputStep ==
  ASSUME LInv, Input
  PROVE  LInv'
<1>1. Held < Pool
  BY DEF Input
<1>2. PICK s \in Arriving :
         \/ \E iss \in Iss : Listen(s, iss)
         \/ ListenRefused(s) \/ ListenReset(s)
         \/ \E i \in Pcbs :
              /\ i = Found(s)
              /\ \/ RecvRst(s, i) \/ RecvSyn(s, i)
                 \/ RecvInSynRcvdNoMem(s, i) \/ RecvInSynRcvdWrong(s, i)
                 \/ \E est \in Rtos :
                      RecvInSynRcvd(s, i, est) \/ RecvInEstablished(s, i, est)
                        \/ RecvInLastAck(s, i, est)
  BY DEF Input
<1>3. CASE \E iss \in Iss : Listen(s, iss)
  BY <1>1, <1>3, ListenStep
<1>4. CASE ListenRefused(s) \/ ListenReset(s)
  BY <1>4, ListenRefusedStep, ListenResetStep
<1>5. ASSUME NEW i \in Pcbs, i = Found(s),
             RecvRst(s, i) \/ RecvSyn(s, i) \/ RecvInSynRcvdNoMem(s, i) \/ RecvInSynRcvdWrong(s, i)
      PROVE  LInv'
  BY <1>1, <1>5, RecvRstStep, RecvSynStep, RecvInSynRcvdNoMemStep, RecvInSynRcvdWrongStep
<1>6. ASSUME NEW i \in Pcbs, i = Found(s), NEW est \in Rtos,
             RecvInSynRcvd(s, i, est) \/ RecvInEstablished(s, i, est) \/ RecvInLastAck(s, i, est)
      PROVE  LInv'
  BY <1>1, <1>6, RecvInSynRcvdStep, RecvInEstablishedStep, RecvInLastAckStep
<1> QED
  BY <1>2, <1>3, <1>4, <1>5, <1>6

(* A host's counter of connections never goes back. *)
LEMMA BecomesStep ==
  ASSUME LInv, NEW p \in Peers, NEW c, HostOk(c), cli[p].inc <= c.inc, Becomes(p, c),
         UNCHANGED server
  PROVE  LInv'
<1>1. cli' = [cli EXCEPT ![p] = c] /\ toCli' = toCli
  BY DEF Becomes
<1>2. cli = [q \in Peers |-> cli[q]] /\ \A q \in Peers : HostOk(cli[q])
  BY DEF LInv, HostsOk
<1>3. cli'[p] = c /\ \A q \in Peers : q # p => cli'[q] = cli[q]
  BY <1>1, <1>2
<1>4. cli' = [q \in Peers |-> cli'[q]]
  BY <1>1, <1>2
<1>5. HostsOk'
  BY <1>1, <1>2, <1>3, <1>4 DEF LInv, HostsOk
<1>6. \A q \in Peers, k \in 1..Len(Units) : k <= cli[q].inc => k <= cli'[q].inc
  <2>1. SUFFICES ASSUME NEW k \in 1..Len(Units), k <= cli[p].inc PROVE k <= c.inc
    BY <1>3
  <2>2. cli[p].inc \in Int /\ c.inc \in Int /\ k \in Int
    BY <1>2 DEF HostOk
  <2> QED
    BY <2>1, <2>2
<1>7. \A i \in Pcbs : ConnOk(pcbs[i], cli')
  <2>1. SUFFICES ASSUME NEW i \in Pcbs, NEW x, x = pcbs[i] PROVE ConnOk(x, cli')
    OBVIOUS
  <2>2. ConnOk(x, cli)
    BY <2>1 DEF LInv, BlocksOk
  <2> QED
    BY <1>6, <2>2 DEF ConnOk
<1>8. BlocksOk' /\ CountersOk'
  BY <1>7 DEF LInv, BlocksOk, CountersOk, HeldSet, Held, Within, server
<1> QED
  BY <1>5, <1>8 DEF LInv

(* A host's record with some fields changed. *)
LEMMA HostChanged ==
  ASSUME NEW c, HostOk(c)
  PROVE  /\ HostOk([c EXCEPT !.st = "CLOSED"]) /\ [c EXCEPT !.st = "CLOSED"].inc = c.inc
         /\ \A n \in Nat : HostOk([c EXCEPT !.nxt = n]) /\ [c EXCEPT !.nxt = n].inc = c.inc
         /\ \A n : HostOk([c EXCEPT !.rcv = n]) /\ [c EXCEPT !.rcv = n].inc = c.inc
         /\ \A m, n : /\ HostOk([c EXCEPT !.st = "OPEN", !.irs = m, !.rcv = n])
                      /\ [c EXCEPT !.st = "OPEN", !.irs = m, !.rcv = n].inc = c.inc
<1>1. PICK st, inc, nxt, irs, rcv, past :
        /\ c = [st |-> st, inc |-> inc, nxt |-> nxt, irs |-> irs, rcv |-> rcv, past |-> past]
        /\ st \in {"CLOSED", "SYN_SENT", "OPEN"} /\ inc \in 0..Len(Units) /\ nxt \in Nat
        /\ inc # 0 => PastOk(past, inc - 1)
  BY DEF HostOk
<1>2. [c EXCEPT !.st = "CLOSED"] =
        [st |-> "CLOSED", inc |-> inc, nxt |-> nxt, irs |-> irs, rcv |-> rcv, past |-> past]
  BY <1>1
<1>3. \A n : [c EXCEPT !.nxt = n] =
        [st |-> st, inc |-> inc, nxt |-> n, irs |-> irs, rcv |-> rcv, past |-> past]
  BY <1>1
<1>4. \A n : [c EXCEPT !.rcv = n] =
        [st |-> st, inc |-> inc, nxt |-> nxt, irs |-> irs, rcv |-> n, past |-> past]
  BY <1>1
<1>5. ASSUME NEW m, NEW n
      PROVE  [c EXCEPT !.st = "OPEN", !.irs = m, !.rcv = n] =
               [st |-> "OPEN", inc |-> inc, nxt |-> nxt, irs |-> m, rcv |-> n, past |-> past]
  <2>1. PICK d : d = [st |-> st, inc |-> inc, nxt |-> nxt, irs |-> irs, rcv |-> rcv, past |-> past]
    OBVIOUS
  <2>2. [d EXCEPT !.st = "OPEN"] =
          [st |-> "OPEN", inc |-> inc, nxt |-> nxt, irs |-> irs, rcv |-> rcv, past |-> past]
    BY ONLY <2>1
  <2>3. PICK e : e = [st |-> "OPEN", inc |-> inc, nxt |-> nxt, irs |-> irs, rcv |-> rcv, past |-> past]
    OBVIOUS
  <2>4. [e EXCEPT !.irs = m, !.rcv = n] =
          [st |-> "OPEN", inc |-> inc, nxt |-> nxt, irs |-> m, rcv |-> n, past |-> past]
    <3>1. PICK f : f = [st |-> "OPEN", inc |-> inc, nxt |-> nxt, irs |-> m, rcv |-> rcv, past |-> past]
      OBVIOUS
    <3>2. [e EXCEPT !.irs = m] = f
      BY ONLY <2>3, <3>1
    <3>3. [f EXCEPT !.rcv = n] =
            [st |-> "OPEN", inc |-> inc, nxt |-> nxt, irs |-> m, rcv |-> n, past |-> past]
      BY ONLY <3>1
    <3>4. [e EXCEPT !.irs = m, !.rcv = n] = [f EXCEPT !.rcv = n]
      BY ONLY <3>2
    <3> QED
      BY ONLY <3>3, <3>4
  <2>5. [c EXCEPT !.st = "OPEN", !.irs = m, !.rcv = n] = [e EXCEPT !.irs = m, !.rcv = n]
    BY <1>1, <2>1, <2>2, <2>3
  <2> QED
    BY <2>4, <2>5
<1>6. \A s \in {"CLOSED", "SYN_SENT", "OPEN"}, n \in Nat : \A x, y :
        HostOk([st |-> s, inc |-> inc, nxt |-> n, irs |-> x, rcv |-> y, past |-> past])
  BY <1>1 DEF HostOk
<1>7. c.inc = inc
  BY <1>1
<1>8. HostOk([c EXCEPT !.st = "CLOSED"]) /\ [c EXCEPT !.st = "CLOSED"].inc = c.inc
  BY <1>1, <1>2, <1>6, <1>7
<1>9. \A n \in Nat : HostOk([c EXCEPT !.nxt = n]) /\ [c EXCEPT !.nxt = n].inc = c.inc
  BY <1>1, <1>3, <1>6, <1>7
<1>10. \A n : HostOk([c EXCEPT !.rcv = n]) /\ [c EXCEPT !.rcv = n].inc = c.inc
  BY <1>1, <1>4, <1>6, <1>7
<1>11. ASSUME NEW m, NEW n
       PROVE  /\ HostOk([c EXCEPT !.st = "OPEN", !.irs = m, !.rcv = n])
              /\ [c EXCEPT !.st = "OPEN", !.irs = m, !.rcv = n].inc = c.inc
  <2>1. PICK d : d = [st |-> "OPEN", inc |-> inc, nxt |-> nxt, irs |-> m, rcv |-> n, past |-> past]
    OBVIOUS
  <2>2. HostOk(d) /\ d.inc = inc
    BY <1>1, <1>6, <2>1
  <2>3. [c EXCEPT !.st = "OPEN", !.irs = m, !.rcv = n] = d
    BY <1>5, <2>1
  <2> QED
    BY <1>7, <2>2, <2>3
<1> QED
  BY <1>8, <1>9, <1>10, <1>11

(* Whatever a host does, or the network loses, the server's blocks stay what *)
(* they were: a host only ever opens a newer connection.                     *)
LEMMA OutsideStep ==
  ASSUME LInv, Outside
  PROVE  LInv'
<1>1. UNCHANGED server /\ (Host \/ Lose)
  BY DEF Outside
<1>2. ASSUME NEW p \in Peers
      PROVE  HostOk(cli[p]) /\ cli[p].inc <= cli[p].inc
  BY DEF LInv, HostsOk, HostOk
<1>3. ASSUME NEW p \in Peers, Connect(p) PROVE LInv'
  <2>1. PICK j \in 0..Len(Units) : j = cli[p].inc
    BY <1>2 DEF HostOk
  <2>2. Len(Units) \in Nat
    BY HostsAssumption
  <2>3. j < Len(Units) /\ j + 1 \in 1..Len(Units)
    BY <1>3, <2>1, <2>2 DEF Connect
  <2>4. PICK k \in 1..Len(Units) : k = j + 1
    BY <2>3
  <2>5. k * Gap \in Nat
    BY FinOfNat
  <2>6. PICK n \in Nat : n = k * Gap + 1
    BY <2>5
  <2>70. PICK past : past = IF cli[p].inc = 0 THEN <<>> ELSE Append(cli[p].past, Far(cli[p]))
    OBVIOUS
  <2>7. PICK c : c = [NoClient EXCEPT !.st = "SYN_SENT", !.inc = k, !.nxt = n, !.past = past]
    OBVIOUS
  <2>8. Becomes(p, c)
    <3>1. Becomes(p, [NoClient EXCEPT !.st = "SYN_SENT", !.inc = cli[p].inc + 1,
                                      !.nxt = (cli[p].inc + 1) * Gap + 1,
                                      !.past = IF cli[p].inc = 0 THEN <<>>
                                               ELSE Append(cli[p].past, Far(cli[p]))])
      BY <1>3 DEF Connect
    <3>2. cli[p].inc + 1 = k
      BY <2>1, <2>4
    <3> QED
      BY <2>6, <2>70, <2>7, <3>1, <3>2
  <2>9. c = [st |-> "SYN_SENT", inc |-> k, nxt |-> n, irs |-> 0, rcv |-> 0, past |-> past]
    BY <2>7 DEF NoClient
  <2>12. PastOk(past, k - 1)
    <3>1. k - 1 = j
      BY <2>1, <2>4
    <3>2. CASE j = 0
      <4>1. past = <<>>
        BY <2>1, <2>70, <3>2
      <4>0. PICK S : S = {}
        OBVIOUS
      <4>2. past \in Seq(S) /\ Len(past) = 0 /\ \A f \in S : f.nxt \in Nat
        BY <4>0, <4>1
      <4>3. PastOk(past, 0)
        BY <4>2 DEF PastOk
      <4> QED
        BY <3>1, <3>2, <4>3
    <3>3. CASE j # 0
      <4>1. PICK h : h = Far(cli[p])
        OBVIOUS
      <4>2. h.nxt \in Nat
        BY <1>2, <4>1 DEF HostOk, Far
      <4>3. PastOk(cli[p].past, j - 1)
        BY <1>2, <2>1, <3>3 DEF HostOk
      <4>4. PICK q : q = cli[p].past
        OBVIOUS
      <4>5. PICK S : q \in Seq(S) /\ Len(q) = j - 1 /\ \A f \in S : f.nxt \in Nat
        BY <4>3, <4>4 DEF PastOk
      <4>6. PICK T : T = S \cup {h}
        OBVIOUS
      <4>7. q \in Seq(T) /\ h \in T /\ \A f \in T : f.nxt \in Nat
        BY <4>2, <4>5, <4>6
      <4>8. past = Append(q, h)
        BY <2>1, <2>70, <3>3, <4>1, <4>4
      <4>9. past \in Seq(T) /\ Len(past) = j
        BY <4>5, <4>7, <4>8
      <4>10. PastOk(past, j)
        BY <4>7, <4>9 DEF PastOk
      <4> QED
        BY <3>1, <4>10
    <3> QED
      BY <3>2, <3>3
  <2>10. HostOk(c) /\ c.inc = k
    <3>1. k \in 0..Len(Units)
      BY <2>2
    <3> QED
      BY <2>9, <2>12, <3>1 DEF HostOk
  <2>11. cli[p].inc <= c.inc
    BY <2>1, <2>2, <2>4, <2>10
  <2> QED
    BY <1>1, <2>8, <2>10, <2>11, BecomesStep
<1>4. ASSUME NEW p \in Peers, SendNext(p) PROVE LInv'
  <2>1. PICK c, n : c = cli[p] /\ n = cli[p].nxt + 1
    OBVIOUS
  <2>2. HostOk(c) /\ c.inc <= c.inc
    BY <1>2, <2>1
  <2>3. n \in Nat
    BY <2>1, <2>2 DEF HostOk
  <2>4. Becomes(p, [c EXCEPT !.nxt = n])
    BY <1>4, <2>1 DEF SendNext
  <2>5. HostOk([c EXCEPT !.nxt = n]) /\ [c EXCEPT !.nxt = n].inc = c.inc
    BY <2>2, <2>3, HostChanged
  <2> QED
    BY <1>1, <2>1, <2>2, <2>4, <2>5, BecomesStep
<1>5. ASSUME NEW p \in Peers, Abort(p) PROVE LInv'
  <2>1. Becomes(p, [cli[p] EXCEPT !.st = "CLOSED"])
    BY <1>5 DEF Abort
  <2> QED
    BY <1>1, <1>2, <2>1, HostChanged, BecomesStep
<1>6. ASSUME NEW s \in toCli, s.peer \in Peers, ClientRecv(s) PROVE LInv'
  <2>1. PICK p \in Peers : p = s.peer
    BY <1>6
  <2>2. PICK c : c = cli[p]
    OBVIOUS
  <2>3. HostOk(c) /\ c.inc <= c.inc
    BY <1>2, <2>2
  <2>4. ASSUME NEW d, Becomes(p, d), HostOk(d), d.inc = c.inc PROVE LInv'
    BY <1>1, <2>2, <2>3, <2>4, BecomesStep
  <2>5. CASE Becomes(p, [c EXCEPT !.st = "OPEN", !.irs = s.seq, !.rcv = s.seq + 1])
    BY <2>3, <2>4, <2>5, HostChanged
  <2>6. CASE Becomes(p, [c EXCEPT !.st = "CLOSED"])
    BY <2>3, <2>4, <2>6, HostChanged
  <2>7. ASSUME NEW n, Becomes(p, [c EXCEPT !.rcv = n]) PROVE LInv'
    BY <2>3, <2>4, <2>7, HostChanged
  <2> QED
    <3>1. PICK fin : fin = IF s.flags = "FIN|ACK" THEN 1 ELSE 0
      OBVIOUS
    <3>2. \/ Becomes(p, [c EXCEPT !.st = "OPEN", !.irs = s.seq, !.rcv = s.seq + 1])
          \/ Becomes(p, [c EXCEPT !.st = "CLOSED"])
          \/ Becomes(p, [c EXCEPT !.rcv = @ + Len(s.data) + fin])
      BY <1>6, <2>1, <2>2, <3>1, Zenon DEF ClientRecv
    <3>3. PICK n : n = c.rcv + Len(s.data) + fin
      OBVIOUS
    <3>4. [c EXCEPT !.rcv = @ + Len(s.data) + fin] = [c EXCEPT !.rcv = n]
      BY <3>3
    <3> QED
      BY <2>5, <2>6, <2>7, <3>2, <3>4
<1>7. ASSUME Lose PROVE LInv'
  <2>1. PICK s : toCli' = toCli \ {s} /\ cli' = cli
    BY <1>7 DEF Lose
  <2>2. IsFiniteSet(toCli) /\ Cardinality(toCli) <= Wire
    BY DEF LInv, HostsOk
  <2>3. toCli' \in SUBSET toCli
    BY <2>1
  <2>4. IsFiniteSet(toCli') /\ Cardinality(toCli') <= Cardinality(toCli)
    BY <2>2, <2>3, FS_Subset
  <2>5. Cardinality(toCli') \in Nat /\ Cardinality(toCli) \in Nat /\ Wire \in Nat
    BY <2>2, <2>4, FS_CardinalityType, HostsAssumption
  <2>6. Cardinality(toCli') <= Wire
    BY <2>2, <2>4, <2>5
  <2>7. HostsOk'
    BY <2>1, <2>4, <2>6 DEF LInv, HostsOk
  <2>8. BlocksOk' /\ CountersOk'
    BY <1>1, <2>1 DEF LInv, BlocksOk, CountersOk, HeldSet, Held, Within, server
  <2> QED
    BY <2>7, <2>8 DEF LInv
<1> QED
  BY <1>1, <1>3, <1>4, <1>5, <1>6, <1>7 DEF Host

(* What tcp_tmr makes of one block. *)
Ticked(c) ==
  IF odd THEN Fast(c)
  ELSE Out(Slow(Fast(c).conn).conn, Fast(c).out \cup Slow(Fast(c).conn).out)

(* Whichever of the two timers tcp_tmr calls, a block stays sound. *)
LEMMA TickedOk ==
  ASSUME NEW c, NEW hosts, ConnOk(c, hosts)
  PROVE  TimerOk(Ticked(c), c, hosts)
<1>1. PICK f : f = Fast(c)
  OBVIOUS
<1>2. TimerOk(f, c, hosts)
  BY <1>1, FastOk
<1>3. CASE odd
  BY <1>1, <1>2, <1>3 DEF Ticked
<1>4. CASE ~odd
  <2>1. PICK s : s = Slow(f.conn)
    OBVIOUS
  <2>2. TimerOk(s, f.conn, hosts)
    BY <1>2, <2>1, SlowOk DEF TimerOk
  <2>3. PICK t : t = Ticked(c)
    OBVIOUS
  <2>4. t.conn = s.conn /\ t.out = f.out \cup s.out
    BY <1>1, <1>4, <2>1, <2>3, OutIs DEF Ticked
  <2>5. IsFiniteSet(t.out)
    BY <1>2, <2>2, <2>4, FS_Union DEF TimerOk
  <2>6. t.conn.st \in {c.st, "CLOSED"}
    BY <1>2, <2>2, <2>4 DEF TimerOk
  <2>7. Len(c.ooseq) \in Nat
    BY DEF ConnOk, RecOk, PcbRec
  <2>8. Len(t.conn.ooseq) \in Nat /\ Len(t.conn.ooseq) <= Len(c.ooseq)
    BY <1>2, <2>2, <2>4, <2>7 DEF TimerOk
  <2> QED
    BY <2>2, <2>3, <2>4, <2>5, <2>6, <2>8 DEF TimerOk
<1> QED
  BY <1>3, <1>4

(* A union of finitely many finite sets, given by a function. *)
LEMMA UnionFinite ==
  ASSUME NEW S, IsFiniteSet(S), NEW f, f = [i \in S |-> f[i]],
         \A i \in S : IsFiniteSet(f[i])
  PROVE  IsFiniteSet(UNION {f[i] : i \in S})
<1>1. PICK T : T = {f[i] : i \in S}
  OBVIOUS
<1>2. f \in Surjection(S, T)
  <2>1. f \in [S -> T]
    BY <1>1
  <2>2. \A t \in T : \E i \in S : f[i] = t
    BY <1>1
  <2> QED
    BY <2>1, <2>2 DEF Surjection
<1>3. IsFiniteSet(T)
  BY <1>2, FS_Surjection
<1>4. \A t \in T : IsFiniteSet(t)
  BY <1>1
<1>5. IsFiniteSet(UNION T)
  BY <1>3, <1>4, FS_UNION
<1> QED
  BY <1>1, <1>5

(* tcp_tmr closes connections and shortens queues; what it closes is taken   *)
(* off the counters.                                                         *)
LEMMA TmrStep ==
  ASSUME LInv, Tmr
  PROVE  LInv'
<1>1. PICK R : R = [i \in Pcbs |-> Ticked(pcbs[i])]
  OBVIOUS
<1>2. PICK gone : gone = {i \in Pcbs : pcbs[i].st # "CLOSED" /\ R[i].conn.st = "CLOSED"}
  OBVIOUS
<1>3. /\ pcbs' = [i \in Pcbs |-> R[i].conn]
      /\ ToCli(UNION {R[i].out : i \in Pcbs})
      /\ pending' = pending - Cardinality(gone \cap Within("SYN_RCVD"))
      /\ heap' = heap - Cardinality({i \in gone : pcbs[i].arg})
      /\ odd' = ~odd /\ leaked' = leaked
  BY <1>1, <1>2 DEF Tmr, Ticked
<1>4. \A i \in Pcbs : TimerOk(R[i], pcbs[i], cli)
  BY <1>1, TickedOk, InvFacts
<1>5. PICK f : f = [i \in Pcbs |-> R[i].out]
  OBVIOUS
<1>6. IsFiniteSet(UNION {R[i].out : i \in Pcbs})
  <2>1. f = [i \in Pcbs |-> f[i]] /\ \A i \in Pcbs : IsFiniteSet(f[i])
    BY <1>4, <1>5 DEF TimerOk
  <2>2. IsFiniteSet(UNION {f[i] : i \in Pcbs})
    BY <2>1, UnionFinite, LwipAssumption
  <2>3. {f[i] : i \in Pcbs} = {R[i].out : i \in Pcbs}
    BY <1>5
  <2> QED
    BY <2>2, <2>3
<1>7. HostsOk' /\ cli' = cli
  BY <1>3, <1>6, ToCliOk DEF LInv
<1>8. \A i \in Pcbs : /\ pcbs'[i] = R[i].conn /\ ConnOk(pcbs'[i], cli')
                      /\ pcbs'[i].st \in {pcbs[i].st, "CLOSED"}
                      /\ Len(pcbs'[i].ooseq) \in Nat
                      /\ Len(pcbs'[i].ooseq) <= Len(pcbs[i].ooseq)
  BY <1>3, <1>4, <1>7 DEF TimerOk
<1>9. BlocksOk'
  <2>1. pcbs' = [i \in Pcbs |-> pcbs'[i]]
    BY <1>3
  <2>2. ASSUME NEW x \in HeldSet' PROVE x \in HeldSet
    <3>0. PICK i \in Pcbs : x \in {i} \X (1..Len(pcbs'[i].ooseq))
      BY <2>2 DEF HeldSet
    <3>1. PICK k \in 1..Len(pcbs'[i].ooseq) : x = <<i, k>>
      BY <3>0
    <3>2. Len(pcbs[i].ooseq) \in Nat
      BY InvFacts
    <3>3. k \in 1..Len(pcbs[i].ooseq)
      BY <1>8, <3>2
    <3>4. x \in {i} \X (1..Len(pcbs[i].ooseq))
      BY <3>1, <3>3
    <3> QED
      BY <3>4 DEF HeldSet
  <2>3. PICK S, T : S = HeldSet /\ T = HeldSet'
    OBVIOUS
  <2>4. IsFiniteSet(S) /\ Cardinality(S) <= Pool /\ T \in SUBSET S
    BY <2>2, <2>3 DEF LInv, BlocksOk, Held, HeldSet
  <2>5. IsFiniteSet(T) /\ Cardinality(T) <= Cardinality(S)
    BY <2>4, FS_Subset
  <2>6. Cardinality(S) \in Nat /\ Cardinality(T) \in Nat
    BY <2>4, <2>5, FS_CardinalityType
  <2>7. Cardinality(T) <= Pool
    BY <2>4, <2>5, <2>6, LwipAssumption
  <2>8. IsFiniteSet(HeldSet)' /\ Held' <= Pool
    BY <2>3, <2>5, <2>7 DEF Held, HeldSet
  <2> QED
    BY <1>8, <2>1, <2>8 DEF BlocksOk
<1>10. ASSUME NEW st, st # "CLOSED"
       PROVE  /\ Cardinality(Within(st)') \in Nat
              /\ Cardinality(Within(st)') = Cardinality(Within(st)) - Cardinality(gone \cap Within(st))
  <2>1. PICK W, V : W = Within(st) /\ V = Within(st)'
    OBVIOUS
  <2>2. V = W \ gone
    BY <1>2, <1>8, <1>10, <2>1 DEF Within
  <2>3. IsFiniteSet(W)
    BY <2>1, WithinFinite
  <2>4. IsFiniteSet(V) /\ Cardinality(V) = Cardinality(W) - Cardinality(W \cap gone)
    BY <2>2, <2>3, FS_Difference
  <2>5. W \cap gone = gone \cap W /\ Cardinality(V) \in Nat
    BY <2>4, FS_CardinalityType
  <2> QED
    BY <2>1, <2>4, <2>5
<1>11. pending' = Cardinality(Within("SYN_RCVD")')
  BY <1>3, <1>10 DEF LInv, CountersOk
<1>12. {i \in gone : pcbs[i].arg} = gone \cap Within("ESTABLISHED")
  <2>1. \A i \in Pcbs : pcbs[i].arg <=> pcbs[i].st = "ESTABLISHED"
    BY InvFacts
  <2>2. gone \in SUBSET Pcbs
    BY <1>2
  <2> QED
    BY <2>1, <2>2 DEF Within
<1>13. heap' = Cardinality(Within("ESTABLISHED")') + leaked' /\ heap' <= Heap
  <2>1. PICK E \in Nat, F \in Nat, l \in Nat :
          E = Cardinality(Within("ESTABLISHED")) /\ F = Cardinality(Within("ESTABLISHED")') /\ l = leaked
    BY <1>10, WithinFinite, InvFacts
  <2>2. IsFiniteSet(gone \cap Within("ESTABLISHED"))
    BY WithinFinite, FS_Intersection
  <2>3. PICK g \in Nat : g = Cardinality(gone \cap Within("ESTABLISHED"))
    BY <2>2, FS_CardinalityType
  <2>4. F = E - g
    BY <1>10, <2>1, <2>3
  <2>5. heap = E + l /\ heap <= Heap /\ Heap \in Nat
    BY <2>1, LwipAssumption DEF LInv, CountersOk
  <2>6. heap' = heap - g
    BY <1>3, <1>12, <2>3
  <2>7. heap' = F + l /\ heap' <= Heap
    BY <2>4, <2>5, <2>6
  <2> QED
    BY <1>3, <2>1, <2>7
<1>14. CountersOk'
  BY <1>3, <1>11, <1>13 DEF LInv, CountersOk
<1> QED
  BY <1>7, <1>9, <1>14 DEF LInv

-----------------------------------------------------------------------------
(* The invariant holds when the server starts. *)
LEMMA StartOk == Init => LInv
<1>1. SUFFICES ASSUME Init PROVE LInv
  OBVIOUS
<1>2. /\ pcbs = [i \in Pcbs |-> Closed] /\ pending = 0 /\ heap = 0 /\ leaked = 0 /\ odd = FALSE
      /\ cli = [p \in Peers |-> NoClient] /\ toCli = {}
  BY <1>1 DEF Init, HostsInit
<1>3. /\ Closed.st = "CLOSED" /\ Closed.ooseq = <<>>
  BY DEF Closed
<1>4. Cardinality({}) = 0 /\ IsFiniteSet({})
  BY FS_EmptySet
<1>5. BlocksOk
  <2>1. \A i \in Pcbs : ConnOk(pcbs[i], cli)
    BY <1>2, ClosedOk
  <2>2. HeldSet = {}
    <3>1. \A i \in Pcbs : Len(pcbs[i].ooseq) = 0
      BY <1>2, <1>3
    <3>2. \A i \in Pcbs : 1..Len(pcbs[i].ooseq) = {}
      BY <3>1
    <3> QED
      BY <3>2 DEF HeldSet
  <2>3. Held = 0
    BY <1>4, <2>2 DEF Held, HeldSet
  <2> QED
    BY <1>2, <1>4, <2>1, <2>2, <2>3, LwipAssumption DEF BlocksOk
<1>6. CountersOk
  <2>1. Within("SYN_RCVD") = {} /\ Within("ESTABLISHED") = {}
    BY <1>2, <1>3 DEF Within
  <2>2. Cardinality(Within("SYN_RCVD")) = 0 /\ Cardinality(Within("ESTABLISHED")) = 0
    BY <1>4, <2>1
  <2>3. 0 = 0 + leaked /\ leaked \in Nat /\ 0 <= Heap
    BY <1>2, LwipAssumption
  <2>4. odd \in BOOLEAN
    BY <1>2
  <2> QED
    BY <1>2, <2>2, <2>3, <2>4 DEF CountersOk
<1>7. HostsOk
  <2>1. Len(Units) \in Nat /\ Wire \in Nat
    BY HostsAssumption
  <2>2. HostOk(NoClient)
    BY <2>1 DEF HostOk, NoClient
  <2> QED
    BY <1>2, <1>4, <2>1, <2>2 DEF HostsOk
<1> QED
  BY <1>5, <1>6, <1>7 DEF LInv

(* Every step of the server, the hosts and the network keeps the            *)
(* invariant.                                                               *)
LEMMA StepOk == LInv /\ [Next]_vars => LInv'
<1>1. SUFFICES ASSUME LInv, [Next]_vars PROVE LInv'
  OBVIOUS
<1>2. CASE Input
  BY <1>1, <1>2, InputStep
<1>3. CASE Tmr
  BY <1>1, <1>3, TmrStep
<1>4. CASE Outside
  BY <1>1, <1>4, OutsideStep
<1>5. CASE UNCHANGED vars
  <2>1. /\ pcbs' = pcbs /\ pending' = pending /\ heap' = heap /\ leaked' = leaked
        /\ odd' = odd /\ cli' = cli /\ toCli' = toCli
    BY <1>5 DEF vars
  <2> QED
    BY <1>1, <2>1 DEF LInv, BlocksOk, CountersOk, HostsOk, HeldSet, Held, Within
<1> QED
  BY <1>1, <1>2, <1>3, <1>4, <1>5 DEF Next

(* The inductive invariant holds always. *)
THEOREM InvHolds == Spec => []LInv
BY StartOk, StepOk, PTL DEF Spec

(* The fields keep their ranges; the queues together never hold more        *)
(* buffers than the pool has, and the window never leaves 0..TCP_WND.       *)
THEOREM TypeCorrect == Spec => []TypeOK
<1>1. LInv => TypeOK
  <2> SUFFICES ASSUME LInv PROVE TypeOK
    OBVIOUS
  <2>1. ASSUME NEW i \in Pcbs
        PROVE  /\ pcbs[i].st \in {"CLOSED", "SYN_RCVD", "ESTABLISHED", "LAST_ACK"}
               /\ pcbs[i].peer \in AllHosts
               /\ pcbs[i].wnd \in 0..Wnd /\ pcbs[i].idle \in 0..IdleMax
               /\ pcbs[i].rtime \in -1..pcbs[i].rto - 1 /\ pcbs[i].nrtx \in 0..MaxRtx
               /\ pcbs[i].delay \in BOOLEAN /\ pcbs[i].arg \in BOOLEAN
    <3>1. PICK c : c = pcbs[i]
      OBVIOUS
    <3>2. ConnOk(c, cli) /\ c \in PcbRec /\ RecOk(c)
      BY <3>1, InvFacts
    <3>3. c.wnd \in 0..Wnd
      <4>1. CASE c.st = "CLOSED"
        <5>1. Closed.wnd = Wnd
          BY DEF Closed
        <5> QED
          BY <3>2, <4>1, <5>1, LwipAssumption DEF ConnOk
      <4>2. CASE c.st # "CLOSED"
        <5>1. PICK f \in {0, 1} : f = Flag(c.st = "LAST_ACK")
          BY DEF Flag
        <5>2. Stream(c, c.base, f, c.base + Wnd + f)
          BY <3>2, <4>2, <5>1 DEF ConnOk
        <5>3. /\ c.rcv \in Int /\ c.wnd \in Int /\ c.base \in Int /\ Wnd \in Nat
              /\ Len(c.got) \in Nat
          BY <3>2, LwipAssumption DEF PcbRec
        <5> QED
          BY <5>2, <5>3 DEF Stream
      <4> QED
        BY <4>1, <4>2
    <3> QED
      BY <3>1, <3>2, <3>3 DEF RecOk, PcbRec, States
  <2>2. heap \in 0..Heap /\ pending \in Nat /\ odd \in BOOLEAN /\ Held <= Pool
    BY InvFacts, LwipAssumption DEF LInv, BlocksOk, CountersOk
  <2>3. HostsTypeOK
    BY DEF LInv, HostsOk, HostOk, HostsTypeOK
  <2> QED
    BY <2>1, <2>2, <2>3 DEF TypeOK
<1> QED
  BY <1>1, InvHolds, PTL

(* Whatever is lost, duplicated, cut differently or reordered, echo_recv    *)
(* is given the bytes of the stream in order and each once                  *)
(* (tcp_receive), for any number of hosts, blocks and connections.          *)
THEOREM StreamHolds == Spec => []StreamIntact
<1>1. LInv => StreamIntact
  <2> SUFFICES ASSUME LInv, NEW i \in Pcbs, NEW c, c = pcbs[i], c.st # "CLOSED"
               PROVE  /\ \A k \in 1..Len(c.got) : c.got[k] = c.base + k - 1
                      /\ c.rcv = c.base + Len(c.got) + (IF c.st = "LAST_ACK" THEN 1 ELSE 0)
                      /\ c.wnd = Wnd - Len(c.got)
    BY DEF StreamIntact
  <2>1. ConnOk(c, cli) /\ c \in PcbRec
    BY InvFacts
  <2>2. PICK f \in {0, 1} : /\ f = Flag(c.st = "LAST_ACK")
                            /\ f = IF c.st = "LAST_ACK" THEN 1 ELSE 0
    BY DEF Flag
  <2>3. Stream(c, c.base, f, c.base + Wnd + f)
    BY <2>1, <2>2 DEF ConnOk
  <2>4. PICK r \in Int, w \in Int, b \in Int, n \in Nat :
          r = c.rcv /\ w = c.wnd /\ b = c.base /\ n = Len(c.got)
    <3>1. c.got \in Seq(Nat)
      BY <2>1, Zenon DEF PcbRec
    <3>2. c.rcv \in Int /\ c.wnd \in Int /\ c.base \in Int
      BY <2>1 DEF PcbRec
    <3>3. Len(c.got) \in Nat
      BY <3>1
    <3> QED
      BY <3>2, <3>3
  <2>5. \A k \in 1..Len(c.got) : c.got[k] = c.base + k - 1
    BY <2>3 DEF Stream
  <2>6. c.rcv = c.base + Len(c.got) + f /\ c.wnd = Wnd - Len(c.got)
    <3>1. r = b + n + f /\ r + w = b + Wnd + f
      BY <2>3, <2>4 DEF Stream
    <3>2. Wnd \in Nat
      BY LwipAssumption
    <3>3. w = Wnd - n
      BY <3>1, <3>2
    <3> QED
      BY <2>4, <3>1, <3>3
  <2> QED
    BY <2>2, <2>5, <2>6
<1> QED
  BY <1>1, InvHolds, PTL

(* The queue of early segments that tcp_receive and                         *)
(* tcp_oos_insert_segment keep lies in the window behind rcv_nxt,           *)
(* sorted, without overlaps, each byte at its number, nothing after a       *)
(* FIN.                                                                     *)
THEOREM OoseqHolds == Spec => []OoseqSound
<1>1. LInv => OoseqSound
  <2> SUFFICES ASSUME LInv, NEW i \in Pcbs, NEW c, c = pcbs[i], NEW q, q = c.ooseq,
                      NEW k \in 1..Len(q)
               PROVE  /\ c.st = "ESTABLISHED" /\ q[k].seq > c.rcv /\ TcpLen(q[k]) > 0
                      /\ q[k].seq + TcpLen(q[k]) <= c.rcv + c.wnd
                      /\ \A j \in 1..Len(q[k].data) : q[k].data[j] = q[k].seq + j - 1
                      /\ k < Len(q) => q[k].fin = 0 /\ DataEnd(q[k]) <= q[k + 1].seq
    BY DEF OoseqSound
  <2>1. ConnOk(c, cli) /\ c \in PcbRec /\ Len(q) \in Nat
    BY InvFacts
  <2>2. q # <<>>
    BY <2>1
  <2>3. c.st = "ESTABLISHED" /\ c.peer \in Peers
    BY <2>1, <2>2 DEF ConnOk
  <2>4. PICK m \in 1..Len(Units) : QueueOk(q, FinOf(m)) /\ Inside(q, c.rcv, c.base + Wnd)
    BY <2>1, <2>3 DEF ConnOk
  <2>5. c.rcv + c.wnd = c.base + Wnd
    <3>1. Flag(c.st = "LAST_ACK") = 0
      BY <2>3 DEF Flag
    <3>2. Stream(c, c.base, 0, c.base + Wnd + 0)
      BY <2>1, <2>3, <3>1 DEF ConnOk
    <3>3. c.base \in Nat /\ Wnd \in Nat
      BY <2>1, LwipAssumption DEF PcbRec
    <3>4. c.base + Wnd + 0 = c.base + Wnd
      BY <3>3
    <3> QED
      BY <3>2, <3>4 DEF Stream
  <2>6. SegOk(q[k], FinOf(m)) /\ TcpLen(q[k]) > 0
    BY <2>4 DEF QueueOk
  <2>7. q[k].seq > c.rcv /\ End(q[k]) <= c.base + Wnd
    BY <2>4 DEF Inside
  <2>8. \A j \in 1..Len(q[k].data) : q[k].data[j] = q[k].seq + j - 1
    BY <2>6 DEF SegOk
  <2>9. k < Len(q) => q[k].fin = 0 /\ DataEnd(q[k]) <= q[k + 1].seq
    <3>1. SUFFICES ASSUME k < Len(q) PROVE q[k].fin = 0 /\ DataEnd(q[k]) <= q[k + 1].seq
      OBVIOUS
    <3>2. k + 1 \in 1..Len(q) /\ k < k + 1
      BY <2>1, <3>1
    <3> QED
      BY <2>4, <3>2 DEF QueueOk
  <2>10. q[k].seq + TcpLen(q[k]) <= c.rcv + c.wnd
    BY <2>5, <2>7 DEF End
  <2> QED
    BY <2>3, <2>6, <2>7, <2>8, <2>9, <2>10
<1> QED
  BY <1>1, InvHolds, PTL

(* accepts_pending counts the connections being opened, and every           *)
(* echo_state belongs to an open connection or was allocated for none.      *)
THEOREM AccountedHolds == Spec => []Accounted
<1>1. LInv => Accounted
  BY InvFacts DEF LInv, CountersOk, Accounted
<1> QED
  BY <1>1, InvHolds, PTL
=============================================================================
