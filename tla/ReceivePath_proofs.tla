------------------------- MODULE ReceivePath_proofs -------------------------
(***************************************************************************)
(* Proofs about ReceivePath, for every length of preamble, gap and frames, *)
(* every size of words, packets and FIFOs that Sizes allows: first from    *)
(* the line to the frames without preamble (RecvInv), then the bytes       *)
(* themselves (WordsInv, PipeInv), and the words and packets made of them  *)
(* (AccuInv, FifoInv, ReadInv, RoomInv), which come out in the order of    *)
(* the bytes on the line (StreamsInv).                                     *)
(***************************************************************************)
EXTENDS ReceivePath, FiniteSets, FunctionTheorems, FiniteSetTheorems, SequenceTheorems, TLAPS

Words == [bit8 : BOOLEAN, data : Nat \X Nat]

(* What a word of asfifo_recv_data is: a byte of a preamble, its 0xd5, a    *)
(* byte of a frame or a separator.                                          *)
Kind(w) ==
  IF ~w.bit8 THEN "sep"
  ELSE IF w.data = A!XD5 THEN "xd5"
  ELSE IF w.data = A!X55 THEN "x55"
  ELSE "byte"

(* The words that may stand behind a word. *)
Behind(kind) ==
  IF kind = "x55" THEN {"x55", "xd5"}
  ELSE IF kind = "xd5" THEN {"byte"}
  ELSE IF kind = "byte" THEN {"byte", "sep"}
  ELSE {"x55"}

Follows(v, w) == Kind(w) \in Behind(Kind(v))

(* What the line carries in the k-th clock of a frame. *)
KindAt(k) == IF k < Preamble THEN "x55" ELSE IF k = Preamble THEN "xd5" ELSE "byte"

(* Clocks of the frame on the line, its preamble included. *)
Total == Preamble + lens[Len(lens)]

Ranges ==
  /\ lens \in Seq(Lengths) /\ left \in Nat /\ idle \in Nat
  /\ tempDv \in BOOLEAN /\ wrenRecv \in BOOLEAN /\ dinRecv \in Words
  /\ asFifo \in Seq(Words) /\ late \in BOOLEAN /\ rdenRecv \in BOOLEAN
  /\ left > 0 => lens # << >> /\ left <= Total

(* din_recv_fifo_9b is the word written last; a separator comes alone, with *)
(* the line still idle.                                                     *)
WriterInv ==
  /\ tempDv => wrenRecv /\ dinRecv.bit8
  /\ ~tempDv => ~dinRecv.bit8
  /\ ~tempDv /\ wrenRecv => left = 0
  /\ ~tempDv /\ left > 0 => left = Total
  /\ tempDv /\ left = 0 => idle = 0 /\ Kind(dinRecv) = "byte"
  /\ tempDv /\ left > 0 => left < Total /\ Kind(dinRecv) = KindAt(Total - left)

(* The FIFO holds three consecutive words of the stream at most. *)
StreamInv ==
  /\ Len(asFifo) <= 3
  /\ \A k \in 1 .. Len(asFifo) - 1 : Follows(asFifo[k], asFifo[k + 1])
  /\ asFifo # << >> =>
       IF wrenRecv THEN Follows(asFifo[Len(asFifo)], dinRecv) ELSE asFifo[Len(asFifo)] = dinRecv
  /\ Len(asFifo) = 3 =>
       /\ Kind(asFifo[1]) # "sep" /\ Kind(asFifo[2]) # "sep"
       /\ Kind(asFifo[3]) = "sep" => ~wrenRecv

(* Inside a frame the reader has two words, or its separator. *)
ReaderInv ==
  /\ late => asFifo # << >>
  /\ \/ /\ stateRd = "IDLE"
        /\ Len(asFifo) <= 2
        /\ asFifo # << >> => ~rdenRecv /\ Kind(asFifo[1]) = "x55"
        /\ asFifo = << >> /\ wrenRecv => Kind(dinRecv) = "x55"
     \/ /\ stateRd = "DISCARD_PKT_HEAD"
        /\ rdenRecv /\ Len(asFifo) >= 2
        /\ Kind(asFifo[1]) \in {"x55", "xd5"}
     \/ /\ stateRd = "WAIT_TAIL"
        /\ rdenRecv /\ asFifo # << >>
        /\ Kind(asFifo[1]) \in {"byte", "sep"}
        /\ Len(asFifo) = 1 => ~late /\ Kind(asFifo[1]) = "sep"

RecvInv == Ranges /\ WriterInv /\ StreamInv /\ ReaderInv
-----------------------------------------------------------------------------
(* The words of a FIFO after a pop and a push. *)
LEMMA Shifted ==
  ASSUME NEW S, NEW q \in Seq(S), NEW w \in S, NEW pop \in BOOLEAN, NEW push \in BOOLEAN,
         pop => q # << >>,
         NEW rest, rest = IF pop THEN Tail(q) ELSE q,
         NEW r, r = IF push THEN Append(rest, w) ELSE rest
  PROVE  /\ r \in Seq(S)
         /\ pop /\ push => Len(r) = Len(q)
         /\ pop /\ ~push => Len(r) = Len(q) - 1
         /\ ~pop /\ push => Len(r) = Len(q) + 1
         /\ ~pop /\ ~push => r = q
         /\ pop => \A k \in 1 .. Len(q) - 1 : r[k] = q[k + 1]
         /\ ~pop => \A k \in 1 .. Len(q) : r[k] = q[k]
         /\ push => r[Len(r)] = w
<1>1. CASE pop
  <2>1. rest \in Seq(S) /\ Len(rest) = Len(q) - 1 /\ \A k \in 1 .. Len(q) - 1 : rest[k] = q[k + 1]
    BY <1>1
  <2>2. CASE push
    <3>1. r = Append(rest, w) /\ Len(r) = Len(q)
      BY <2>1, <2>2
    <3>2. r \in Seq(S) /\ r[Len(r)] = w
      BY <2>1, <3>1
    <3>3. \A k \in 1 .. Len(q) - 1 : r[k] = q[k + 1]
      BY <2>1, <3>1
    <3> QED
      BY <1>1, <2>2, <3>1, <3>2, <3>3
  <2>3. CASE ~push
    BY <1>1, <2>1, <2>3
  <2> QED
    BY <2>2, <2>3
<1>2. CASE ~pop
  BY <1>2
<1> QED
  BY <1>1, <1>2

(* The line carries a preamble, its 0xd5 and the bytes of a frame. *)
LEMMA RxdKind ==
  ASSUME Ranges, left > 0
  PROVE  /\ Total \in Nat /\ Total > Preamble /\ Total - left + 1 \in 1 .. Total
         /\ A!Entry(TRUE, A!Rxd) \in Words /\ A!Entry(TRUE, A!Rxd).bit8
         /\ Kind(A!Entry(TRUE, A!Rxd)) = KindAt(Total - left + 1)
<1>1. Len(lens) \in Nat \ {0} /\ lens[Len(lens)] \in Nat \ {0}
  <2>1. lens \in Seq(Lengths) /\ lens # << >>
    BY DEF Ranges
  <2>2. Len(lens) \in Nat \ {0} /\ lens[Len(lens)] \in Lengths
    BY <2>1
  <2> QED
    BY <2>2, Sizes
<1>2. Preamble \in Nat /\ Preamble >= 2
  BY Sizes
<1>3. Total \in Nat /\ Total > Preamble /\ Total - left + 1 \in 1 .. Total
  BY <1>1, <1>2 DEF Total, Ranges
<1>4. /\ A!Entry(TRUE, A!Rxd).bit8 = TRUE
      /\ A!Entry(TRUE, A!Rxd).data = A!Rxd
      /\ A!Entry(TRUE, A!Rxd) = [bit8 |-> TRUE, data |-> A!Rxd]
  BY DEF A!Entry
<1>5. left \in Nat /\ Preamble + lens[Len(lens)] - left + 1 = Total - left + 1
  BY <1>1, <1>2 DEF Ranges, Total
<1>6. A!Rxd \in Nat \X Nat => A!Entry(TRUE, A!Rxd) \in Words
  BY <1>4 DEF Words
<1>7. CASE Total - left + 1 < Preamble
  <2>1. A!Rxd = <<0, 85>>
    BY <1>1, <1>2, <1>5, <1>7 DEF A!Rxd, A!X55
  <2>2. Kind(A!Entry(TRUE, A!Rxd)) = "x55"
    <3>1. <<0, 85>> # <<0, 213>>
      OBVIOUS
    <3> QED
      BY <1>4, <2>1, <3>1 DEF Kind, A!X55, A!XD5
  <2>3. KindAt(Total - left + 1) = "x55"
    BY <1>7 DEF KindAt
  <2>4. A!Rxd \in Nat \X Nat
    BY <2>1
  <2> QED
    BY <1>3, <1>4, <1>6, <2>2, <2>3, <2>4
<1>8. CASE Total - left + 1 = Preamble
  <2>1. A!Rxd = <<0, 213>>
    <3>1. ~(Total - left + 1 < Preamble)
      BY <1>2, <1>8
    <3> QED
      BY <1>5, <1>8, <3>1 DEF A!Rxd, A!XD5
  <2>2. Kind(A!Entry(TRUE, A!Rxd)) = "xd5"
    BY <1>4, <2>1 DEF Kind, A!X55, A!XD5
  <2>3. KindAt(Total - left + 1) = "xd5"
    BY <1>2, <1>8 DEF KindAt
  <2>4. A!Rxd \in Nat \X Nat
    BY <2>1
  <2> QED
    BY <1>3, <1>4, <1>6, <2>2, <2>3, <2>4
<1>9. CASE Total - left + 1 > Preamble
  <2>1. A!Rxd = <<Len(lens), Total - left + 1 - Preamble>>
    BY <1>1, <1>2, <1>3, <1>5, <1>9 DEF A!Rxd
  <2>2. A!Rxd \in Nat \X Nat
    <3>1. Len(lens) \in Nat /\ Total - left + 1 - Preamble \in Nat
      BY <1>1, <1>2, <1>3, <1>5, <1>9
    <3> QED
      BY <2>1, <3>1
  <2>3. A!Rxd # <<0, 213>> /\ A!Rxd # <<0, 85>>
    BY <1>1, <2>1
  <2>4. Kind(A!Entry(TRUE, A!Rxd)) = "byte"
    BY <1>4, <2>3 DEF Kind, A!X55, A!XD5
  <2>5. KindAt(Total - left + 1) = "byte"
    BY <1>2, <1>3, <1>9 DEF KindAt
  <2> QED
    BY <1>3, <1>4, <1>6, <2>2, <2>4, <2>5
<1>10. \/ Total - left + 1 < Preamble \/ Total - left + 1 = Preamble
       \/ Total - left + 1 > Preamble
  BY <1>2, <1>3
<1> QED
  BY <1>7, <1>8, <1>9, <1>10

(* The word written now follows the one written before. *)
LEMMA WriteStep ==
  ASSUME Ranges, WriterInv, A!Write
  PROVE  /\ wrenRecv' => Follows(dinRecv, dinRecv')
         /\ ~wrenRecv' => dinRecv' = dinRecv
         /\ ~tempDv /\ wrenRecv => ~wrenRecv'
         /\ ~tempDv <=> Kind(dinRecv) = "sep"
         /\ ~wrenRecv => ~tempDv
<1>1. ~tempDv <=> Kind(dinRecv) = "sep"
  BY DEF WriterInv, Kind
<1>2. wrenRecv' <=> left > 0 \/ tempDv
  BY DEF A!Write, A!DataValid
<1>3. CASE left > 0
  <2>1. dinRecv' = A!Entry(TRUE, A!Rxd)
    BY <1>3 DEF A!Write, A!DataValid
  <2>2. Kind(dinRecv') = KindAt(Total - left + 1)
    BY <1>3, <2>1, RxdKind
  <2>3. Preamble \in Nat /\ Preamble >= 2 /\ Total \in Nat /\ left \in Nat
    BY <1>3, RxdKind, Sizes DEF Ranges
  <2>4. Follows(dinRecv, dinRecv')
    <3>1. CASE tempDv
      <4>1. left < Total /\ Kind(dinRecv) = KindAt(Total - left)
        BY <1>3, <3>1 DEF WriterInv
      <4>2. KindAt(Total - left + 1) \in Behind(KindAt(Total - left))
        BY <2>3, <4>1 DEF KindAt, Behind
      <4> QED
        BY <2>2, <4>1, <4>2 DEF Follows
    <3>2. CASE ~tempDv
      <4>1. left = Total
        BY <1>3, <3>2 DEF WriterInv
      <4>2. Kind(dinRecv') = "x55"
        BY <2>2, <2>3, <4>1 DEF KindAt
      <4> QED
        BY <1>1, <3>2, <4>2 DEF Follows, Behind
    <3> QED
      BY <3>1, <3>2
  <2> QED
    BY <1>1, <1>2, <1>3, <2>4 DEF WriterInv
<1>4. CASE ~(left > 0)
  <2>1. left = 0
    BY <1>4 DEF Ranges
  <2>2. CASE tempDv
    <3>1. Kind(dinRecv) = "byte"
      BY <2>1, <2>2 DEF WriterInv
    <3>2. dinRecv' = A!Separator
      BY <1>4, <2>2 DEF A!Write, A!DataValid
    <3>3. Kind(dinRecv') = "sep"
      BY <3>2 DEF A!Separator, A!Entry, Kind
    <3>4. Follows(dinRecv, dinRecv')
      BY <3>1, <3>3 DEF Follows, Behind
    <3> QED
      BY <1>1, <1>2, <2>2, <3>4 DEF WriterInv
  <2>3. CASE ~tempDv
    <3>1. dinRecv' = dinRecv /\ ~wrenRecv'
      BY <1>2, <1>4, <2>3 DEF A!Write, A!DataValid
    <3> QED
      BY <1>1, <2>3, <3>1
  <2> QED
    BY <2>2, <2>3 DEF Ranges
<1> QED
  BY <1>3, <1>4

(* The registers of the writer keep their part of the invariant. *)
LEMMA WriterStep ==
  ASSUME Ranges, WriterInv, NEW start \in BOOLEAN, A!Line(start), A!Write
  PROVE  /\ WriterInv' /\ dinRecv' \in Words /\ tempDv' \in BOOLEAN /\ wrenRecv' \in BOOLEAN
         /\ lens' \in Seq(Lengths) /\ left' \in Nat /\ idle' \in Nat
         /\ left' > 0 => lens' # << >> /\ left' <= Total'
<1>1. Preamble \in Nat /\ Preamble >= 2 /\ Gap \in Nat /\ Gap >= 2
  BY Sizes
<1>2. CASE left > 0
  <2>1. lens' = lens /\ left' = left - 1 /\ idle' = 0 /\ Total' = Total /\ left' \in Nat
    BY <1>2 DEF A!Line, A!DataValid, Total, Ranges
  <2>2. tempDv' = TRUE /\ wrenRecv' = TRUE /\ dinRecv' = A!Entry(TRUE, A!Rxd)
    BY <1>2 DEF A!Write, A!DataValid
  <2>3. /\ Total \in Nat /\ Total > Preamble /\ dinRecv' \in Words /\ dinRecv'.bit8
        /\ Kind(dinRecv') = KindAt(Total - left + 1)
    BY <1>2, <2>2, RxdKind
  <2>4. left' = 0 => Kind(dinRecv') = "byte"
    BY <1>1, <1>2, <2>1, <2>3 DEF KindAt, Ranges
  <2>5. left' > 0 => left' < Total' /\ Kind(dinRecv') = KindAt(Total' - left')
    <3>1. left \in Nat /\ left <= Total
      BY <1>2 DEF Ranges
    <3>2. Total - left + 1 = Total' - left' /\ left' < Total'
      BY <2>1, <2>3, <3>1
    <3> QED
      BY <2>3, <3>2
  <2>6. WriterInv'
    BY <2>1, <2>2, <2>3, <2>4, <2>5 DEF WriterInv
  <2>7. /\ lens' \in Seq(Lengths) /\ left' \in Nat /\ idle' \in Nat
        /\ left' > 0 => lens' # << >>
    BY <1>2, <2>1 DEF Ranges
  <2>8. tempDv' \in BOOLEAN /\ wrenRecv' \in BOOLEAN
    BY <2>2
  <2>9. left' > 0 => left' <= Total'
    BY <2>1, <2>3, <2>5
  <2> QED
    BY <2>3, <2>6, <2>7, <2>8, <2>9
<1>3. CASE ~(left > 0)
  <2>1. left = 0 /\ tempDv' = FALSE /\ (wrenRecv' <=> tempDv) /\ wrenRecv' \in BOOLEAN
    <3>1. left = 0
      BY <1>3 DEF Ranges
    <3>2. tempDv' = FALSE
      <4>1. tempDv' = (left > 0)
        BY DEF A!Write, A!DataValid
      <4>2. (left > 0) = FALSE
        BY <3>1
      <4> QED
        BY <4>1, <4>2
    <3>3. wrenRecv' = (left > 0 \/ tempDv)
      BY DEF A!Write, A!DataValid
    <3> QED
      BY <1>3, <3>1, <3>2, <3>3
  <2>2. dinRecv' \in Words /\ ~dinRecv'.bit8
    <3>1. CASE tempDv
      BY <1>3, <3>1 DEF A!Write, A!DataValid, A!Separator, A!Entry, A!Zero, Words
    <3>2. CASE ~tempDv
      BY <1>3, <3>2 DEF A!Write, A!DataValid, WriterInv, Ranges
    <3> QED
      BY <3>1, <3>2
  <2>3. CASE ~start
    <3>1. lens' = lens /\ left' = 0 /\ idle' \in Nat
      BY <1>3, <2>1, <2>3 DEF A!Line, A!DataValid, Ranges
    <3>2. WriterInv'
      BY <2>1, <2>2, <3>1 DEF WriterInv
    <3>3. lens' \in Seq(Lengths) /\ left' \in Nat /\ ~(left' > 0)
      BY <3>1 DEF Ranges
    <3> QED
      BY <2>1, <2>2, <3>1, <3>2, <3>3
  <2>4. CASE start
    <3>1. idle' = idle /\ idle + 1 >= Gap
      BY <1>3, <2>4 DEF A!Line, A!DataValid
    <3>2. PICK n \in Lengths : lens' = Append(lens, n) /\ left' = Preamble + n
      BY <1>3, <2>4 DEF A!Line, A!DataValid
    <3>3. n \in Nat \ {0}
      BY Sizes
    <3>4. lens' \in Seq(Lengths) /\ lens' # << >> /\ lens'[Len(lens')] = n
      BY <3>2 DEF Ranges
    <3>5. left' = Total' /\ left' \in Nat
      BY <1>1, <3>2, <3>3, <3>4 DEF Total
    <3>6. ~tempDv
      BY <1>1, <2>1, <3>1 DEF WriterInv
    <3>7. WriterInv'
      BY <2>1, <2>2, <3>5, <3>6 DEF WriterInv
    <3>8. idle' \in Nat /\ left' <= Total'
      BY <3>1, <3>5 DEF Ranges
    <3> QED
      BY <2>1, <2>2, <3>4, <3>5, <3>7, <3>8
  <2> QED
    BY <2>3, <2>4
<1> QED
  BY <1>2, <1>3

(* The reader takes a word in each clock in which it is not idle. *)
Pops == rdenRecv /\ ~A!IsEmpty

LEMMA PopsMeans ==
  ASSUME Ranges, ReaderInv
  PROVE  /\ Pops <=> stateRd # "IDLE"
         /\ Pops => asFifo # << >>
         /\ stateRd # "IDLE" => ~A!IsEmpty
         /\ ~A!IsEmpty => asFifo # << >> /\ A!Dout = asFifo[1]
<1>1. asFifo = << >> => ~late /\ A!IsEmpty
  BY DEF ReaderInv, A!IsEmpty
<1>2. Len(asFifo) \in Nat /\ (asFifo # << >> <=> Len(asFifo) >= 1)
  BY DEF Ranges
<1>3. stateRd # "IDLE" => rdenRecv /\ ~A!IsEmpty
  <2>1. SUFFICES ASSUME stateRd # "IDLE" PROVE rdenRecv /\ ~A!IsEmpty
    OBVIOUS
  <2>2. rdenRecv /\ asFifo # << >> /\ (Len(asFifo) = 1 => ~late)
    <3>1. CASE stateRd = "DISCARD_PKT_HEAD"
      <4>1. rdenRecv /\ Len(asFifo) >= 2
        BY <3>1 DEF ReaderInv
      <4>2. Len(asFifo) >= 1 /\ (Len(asFifo) = 1 => ~late)
        BY <1>2, <4>1
      <4> QED
        BY <1>2, <4>1, <4>2
    <3>2. CASE stateRd = "WAIT_TAIL"
      BY <3>2 DEF ReaderInv
    <3> QED
      BY <2>1, <3>1, <3>2 DEF ReaderInv
  <2>3. Len(asFifo) # IF late THEN 1 ELSE 0
    BY <1>2, <2>2
  <2> QED
    BY <2>2, <2>3 DEF A!IsEmpty
<1>4. stateRd = "IDLE" => ~Pops
  BY <1>1 DEF ReaderInv, Pops
<1>5. ~A!IsEmpty => asFifo # << >> /\ A!Dout = Head(asFifo)
  BY <1>1 DEF A!Dout
<1>6. asFifo # << >> => Head(asFifo) = asFifo[1]
  BY DEF Ranges
<1> QED
  BY <1>1, <1>3, <1>4, <1>5, <1>6 DEF Pops

(* The FIFO after a clock: all it has not given, and the word written. *)
LEMMA FifoStep ==
  ASSUME Ranges, StreamInv, ReaderInv, A!Fifo
  PROVE  /\ asFifo' \in Seq(Words) /\ late' \in BOOLEAN /\ (late' => wrenRecv)
         /\ Len(asFifo) \in Nat /\ Len(asFifo) <= 3
         /\ Pops /\ wrenRecv => Len(asFifo') = Len(asFifo)
         /\ Pops /\ ~wrenRecv => Len(asFifo') = Len(asFifo) - 1
         /\ ~Pops /\ wrenRecv => Len(asFifo') = Len(asFifo) + 1
         /\ ~Pops /\ ~wrenRecv => asFifo' = asFifo
         /\ Pops => \A k \in 1 .. Len(asFifo) - 1 : asFifo'[k] = asFifo[k + 1]
         /\ ~Pops => \A k \in 1 .. Len(asFifo) : asFifo'[k] = asFifo[k]
         /\ wrenRecv => asFifo'[Len(asFifo')] = dinRecv
<1>1. Len(asFifo) \in Nat /\ Len(asFifo) <= 3 /\ Len(asFifo) < RecvCap
  <2>1. RecvCap \in Nat /\ RecvCap > 3
    BY Sizes
  <2>2. Len(asFifo) \in Nat /\ Len(asFifo) <= 3
    BY DEF Ranges, StreamInv
  <2> QED
    BY <2>1, <2>2
<1>2. late' \in (IF wrenRecv THEN BOOLEAN ELSE {FALSE})
  BY <1>1 DEF A!Fifo
<1>3. PICK rest : rest = IF Pops THEN Tail(asFifo) ELSE asFifo
  OBVIOUS
<1>4. asFifo' = IF wrenRecv THEN Append(rest, dinRecv) ELSE rest
  BY <1>1, <1>3 DEF A!Fifo, Pops
<1>5. Pops \in BOOLEAN /\ wrenRecv \in BOOLEAN /\ asFifo \in Seq(Words) /\ dinRecv \in Words
  BY DEF Pops, Ranges
<1>6. Pops => asFifo # << >>
  BY PopsMeans
<1>7. /\ asFifo' \in Seq(Words)
      /\ Pops /\ wrenRecv => Len(asFifo') = Len(asFifo)
      /\ Pops /\ ~wrenRecv => Len(asFifo') = Len(asFifo) - 1
      /\ ~Pops /\ wrenRecv => Len(asFifo') = Len(asFifo) + 1
      /\ ~Pops /\ ~wrenRecv => asFifo' = asFifo
      /\ Pops => \A k \in 1 .. Len(asFifo) - 1 : asFifo'[k] = asFifo[k + 1]
      /\ ~Pops => \A k \in 1 .. Len(asFifo) : asFifo'[k] = asFifo[k]
      /\ wrenRecv => asFifo'[Len(asFifo')] = dinRecv
  BY <1>3, <1>4, <1>5, <1>6, Shifted
<1> QED
  BY <1>1, <1>2, <1>7

(* What the FIFO holds is still a part of the stream. *)
LEMMA StreamStep ==
  ASSUME Ranges, WriterInv, StreamInv, ReaderInv, A!Fifo, A!Write
  PROVE  StreamInv'
<1>1. PICK n \in Nat, m \in Nat : n = Len(asFifo) /\ m = Len(asFifo')
  BY FifoStep
<1>2. /\ n <= 3
      /\ Pops /\ wrenRecv => m = n
      /\ Pops /\ ~wrenRecv => m = n - 1
      /\ ~Pops /\ wrenRecv => m = n + 1
      /\ ~Pops /\ ~wrenRecv => m = n
      /\ asFifo # << >> <=> n # 0
      /\ asFifo' # << >> <=> m # 0
  <2>1. asFifo \in Seq(Words) /\ asFifo' \in Seq(Words)
    BY FifoStep DEF Ranges
  <2>2. (asFifo # << >> <=> n # 0) /\ (asFifo' # << >> <=> m # 0)
    BY <1>1, <2>1
  <2> QED
    BY <1>1, <2>2, FifoStep
<1>3. Pops => n >= 1
  BY <1>2, PopsMeans
<1>4. asFifo' # << >> => asFifo'[m] = dinRecv
  <2>1. CASE wrenRecv
    BY <1>1, <2>1, FifoStep
  <2>2. CASE ~wrenRecv /\ m # 0
    <3>1. n # 0 /\ asFifo[n] = dinRecv
      BY <1>1, <1>2, <1>3, <2>2 DEF StreamInv
    <3>2. asFifo'[m] = asFifo[n]
      BY <1>1, <1>2, <1>3, <2>2, <3>1, FifoStep
    <3> QED
      BY <3>1, <3>2
  <2> QED
    BY <1>2, <2>1, <2>2
<1>5. asFifo' # << >> =>
        IF wrenRecv' THEN Follows(asFifo'[m], dinRecv') ELSE asFifo'[m] = dinRecv'
  BY <1>4, WriteStep
<1>6. ASSUME NEW k \in 1 .. m - 1 PROVE Follows(asFifo'[k], asFifo'[k + 1])
  <2> DEFINE j == IF Pops THEN k + 1 ELSE k
  <2>1. asFifo'[k] = asFifo[j] /\ j \in 1 .. n
    BY <1>1, <1>2, <1>3, FifoStep
  <2>2. CASE j < n
    <3>1. asFifo'[k + 1] = asFifo[j + 1]
      BY <1>1, <1>2, <1>3, <2>1, <2>2, FifoStep
    <3>2. Follows(asFifo[j], asFifo[j + 1])
      BY <1>1, <2>1, <2>2 DEF StreamInv
    <3> QED
      BY <2>1, <3>1, <3>2
  <2>3. CASE j = n
    <3>1. k + 1 = m /\ wrenRecv
      BY <1>1, <1>2, <2>3
    <3>2. Follows(asFifo[n], dinRecv)
      BY <1>1, <1>2, <2>1, <3>1 DEF StreamInv
    <3> QED
      BY <1>1, <2>1, <2>3, <3>1, <3>2, FifoStep
  <2> QED
    BY <1>1, <2>1, <2>2, <2>3
<1>7. m <= 3
  <2>1. ~Pops => n <= 2
    BY <1>1, PopsMeans DEF ReaderInv
  <2>2. Pops \in BOOLEAN /\ wrenRecv \in BOOLEAN
    BY DEF Pops, Ranges
  <2>3. CASE Pops
    BY <1>2, <2>2, <2>3
  <2>4. CASE ~Pops
    BY <1>2, <2>1, <2>2, <2>4
  <2> QED
    BY <2>3, <2>4
<1>8. m = 3 => /\ Kind(asFifo'[1]) # "sep" /\ Kind(asFifo'[2]) # "sep"
               /\ Kind(asFifo'[3]) = "sep" => ~wrenRecv'
  <2>1. SUFFICES ASSUME m = 3 PROVE /\ Kind(asFifo'[1]) # "sep" /\ Kind(asFifo'[2]) # "sep"
                                    /\ Kind(asFifo'[3]) = "sep" => ~wrenRecv'
    OBVIOUS
  <2>2. wrenRecv /\ asFifo'[3] = dinRecv /\ (Pops => n = 3) /\ (~Pops => n = 2)
    <3>1. ~Pops => n <= 2
      BY <1>1, PopsMeans DEF ReaderInv
    <3>2. asFifo' # << >>
      BY <1>2, <2>1
    <3>3. wrenRecv /\ (Pops => n = 3) /\ (~Pops => n = 2)
      BY <1>2, <2>1, <3>1
    <3> QED
      BY <1>4, <2>1, <3>2, <3>3
  <2>3. Kind(asFifo'[3]) = "sep" => ~wrenRecv'
    BY <2>2, WriteStep
  <2>4. CASE Pops
    <3>1. asFifo'[1] = asFifo[2] /\ asFifo'[2] = asFifo[3]
      BY <1>1, <2>2, <2>4, FifoStep
    <3> QED
      BY <1>1, <2>2, <2>3, <2>4, <3>1 DEF StreamInv
  <2>5. CASE ~Pops
    <3>1. n = 2 /\ Kind(asFifo[1]) = "x55"
      BY <1>2, <2>2, <2>5, PopsMeans DEF ReaderInv
    <3>2. \A k \in 1 .. n : asFifo'[k] = asFifo[k]
      BY <1>1, <2>5, FifoStep
    <3>3. \A k \in 1 .. n - 1 : Follows(asFifo[k], asFifo[k + 1])
      BY <1>1 DEF StreamInv
    <3>4. 1 \in 1 .. n /\ 2 \in 1 .. n /\ 1 \in 1 .. n - 1 /\ 1 + 1 = 2
      BY <3>1
    <3>5. asFifo'[1] = asFifo[1] /\ asFifo'[2] = asFifo[2]
      BY <3>2, <3>4
    <3>6. Follows(asFifo[1], asFifo[2])
      BY <3>3, <3>4
    <3> QED
      BY <2>3, <3>1, <3>5, <3>6 DEF Follows, Behind
  <2> QED
    BY <2>4, <2>5
<1> QED
  BY <1>1, <1>5, <1>6, <1>7, <1>8 DEF StreamInv

(* The reader keeps its part of the invariant. *)
LEMMA ReaderStep ==
  ASSUME Ranges, WriterInv, StreamInv, ReaderInv, A!Fifo, A!Write, A!Read
  PROVE  ReaderInv' /\ rdenRecv' \in BOOLEAN
<1>1. PICK n \in Nat, m \in Nat : n = Len(asFifo) /\ m = Len(asFifo')
  BY FifoStep
<1>2. /\ n <= 3
      /\ Pops /\ wrenRecv => m = n
      /\ Pops /\ ~wrenRecv => m = n - 1
      /\ ~Pops /\ wrenRecv => m = n + 1
      /\ ~Pops /\ ~wrenRecv => m = n
      /\ asFifo # << >> <=> n # 0
      /\ asFifo' # << >> <=> m # 0
  <2>1. asFifo \in Seq(Words) /\ asFifo' \in Seq(Words)
    BY FifoStep DEF Ranges
  <2>2. (asFifo # << >> <=> n # 0) /\ (asFifo' # << >> <=> m # 0)
    BY <1>1, <2>1
  <2> QED
    BY <1>1, <2>2, FifoStep
<1>3. late' => asFifo' # << >>
  <2>1. late' => wrenRecv
    BY FifoStep
  <2>2. wrenRecv /\ Pops => m # 0
    BY <1>2, PopsMeans
  <2>3. wrenRecv /\ ~Pops => m # 0
    BY <1>2
  <2> QED
    BY <1>2, <2>1, <2>2, <2>3
<1>4. ~wrenRecv /\ n # 0 => Kind(asFifo[n]) = "sep"
  BY <1>1, <1>2, WriteStep DEF StreamInv
<1>5. ~wrenRecv /\ wrenRecv' => Kind(dinRecv') = "x55"
  BY WriteStep DEF Follows, Behind
<1>6. n >= 2 => Follows(asFifo[1], asFifo[2])
  <2>1. \A k \in 1 .. n - 1 : Follows(asFifo[k], asFifo[k + 1])
    BY <1>1 DEF StreamInv
  <2>2. n >= 2 => 1 \in 1 .. n - 1 /\ 1 + 1 = 2
    OBVIOUS
  <2> QED
    BY <2>1, <2>2
<1>7. Pops /\ n >= 2 => asFifo'[1] = asFifo[2]
  <2>1. Pops => \A k \in 1 .. n - 1 : asFifo'[k] = asFifo[k + 1]
    BY <1>1, FifoStep
  <2>2. n >= 2 => 1 \in 1 .. n - 1 /\ 1 + 1 = 2
    OBVIOUS
  <2> QED
    BY <2>1, <2>2
<1>8. ~Pops /\ n >= 1 => asFifo'[1] = asFifo[1]
  <2>1. ~Pops => \A k \in 1 .. n : asFifo'[k] = asFifo[k]
    BY <1>1, FifoStep
  <2>2. n >= 1 => 1 \in 1 .. n
    OBVIOUS
  <2> QED
    BY <2>1, <2>2
<1>9. wrenRecv /\ m = 1 => asFifo'[1] = dinRecv
  BY <1>1, FifoStep
<1>10. CASE stateRd = "IDLE"
  <2>1. ~Pops /\ n <= 2 /\ (n # 0 => Kind(asFifo[1]) = "x55")
    BY <1>1, <1>2, <1>10, PopsMeans DEF ReaderInv
  <2>2. n = 0 /\ wrenRecv => Kind(dinRecv) = "x55"
    BY <1>2, <1>10 DEF ReaderInv
  <2>3. CASE A!IsEmpty
    <3>1. stateRd' = "IDLE" /\ rdenRecv' = FALSE
      BY <1>10, <2>3 DEF A!Read
    <3>2. n <= 1
      BY <1>1, <2>3 DEF A!IsEmpty
    <3>3. m <= 2
      BY <1>2, <2>1, <3>2 DEF Ranges
    <3>4. m # 0 => Kind(asFifo'[1]) = "x55"
      BY <1>2, <1>8, <1>9, <2>1, <2>2 DEF Ranges
    <3>5. m = 0 /\ wrenRecv' => Kind(dinRecv') = "x55"
      BY <1>2, <1>5, <2>1
    <3> QED
      BY <1>1, <1>2, <1>3, <3>1, <3>3, <3>4, <3>5 DEF ReaderInv
  <2>4. CASE ~A!IsEmpty
    <3>1. stateRd' = "DISCARD_PKT_HEAD" /\ rdenRecv' = TRUE
      BY <1>10, <2>4 DEF A!Read
    <3>2. n >= 1
      BY <1>2, <2>4, PopsMeans
    <3>3. n = 1 => wrenRecv
      BY <1>4, <2>1
    <3>4. m >= 2
      BY <1>2, <2>1, <3>2, <3>3 DEF Ranges
    <3>5. Kind(asFifo'[1]) = "x55"
      BY <1>8, <2>1, <3>2
    <3> QED
      BY <1>1, <1>3, <3>1, <3>4, <3>5 DEF ReaderInv
  <2> QED
    BY <2>3, <2>4
<1>11. CASE stateRd = "DISCARD_PKT_HEAD"
  <2>1. Pops /\ n >= 2 /\ rdenRecv /\ Kind(asFifo[1]) \in {"x55", "xd5"}
    BY <1>1, <1>11, PopsMeans DEF ReaderInv
  <2>2. rdenRecv' = TRUE /\ stateRd' = IF asFifo[1].data = A!XD5 THEN "WAIT_TAIL" ELSE stateRd
    <3>1. A!Dout = asFifo[1] /\ rdenRecv = TRUE
      BY <1>11, <2>1, PopsMeans DEF Ranges
    <3> QED
      BY <1>11, <3>1 DEF A!Read
  <2>3. n = 2 /\ ~wrenRecv => Kind(asFifo[2]) = "sep"
    BY <1>4
  <2>4. m >= 1 /\ (m = 1 => n = 2 /\ ~wrenRecv)
    BY <1>2, <2>1 DEF Ranges
  <2>5. CASE Kind(asFifo[1]) = "xd5"
    <3>1. stateRd' = "WAIT_TAIL"
      BY <2>2, <2>5 DEF Kind
    <3>2. Kind(asFifo'[1]) = "byte" /\ Kind(asFifo[2]) = "byte"
      BY <1>6, <1>7, <2>1, <2>5 DEF Follows, Behind
    <3>3. m # 1
      BY <2>3, <2>4, <3>2
    <3> QED
      BY <1>1, <1>2, <1>3, <2>2, <2>4, <3>1, <3>2, <3>3 DEF ReaderInv
  <2>6. CASE Kind(asFifo[1]) = "x55"
    <3>1. stateRd' = "DISCARD_PKT_HEAD"
      BY <1>11, <2>2, <2>6 DEF Kind
    <3>2. Kind(asFifo'[1]) \in {"x55", "xd5"} /\ Kind(asFifo[2]) # "sep"
      BY <1>6, <1>7, <2>1, <2>6 DEF Follows, Behind
    <3>3. m >= 2
      BY <2>3, <2>4, <3>2
    <3> QED
      BY <1>1, <1>3, <2>2, <3>1, <3>2, <3>3 DEF ReaderInv
  <2> QED
    BY <2>1, <2>5, <2>6
<1>12. CASE stateRd = "WAIT_TAIL"
  <2>1. /\ Pops /\ n >= 1 /\ rdenRecv /\ Kind(asFifo[1]) \in {"byte", "sep"}
        /\ n = 1 => Kind(asFifo[1]) = "sep"
    BY <1>1, <1>2, <1>12, PopsMeans DEF ReaderInv
  <2>2. /\ rdenRecv' = (rdenRecv /\ asFifo[1].bit8)
        /\ stateRd' = IF asFifo[1].bit8 THEN stateRd ELSE "IDLE"
    <3>1. A!Dout = asFifo[1]
      BY <1>12, PopsMeans
    <3> QED
      BY <1>12, <3>1 DEF A!Read
  <2>3. CASE Kind(asFifo[1]) = "byte"
    <3>1. stateRd' = "WAIT_TAIL" /\ rdenRecv' = TRUE
      BY <1>12, <2>1, <2>2, <2>3 DEF Kind, Ranges
    <3>2. n >= 2
      BY <2>1, <2>3
    <3>3. Kind(asFifo'[1]) \in {"byte", "sep"}
      BY <1>6, <1>7, <2>1, <2>3, <3>2 DEF Follows, Behind
    <3>4. m >= 1 /\ (m = 1 => n = 2 /\ ~wrenRecv)
      BY <1>2, <2>1, <3>2 DEF Ranges
    <3>5. m = 1 => ~late' /\ Kind(asFifo'[1]) = "sep"
      BY <1>4, <1>7, <2>1, <3>4, FifoStep
    <3> QED
      BY <1>1, <1>2, <1>3, <3>1, <3>3, <3>4, <3>5 DEF ReaderInv
  <2>4. CASE Kind(asFifo[1]) = "sep"
    <3>1. stateRd' = "IDLE" /\ rdenRecv' = FALSE
      BY <1>12, <2>2, <2>4 DEF Kind
    <3>2. n <= 2
      BY <1>1, <1>2, <2>4 DEF StreamInv
    <3>3. m <= 2
      BY <1>2, <2>1, <3>2 DEF Ranges
    <3>4. m # 0 => Kind(asFifo'[1]) = "x55"
      <4>1. CASE n = 2
        BY <1>6, <1>7, <2>1, <2>4, <4>1 DEF Follows, Behind
      <4>2. CASE n = 1 /\ wrenRecv
        <5>1. Follows(asFifo[1], dinRecv) /\ m = 1
          BY <1>1, <1>2, <2>1, <4>2 DEF StreamInv
        <5> QED
          BY <1>9, <2>4, <4>2, <5>1 DEF Follows, Behind
      <4>3. CASE n = 1 /\ ~wrenRecv
        BY <1>2, <2>1, <4>3
      <4> QED
        BY <2>1, <3>2, <4>1, <4>2, <4>3
    <3>5. m = 0 /\ wrenRecv' => Kind(dinRecv') = "x55"
      BY <1>2, <1>5, <2>1
    <3> QED
      BY <1>1, <1>2, <1>3, <3>1, <3>3, <3>4, <3>5 DEF ReaderInv
  <2> QED
    BY <2>1, <2>3, <2>4
<1> QED
  BY <1>10, <1>11, <1>12 DEF ReaderInv

(* The invariant holds before the first clock. *)
LEMMA InitRecv ==
  ASSUME Init
  PROVE  RecvInv
<1>1. /\ lens = << >> /\ left = 0 /\ idle = Gap /\ tempDv = FALSE
      /\ dinRecv = A!Separator /\ wrenRecv = FALSE
      /\ asFifo = << >> /\ late = FALSE /\ stateRd = "IDLE" /\ rdenRecv \in BOOLEAN
  BY DEF Init, A!Init
<1>2. A!Separator \in Words /\ ~A!Separator.bit8
  BY DEF A!Separator, A!Entry, A!Zero, Words
<1>3. Ranges
  <2>1. lens \in Seq(Lengths) /\ asFifo \in Seq(Words)
    BY <1>1
  <2>2. left \in Nat /\ ~(left > 0)
    BY <1>1
  <2>3. idle \in Nat
    BY <1>1, Sizes
  <2> QED
    BY <1>1, <1>2, <2>1, <2>2, <2>3 DEF Ranges
<1>4. WriterInv
  BY <1>1, <1>2 DEF WriterInv
<1>5. StreamInv
  BY <1>1 DEF StreamInv
<1>6. ReaderInv
  BY <1>1 DEF ReaderInv
<1> QED
  BY <1>3, <1>4, <1>5, <1>6 DEF RecvInv

(* A clock of the whole path, and a clock in which nothing changes, keep    *)
(* the invariant.                                                           *)
LEMMA NextRecv ==
  ASSUME RecvInv, [Next]_vars
  PROVE  RecvInv'
<1>1. CASE Next
  <2>1. PICK start \in BOOLEAN : A!Line(start) /\ A!Write /\ A!Fifo /\ A!Read
    BY <1>1 DEF Next, Clock, A!Clock
  <2>2. Ranges /\ WriterInv /\ StreamInv /\ ReaderInv
    BY DEF RecvInv
  <2>3. /\ WriterInv' /\ dinRecv' \in Words /\ tempDv' \in BOOLEAN /\ wrenRecv' \in BOOLEAN
        /\ lens' \in Seq(Lengths) /\ left' \in Nat /\ idle' \in Nat
        /\ left' > 0 => lens' # << >> /\ left' <= Total'
    BY <2>1, <2>2, WriterStep
  <2>4. asFifo' \in Seq(Words) /\ late' \in BOOLEAN
    BY <2>1, <2>2, FifoStep
  <2>5. ReaderInv' /\ rdenRecv' \in BOOLEAN
    BY <2>1, <2>2, ReaderStep
  <2>6. StreamInv'
    BY <2>1, <2>2, StreamStep
  <2>7. Ranges'
    BY <2>3, <2>4, <2>5 DEF Ranges
  <2> QED
    BY <2>3, <2>5, <2>6, <2>7 DEF RecvInv
<1>2. CASE UNCHANGED vars
  BY <1>2 DEF RecvInv, Ranges, WriterInv, StreamInv, ReaderInv, Total, vars, A!vars,
              A!line, A!writer, A!reader
<1> QED
  BY <1>1, <1>2

(* Inside a frame the reader never takes a word that is not there, although *)
(* it does not look at empty, and asfifo_recv_data, whose full is not       *)
(* connected, never has more than three words: for every length of frames,  *)
(* every gap of two clocks at least and every phase of the two clocks.      *)
THEOREM ReaderAhead == Spec => [](A!NeverReadsEmpty /\ Len(asFifo) <= 3)
<1>1. RecvInv => A!NeverReadsEmpty /\ Len(asFifo) <= 3
  <2>1. SUFFICES ASSUME RecvInv PROVE A!NeverReadsEmpty /\ Len(asFifo) <= 3
    OBVIOUS
  <2>2. stateRd = "WAIT_TAIL" => ~A!IsEmpty
    BY <2>1, PopsMeans DEF RecvInv
  <2> QED
    BY <2>1, <2>2 DEF RecvInv, StreamInv, A!NeverReadsEmpty
<1>2. Init => RecvInv
  BY InitRecv
<1>3. RecvInv /\ [Next]_vars => RecvInv'
  BY NextRecv
<1> QED
  BY <1>1, <1>2, <1>3, PTL DEF Spec
-----------------------------------------------------------------------------
(* The bytes themselves: a byte of a frame is its frame and its place.     *)

(* The line, or the writer, has not put the separator of the last frame    *)
(* into the FIFO.                                                          *)
Busy == left > 0 \/ tempDv \/ wrenRecv

(* Frames whose separator has come to the FIFO, and to the reader. *)
Entered == IF Busy THEN Len(lens) - 1 ELSE Len(lens)
SepIn(q) == \E k \in 1 .. Len(q) : Kind(q[k]) = "sep"
Done     == IF SepIn(asFifo) THEN Entered - 1 ELSE Entered

(* Words behind each other carry bytes behind each other. *)
Joins(l, v, w) ==
  /\ Kind(v) = "xd5" => w.data[2] = 1
  /\ Kind(v) = "byte" => IF Kind(w) = "byte" THEN w.data[2] = v.data[2] + 1
                                             ELSE v.data[2] = l[v.data[1]]

WordsInv ==
  /\ Busy => lens # << >>
  /\ SepIn(asFifo) => Entered >= 1
  /\ Kind(dinRecv) = "byte" =>
       /\ dinRecv.data = <<Len(lens), lens[Len(lens)] - left>>
       /\ lens[Len(lens)] - left \in 1 .. lens[Len(lens)]
  /\ \A k \in 1 .. Len(asFifo) : Kind(asFifo[k]) = "byte" =>
       /\ Done < Len(lens) /\ asFifo[k].data[1] = Done + 1
       /\ asFifo[k].data[2] \in 1 .. lens[Done + 1]
  /\ \A k \in 1 .. Len(asFifo) - 1 : Joins(lens, asFifo[k], asFifo[k + 1])
  /\ asFifo # << >> /\ wrenRecv => Joins(lens, asFifo[Len(asFifo)], dinRecv)
-----------------------------------------------------------------------------
(* Behind a separator comes a preamble, and no more of it than the FIFO     *)
(* has room for.                                                            *)
LEMMA BehindSeparator ==
  ASSUME NEW q \in Seq(Words), Len(q) <= 3,
         \A k \in 1 .. Len(q) - 1 : Follows(q[k], q[k + 1]),
         Len(q) = 3 => Kind(q[1]) # "sep" /\ Kind(q[2]) # "sep",
         NEW j \in 1 .. Len(q), NEW k \in 1 .. Len(q), j < k, Kind(q[j]) = "sep"
  PROVE  Kind(q[k]) = "x55"
<1>1. PICK n \in Nat : n = Len(q)
  OBVIOUS
<1>2. n # 3
  <2>1. n = 3 => j = 1 \/ j = 2
    BY <1>1
  <2> QED
    BY <1>1, <2>1
<1>3. j = 1 /\ k = 2 /\ Len(q) = 2
  <2>1. n <= 3 /\ j \in 1 .. n /\ k \in 1 .. n /\ j < k
    BY <1>1
  <2> QED
    BY <1>1, <1>2, <2>1
<1>4. Follows(q[1], q[2])
  <2>1. 1 \in 1 .. Len(q) - 1 /\ 1 + 1 = 2
    BY <1>3
  <2> QED
    BY <2>1
<1> QED
  BY <1>3, <1>4 DEF Follows, Behind

(* The lengths of the frames on the line stay. *)
LEMMA LensGrow ==
  ASSUME Ranges, NEW start, A!Line(start)
  PROVE  /\ Len(lens) \in Nat /\ Len(lens') \in Nat /\ Len(lens) <= Len(lens')
         /\ \A f \in 1 .. Len(lens) : lens'[f] = lens[f] /\ lens[f] \in Nat \ {0}
         /\ left > 0 \/ ~start => lens' = lens
         /\ lens' # lens => left = 0 /\ left' > 0 /\ Len(lens') = Len(lens) + 1
<1>1. lens \in Seq(Lengths) /\ Len(lens) \in Nat /\ left \in Nat
  BY DEF Ranges
<1>2. \A f \in 1 .. Len(lens) : lens[f] \in Nat \ {0}
  <2>1. \A f \in 1 .. Len(lens) : lens[f] \in Lengths
    BY <1>1
  <2> QED
    BY <2>1, Sizes
<1>3. CASE lens' = lens
  BY <1>1, <1>2, <1>3
<1>4. CASE lens' # lens
  <2>1. ~(left > 0) /\ start
    BY <1>4 DEF A!Line, A!DataValid
  <2>2. PICK n \in Lengths : lens' = Append(lens, n) /\ left' = Preamble + n
    BY <1>4, <2>1 DEF A!Line, A!DataValid
  <2>3. n \in Nat \ {0} /\ Preamble \in Nat
    BY Sizes
  <2>4. Len(lens') = Len(lens) + 1 /\ \A f \in 1 .. Len(lens) : lens'[f] = lens[f]
    BY <1>1, <2>2
  <2> QED
    BY <1>1, <1>2, <2>1, <2>2, <2>3, <2>4
<1> QED
  BY <1>3, <1>4

(* The word the writer puts in its register, and how it joins the last one. *)
LEMMA WordWritten ==
  ASSUME Ranges, WriterInv, WordsInv, NEW start, A!Line(start), A!Write
  PROVE  /\ Kind(dinRecv') = "byte" =>
              /\ dinRecv'.data = <<Len(lens'), lens'[Len(lens')] - left'>>
              /\ lens'[Len(lens')] - left' \in 1 .. lens'[Len(lens')]
         /\ wrenRecv' => Joins(lens', dinRecv, dinRecv')
         /\ Busy' => lens' # << >>
<1>1. Preamble \in Nat /\ Preamble >= 2 /\ Gap >= 2 /\ Gap \in Nat
  BY Sizes
<1>2. ~tempDv => Kind(dinRecv) = "sep"
  BY WriteStep
<1>3. left \in Nat /\ idle \in Nat
  BY DEF Ranges
<1>4. CASE left > 0
  <2>1. /\ lens' = lens /\ left' = left - 1 /\ wrenRecv' = TRUE
        /\ dinRecv' = A!Entry(TRUE, A!Rxd) /\ lens # << >>
    BY <1>4 DEF A!Line, A!Write, A!DataValid, Ranges
  <2> DEFINE n == lens[Len(lens)]
             k == Total - left + 1
  <2>2. /\ Kind(dinRecv') = KindAt(k) /\ n \in Nat \ {0}
        /\ Total = Preamble + n /\ k \in 1 .. Total
    <3>1. Len(lens) \in 1 .. Len(lens)
      BY <2>1 DEF Ranges
    <3>2. n \in Nat \ {0}
      BY <3>1, LensGrow
    <3> QED
      BY <1>4, <2>1, <3>2, RxdKind DEF Total
  <2>2a. k = Preamble + n - left + 1
    <3> HIDE DEF n
    <3> QED
      BY <1>1, <1>3, <2>2
  <2>3. k > Preamble => A!Rxd = <<Len(lens), k - Preamble>>
    BY <1>1, <1>3, <2>2 DEF A!Rxd, Total
  <2>4. Kind(dinRecv') = "byte" => k > Preamble /\ dinRecv'.data = <<Len(lens), n - left'>>
    <3>1. Kind(dinRecv') = "byte" => k > Preamble
      BY <1>1, <2>2 DEF KindAt
    <3>2. k - Preamble = n - left'
      BY <1>1, <1>3, <2>1, <2>2
    <3> QED
      BY <2>1, <2>3, <3>1, <3>2 DEF A!Entry
  <2>5. Kind(dinRecv') = "byte" => n - left' \in 1 .. n
    <3>1. left' = left - 1 /\ left > 0
      BY <1>4, <2>1
    <3> HIDE DEF n, k
    <3> QED
      BY <1>1, <1>3, <2>2, <2>2a, <2>4, <3>1
  <2>6. Joins(lens', dinRecv, dinRecv')
    <3>1. CASE ~tempDv
      BY <1>2, <3>1 DEF Joins
    <3>2. CASE tempDv
      <4>1. left < Total /\ Kind(dinRecv) = KindAt(Total - left)
        BY <1>4, <3>2 DEF WriterInv
      <4>2. Kind(dinRecv) = "xd5" => n - left' = 1 /\ Kind(dinRecv') = "byte"
        <5>1. left' = left - 1 /\ Total - left = k - 1 /\ n - left' = k - Preamble
          <6> HIDE DEF n
          <6> QED
            BY <1>1, <1>3, <2>1, <2>2, <2>2a
        <5> HIDE DEF n, k
        <5>2. Kind(dinRecv) = "xd5" => k = Preamble + 1
          BY <1>1, <2>2, <4>1, <5>1 DEF KindAt
        <5>3. k = Preamble + 1 => KindAt(k) = "byte"
          BY <1>1 DEF KindAt
        <5> QED
          BY <1>1, <2>2, <5>1, <5>2, <5>3
      <4>3. Kind(dinRecv) = "byte" =>
              Kind(dinRecv') = "byte" /\ dinRecv.data[2] + 1 = n - left'
        <5>1. Kind(dinRecv) = "byte" => dinRecv.data[2] = n - left
          BY DEF WordsInv
        <5>2. Kind(dinRecv) = "byte" => Kind(dinRecv') = "byte"
          BY <1>1, <1>3, <2>2, <4>1 DEF KindAt
        <5>3. n - left + 1 = n - left'
          <6>1. left' = left - 1 /\ n \in Nat
            BY <2>1, <2>2
          <6> HIDE DEF n
          <6> QED
            BY <1>3, <6>1
        <5> QED
          BY <5>1, <5>2, <5>3
      <4>4. Kind(dinRecv') = "byte" => dinRecv'.data[2] = n - left'
        BY <2>4
      <4> QED
        BY <4>2, <4>3, <4>4 DEF Joins
    <3> QED
      BY <3>1, <3>2
  <2> QED
    BY <2>1, <2>4, <2>5, <2>6
<1>5. CASE ~(left > 0)
  <2>1. left = 0
    BY <1>3, <1>5
  <2>2. Kind(dinRecv') = "sep"
    <3>1. CASE tempDv
      BY <1>5, <3>1 DEF A!Write, A!DataValid, A!Separator, A!Entry, Kind
    <3>2. CASE ~tempDv
      BY <1>2, <1>5, <3>2 DEF A!Write, A!DataValid
    <3> QED
      BY <3>1, <3>2
  <2>3. wrenRecv' => tempDv /\ Kind(dinRecv) = "byte" /\ dinRecv.data = <<Len(lens), lens[Len(lens)]>>
    <3>1. wrenRecv' => tempDv
      BY <1>5 DEF A!Write, A!DataValid
    <3>2. tempDv => Kind(dinRecv) = "byte" /\ lens # << >>
      BY <2>1 DEF WriterInv, WordsInv, Busy
    <3>3. lens # << >> => lens[Len(lens)] \in Nat
      <4>1. lens # << >> => Len(lens) \in 1 .. Len(lens)
        BY DEF Ranges
      <4> QED
        BY <4>1, LensGrow
    <3>4. tempDv => dinRecv.data = <<Len(lens), lens[Len(lens)] - left>>
      BY <3>2 DEF WordsInv
    <3> QED
      BY <2>1, <3>1, <3>2, <3>3, <3>4
  <2>4. tempDv => lens' = lens /\ lens # << >>
    <3>1. tempDv => idle = 0 /\ lens # << >>
      BY <2>1 DEF WriterInv, WordsInv, Busy
    <3>2. idle = 0 => ~start
      BY <1>1, <1>5 DEF A!Line, A!DataValid
    <3> QED
      BY <3>1, <3>2, LensGrow
  <2>5. wrenRecv' => Joins(lens', dinRecv, dinRecv')
    BY <2>2, <2>3, <2>4 DEF Joins
  <2>6. Busy' => lens' # << >>
    <3>1. left' > 0 => lens' # << >>
      <4>1. left' > 0 => lens' # lens
        BY <1>5, <2>1, <1>1 DEF A!Line, A!DataValid
      <4>2. lens' # lens => Len(lens') > 0
        BY LensGrow
      <4> QED
        BY <4>1, <4>2
    <3>2. ~tempDv'
      BY <1>5 DEF A!Write, A!DataValid
    <3> QED
      BY <2>3, <2>4, <3>1, <3>2 DEF Busy
  <2> QED
    BY <2>2, <2>5, <2>6
<1> QED
  BY <1>4, <1>5

(* A separator that enters the FIFO ends a frame. *)
LEMMA EnteredStep ==
  ASSUME Ranges, WriterInv, WordsInv, NEW start, A!Line(start), A!Write
  PROVE  /\ Entered \in 0 .. Len(lens)
         /\ Entered' = IF wrenRecv /\ Kind(dinRecv) = "sep" THEN Entered + 1 ELSE Entered
<1>1. (~tempDv <=> Kind(dinRecv) = "sep") /\ left \in Nat /\ (tempDv => wrenRecv)
  BY WriteStep DEF Ranges, WriterInv
<1>2. /\ Len(lens) \in Nat /\ Len(lens') \in Nat
      /\ left > 0 \/ ~start => lens' = lens
      /\ lens' # lens => left = 0 /\ left' > 0 /\ Len(lens') = Len(lens) + 1
  BY LensGrow
<1>3. /\ tempDv' <=> left > 0
      /\ wrenRecv' <=> left > 0 \/ tempDv
  BY DEF A!Write, A!DataValid
<1>4. Busy => Len(lens) >= 1
  <2>1. Busy => lens # << >> /\ lens \in Seq(Lengths)
    BY DEF WordsInv, Ranges
  <2> QED
    BY <2>1
<1>5. Entered \in 0 .. Len(lens)
  BY <1>2, <1>4 DEF Entered
<1>6. CASE left > 0
  <2>1. Busy /\ Busy' /\ lens' = lens
    BY <1>2, <1>3, <1>6 DEF Busy
  <2>2. ~(wrenRecv /\ Kind(dinRecv) = "sep")
    BY <1>1, <1>6 DEF WriterInv
  <2> QED
    BY <1>5, <2>1, <2>2 DEF Entered
<1>7. CASE left = 0 /\ tempDv
  <2>1. Busy /\ Busy'
    BY <1>3, <1>7 DEF Busy
  <2>2. lens' = lens
    <3>1. idle = 0 /\ Gap \in Nat /\ Gap >= 2
      BY <1>7, Sizes DEF WriterInv
    <3>2. ~(left > 0)
      BY <1>7
    <3>3. ~start
      BY <3>1, <3>2 DEF A!Line, A!DataValid
    <3> QED
      BY <1>2, <3>3
  <2> QED
    BY <1>1, <1>5, <1>7, <2>1, <2>2 DEF Entered
<1>8. CASE left = 0 /\ ~tempDv
  <2>1. (Busy <=> wrenRecv) /\ Kind(dinRecv) = "sep"
    BY <1>1, <1>8 DEF Busy
  <2>1a. Entered = IF wrenRecv THEN Len(lens) - 1 ELSE Len(lens)
    BY <2>1 DEF Entered
  <2>2. ~tempDv' /\ ~wrenRecv' /\ (Busy' <=> left' > 0)
    BY <1>3, <1>8 DEF Busy
  <2>3. CASE lens' = lens
    <3>1. ~(left' > 0)
      <4>1. ~start \/ start
        OBVIOUS
      <4>2. CASE start
        <5>1. \E n \in Lengths : lens' = Append(lens, n)
          BY <1>8, <4>2 DEF A!Line, A!DataValid
        <5>2. Len(lens') = Len(lens) + 1
          BY <5>1 DEF Ranges
        <5> QED
          BY <1>2, <2>3, <5>2
      <4>3. CASE ~start
        BY <1>8, <4>3 DEF A!Line, A!DataValid
      <4> QED
        BY <4>2, <4>3
    <3> QED
      <4>1. ~Busy'
        BY <2>2, <3>1
      <4>2. Entered' = Len(lens)
        BY <2>3, <4>1 DEF Entered
      <4> QED
        BY <1>2, <1>5, <2>1, <2>1a, <4>2
  <2>4. CASE lens' # lens
    <3>1. Len(lens') = Len(lens) + 1 /\ Busy'
      BY <1>2, <2>2, <2>4
    <3> QED
      <4>1. Entered' = Len(lens)
        BY <1>2, <3>1 DEF Entered
      <4> QED
        BY <1>2, <1>5, <2>1, <2>1a, <4>1
  <2> QED
    BY <2>3, <2>4
<1> QED
  BY <1>1, <1>5, <1>6, <1>7, <1>8

(* The reader is through with a frame when it takes its separator; there is *)
(* one at most in the FIFO and before it.                                   *)
LEMMA DoneStep ==
  ASSUME Ranges, WriterInv, StreamInv, ReaderInv, WordsInv,
         NEW start, A!Line(start), A!Write, A!Fifo
  PROVE  /\ Done \in 0 .. Len(lens)
         /\ Done' = IF Pops /\ Kind(asFifo[1]) = "sep" THEN Done + 1 ELSE Done
         /\ SepIn(asFifo') => Entered' >= 1
         /\ SepIn(asFifo) => Done < Len(lens)
<1>1. PICK n \in Nat, m \in Nat : n = Len(asFifo) /\ m = Len(asFifo')
  BY FifoStep
<1>2. /\ n <= 3 /\ (Pops => n >= 1)
      /\ Pops /\ wrenRecv => m = n
      /\ Pops /\ ~wrenRecv => m = n - 1
      /\ ~Pops /\ wrenRecv => m = n + 1
      /\ ~Pops /\ ~wrenRecv => m = n
      /\ asFifo # << >> <=> n # 0
  <2>1. asFifo # << >> <=> n # 0
    BY <1>1 DEF Ranges
  <2> QED
    BY <1>1, <2>1, FifoStep, PopsMeans
<1>3. Entered \in 0 .. Len(lens) /\ Len(lens) \in Nat
  BY EnteredStep, LensGrow
<1>4. Entered' = IF wrenRecv /\ Kind(dinRecv) = "sep" THEN Entered + 1 ELSE Entered
  BY EnteredStep
<1>5. SepIn(asFifo) => Entered >= 1
  BY DEF WordsInv
<1>6. ASSUME NEW j \in 1 .. n, NEW k \in 1 .. n, j < k, Kind(asFifo[j]) = "sep"
      PROVE  Kind(asFifo[k]) = "x55"
  BY <1>1, <1>6, BehindSeparator DEF Ranges, StreamInv
<1>7. wrenRecv /\ Kind(dinRecv) = "sep" => ~SepIn(asFifo)
  <2>1. SUFFICES ASSUME wrenRecv, Kind(dinRecv) = "sep", NEW j \in 1 .. n,
                        Kind(asFifo[j]) = "sep"
                 PROVE  FALSE
    BY <1>1 DEF SepIn
  <2>2. n # 0 /\ Follows(asFifo[n], dinRecv)
    BY <1>1, <1>2, <2>1 DEF StreamInv
  <2>3. Kind(asFifo[n]) = "byte"
    BY <2>1, <2>2 DEF Follows, Behind
  <2>4. j # n
    BY <2>1, <2>3
  <2>5. Kind(asFifo[n]) = "x55"
    BY <1>6, <2>1, <2>2, <2>4
  <2> QED
    BY <2>3, <2>5
<1>8. wrenRecv => m >= 1 /\ asFifo'[m] = dinRecv
  <2>1. Pops \/ ~Pops
    OBVIOUS
  <2>2. wrenRecv => m >= 1
    BY <1>2, <2>1
  <2> QED
    BY <1>1, <2>2, FifoStep
<1>9. CASE Pops /\ Kind(asFifo[1]) = "sep"
  <2>1. 1 \in 1 .. n
    BY <1>2, <1>9
  <2>2. SepIn(asFifo)
    BY <1>1, <1>9, <2>1 DEF SepIn
  <2>3. Kind(dinRecv) # "sep" \/ ~wrenRecv
    BY <1>7, <2>2
  <2>4. ASSUME NEW k \in 1 .. m PROVE Kind(asFifo'[k]) # "sep"
    <3>1. CASE k + 1 \in 1 .. n
      <4>1. asFifo'[k] = asFifo[k + 1]
        BY <1>1, <1>9, <3>1, FifoStep
      <4>2. Kind(asFifo[k + 1]) = "x55"
        BY <1>6, <1>9, <2>1, <3>1
      <4> QED
        BY <4>1, <4>2
    <3>2. CASE k + 1 \notin 1 .. n
      <4>1. wrenRecv /\ k = m
        BY <1>2, <1>9, <3>2 DEF Ranges
      <4> QED
        BY <1>8, <2>3, <4>1
    <3> QED
      BY <3>1, <3>2
  <2>5. ~SepIn(asFifo')
    BY <1>1, <2>4 DEF SepIn
  <2>6. Entered' = Entered
    BY <1>4, <2>3
  <2> QED
    BY <1>3, <1>5, <1>9, <2>2, <2>5, <2>6 DEF Done
<1>10. CASE ~(Pops /\ Kind(asFifo[1]) = "sep")
  <2>1. CASE SepIn(asFifo)
    <3>1. PICK j \in 1 .. n : Kind(asFifo[j]) = "sep"
      BY <1>1, <2>1 DEF SepIn
    <3>2. \E k \in 1 .. m : asFifo'[k] = asFifo[j]
      <4>1. CASE Pops
        <5>1. j # 1 /\ j - 1 \in 1 .. n - 1 /\ j - 1 \in 1 .. m
          BY <1>2, <1>10, <3>1, <4>1 DEF Ranges
        <5>2. asFifo'[j - 1] = asFifo[j]
          <6>1. asFifo'[j - 1] = asFifo[(j - 1) + 1]
            BY <1>1, <4>1, <5>1, FifoStep
          <6>2. (j - 1) + 1 = j
            OBVIOUS
          <6> QED
            BY <6>1, <6>2
        <5> QED
          BY <5>1, <5>2
      <4>2. CASE ~Pops
        <5>1. j \in 1 .. m /\ asFifo'[j] = asFifo[j]
          BY <1>1, <1>2, <3>1, <4>2, FifoStep DEF Ranges
        <5> QED
          BY <5>1
      <4> QED
        BY <4>1, <4>2
    <3>3. SepIn(asFifo')
      BY <1>1, <3>1, <3>2 DEF SepIn
    <3>4. Entered' = Entered
      BY <1>4, <1>7, <2>1
    <3> QED
      BY <1>3, <1>5, <1>10, <2>1, <3>3, <3>4 DEF Done
  <2>2. CASE ~SepIn(asFifo) /\ wrenRecv /\ Kind(dinRecv) = "sep"
    <3>1. SepIn(asFifo')
      <4>1. m \in 1 .. m /\ Kind(asFifo'[m]) = "sep"
        BY <1>8, <2>2
      <4> QED
        BY <1>1, <4>1 DEF SepIn
    <3>2. Entered' = Entered + 1
      BY <1>4, <2>2
    <3> QED
      BY <1>3, <1>10, <2>2, <3>1, <3>2 DEF Done
  <2>3. CASE ~SepIn(asFifo) /\ ~(wrenRecv /\ Kind(dinRecv) = "sep")
    <3>1. ASSUME NEW k \in 1 .. m PROVE Kind(asFifo'[k]) # "sep"
      <4>1. CASE wrenRecv /\ k = m
        BY <1>8, <2>3, <4>1
      <4>2. CASE ~(wrenRecv /\ k = m)
        <5>1. \E j \in 1 .. n : asFifo'[k] = asFifo[j]
          <6>1. CASE Pops
            <7>1. k \in 1 .. n - 1 /\ k + 1 \in 1 .. n
              BY <1>2, <4>2, <6>1 DEF Ranges
            <7>2. asFifo'[k] = asFifo[k + 1]
              BY <1>1, <6>1, <7>1, FifoStep
            <7> QED
              BY <7>1, <7>2
          <6>2. CASE ~Pops
            <7>1. k \in 1 .. n
              BY <1>2, <4>2, <6>2 DEF Ranges
            <7>2. asFifo'[k] = asFifo[k]
              BY <1>1, <6>2, <7>1, FifoStep
            <7> QED
              BY <7>1, <7>2
          <6> QED
            BY <6>1, <6>2
        <5> QED
          BY <1>1, <2>3, <5>1 DEF SepIn
      <4> QED
        BY <4>1, <4>2
    <3>2. ~SepIn(asFifo')
      BY <1>1, <3>1 DEF SepIn
    <3>3. Entered' = Entered
      BY <1>4, <2>3
    <3> QED
      BY <1>3, <1>10, <2>3, <3>2, <3>3 DEF Done
  <2> QED
    BY <2>1, <2>2, <2>3
<1> QED
  BY <1>9, <1>10

(* A word of the FIFO has moved up, stands, or is the one written. *)
LEMMA WordMoves ==
  ASSUME Ranges, StreamInv, ReaderInv, A!Fifo
  PROVE  /\ Len(asFifo) \in Nat /\ Len(asFifo') \in Nat
         /\ \A k \in 1 .. Len(asFifo') :
              \/ /\ (IF Pops THEN k + 1 ELSE k) \in 1 .. Len(asFifo)
                 /\ asFifo'[k] = asFifo[IF Pops THEN k + 1 ELSE k]
              \/ k = Len(asFifo') /\ wrenRecv /\ asFifo'[k] = dinRecv
         /\ asFifo' # << >> => asFifo'[Len(asFifo')] = dinRecv
         /\ wrenRecv /\ Pops => Len(asFifo') = Len(asFifo)
         /\ wrenRecv /\ ~Pops => Len(asFifo') = Len(asFifo) + 1
         /\ ~wrenRecv /\ Pops => Len(asFifo') = Len(asFifo) - 1
         /\ ~wrenRecv /\ ~Pops => Len(asFifo') = Len(asFifo)
<1>1. PICK n \in Nat, m \in Nat : n = Len(asFifo) /\ m = Len(asFifo')
  BY FifoStep
<1>2. /\ n <= 3 /\ (Pops => n >= 1)
      /\ Pops /\ wrenRecv => m = n
      /\ Pops /\ ~wrenRecv => m = n - 1
      /\ ~Pops /\ wrenRecv => m = n + 1
      /\ ~Pops /\ ~wrenRecv => m = n
      /\ asFifo # << >> <=> n # 0
      /\ asFifo' # << >> <=> m # 0
  <2>1. asFifo # << >> <=> n # 0
    BY <1>1 DEF Ranges
  <2>2. asFifo' # << >> <=> m # 0
    BY <1>1, FifoStep
  <2> QED
    BY <1>1, <2>1, <2>2, FifoStep, PopsMeans
<1>3. ASSUME NEW k \in 1 .. m
      PROVE  \/ /\ (IF Pops THEN k + 1 ELSE k) \in 1 .. n
                /\ asFifo'[k] = asFifo[IF Pops THEN k + 1 ELSE k]
             \/ k = m /\ wrenRecv /\ asFifo'[k] = dinRecv
  <2>1. CASE wrenRecv /\ k = m
    BY <1>1, <2>1, FifoStep
  <2>2. CASE ~(wrenRecv /\ k = m) /\ Pops
    <3>1. k \in 1 .. n - 1 /\ k + 1 \in 1 .. n
      BY <1>2, <2>2
    <3>2. asFifo'[k] = asFifo[k + 1]
      BY <1>1, <2>2, <3>1, FifoStep
    <3> QED
      BY <2>2, <3>1, <3>2
  <2>3. CASE ~(wrenRecv /\ k = m) /\ ~Pops
    <3>1. k \in 1 .. n
      BY <1>2, <2>3
    <3>2. asFifo'[k] = asFifo[k]
      BY <1>1, <2>3, <3>1, FifoStep
    <3> QED
      BY <2>3, <3>1, <3>2
  <2> QED
    BY <2>1, <2>2, <2>3
<1>4. asFifo' # << >> => asFifo'[m] = dinRecv
  <2>1. CASE wrenRecv
    BY <1>1, <2>1, FifoStep
  <2>2. CASE ~wrenRecv /\ m # 0
    <3>1. n # 0 /\ asFifo[n] = dinRecv
      BY <1>1, <1>2, <2>2 DEF StreamInv
    <3>2. m \in 1 .. m /\ (IF Pops THEN m + 1 ELSE m) = n
      BY <1>2, <2>2
    <3>3. asFifo'[m] = asFifo[n]
      BY <1>3, <2>2, <3>2
    <3> QED
      BY <3>1, <3>3
  <2> QED
    BY <1>2, <2>1, <2>2
<1> QED
  BY <1>1, <1>2, <1>3, <1>4

LEMMA WordsStep ==
  ASSUME Ranges, WriterInv, StreamInv, ReaderInv, WordsInv, StreamInv',
         NEW start, A!Line(start), A!Write, A!Fifo
  PROVE  WordsInv'
<1>1. PICK n \in Nat, m \in Nat : n = Len(asFifo) /\ m = Len(asFifo')
  BY FifoStep
<1>2. /\ Len(lens) \in Nat /\ Len(lens') \in Nat /\ Len(lens) <= Len(lens')
      /\ \A f \in 1 .. Len(lens) : lens'[f] = lens[f]
  BY LensGrow
<1>3. /\ Done \in 0 .. Len(lens)
      /\ Done' = IF Pops /\ Kind(asFifo[1]) = "sep" THEN Done + 1 ELSE Done
      /\ SepIn(asFifo') => Entered' >= 1
  BY DoneStep
<1>4. /\ Busy' => lens' # << >>
      /\ Kind(dinRecv') = "byte" =>
              /\ dinRecv'.data = <<Len(lens'), lens'[Len(lens')] - left'>>
              /\ lens'[Len(lens')] - left' \in 1 .. lens'[Len(lens')]
      /\ wrenRecv' => Joins(lens', dinRecv, dinRecv')
  BY WordWritten
<1>5. ASSUME NEW k \in 1 .. m
      PROVE  \/ /\ (IF Pops THEN k + 1 ELSE k) \in 1 .. n
                /\ asFifo'[k] = asFifo[IF Pops THEN k + 1 ELSE k]
             \/ k = m /\ wrenRecv /\ asFifo'[k] = dinRecv
  BY <1>1, WordMoves
<1>6. ASSUME NEW j \in 1 .. n, Kind(asFifo[j]) = "byte"
      PROVE  /\ Done < Len(lens) /\ asFifo[j].data[1] = Done + 1
             /\ asFifo[j].data[2] \in 1 .. lens[Done + 1]
             /\ lens'[Done + 1] = lens[Done + 1]
  <2>1. /\ Done < Len(lens) /\ asFifo[j].data[1] = Done + 1
        /\ asFifo[j].data[2] \in 1 .. lens[Done + 1]
    BY <1>1, <1>6 DEF WordsInv
  <2>2. Done + 1 \in 1 .. Len(lens)
    BY <1>2, <1>3, <2>1
  <2> QED
    BY <1>2, <2>1, <2>2
<1>7. Kind(dinRecv) = "byte" =>
        /\ tempDv /\ Len(lens) \in 1 .. Len(lens) /\ Entered = Len(lens) - 1 /\ Entered' = Entered
        /\ dinRecv.data[1] = Len(lens) /\ dinRecv.data[2] \in 1 .. lens[Len(lens)]
  <2>1. SUFFICES ASSUME Kind(dinRecv) = "byte" PROVE
             /\ tempDv /\ Len(lens) \in 1 .. Len(lens) /\ Entered = Len(lens) - 1 /\ Entered' = Entered
             /\ dinRecv.data[1] = Len(lens) /\ dinRecv.data[2] \in 1 .. lens[Len(lens)]
    OBVIOUS
  <2>2. tempDv
    BY <2>1, WriteStep
  <2>3. Busy /\ lens # << >> /\ lens \in Seq(Lengths)
    BY <2>2 DEF Busy, WordsInv, Ranges
  <2>4. Len(lens) \in 1 .. Len(lens)
    BY <2>3
  <2>5. Entered' = Entered
    BY <2>1, EnteredStep
  <2>6. Entered = Len(lens) - 1
    BY <2>3 DEF Entered
  <2>7. dinRecv.data[1] = Len(lens) /\ dinRecv.data[2] \in 1 .. lens[Len(lens)]
    BY <2>1 DEF WordsInv
  <2> QED
    BY <2>2, <2>4, <2>5, <2>6, <2>7
<1>8. ASSUME NEW k \in 1 .. m, Kind(asFifo'[k]) = "byte"
      PROVE  /\ Done' < Len(lens') /\ asFifo'[k].data[1] = Done' + 1
             /\ asFifo'[k].data[2] \in 1 .. lens'[Done' + 1]
  <2>1. CASE /\ (IF Pops THEN k + 1 ELSE k) \in 1 .. n
             /\ asFifo'[k] = asFifo[IF Pops THEN k + 1 ELSE k]
    <3>1. PICK j \in 1 .. n : j = (IF Pops THEN k + 1 ELSE k) /\ asFifo'[k] = asFifo[j]
      BY <2>1
    <3>2. Kind(asFifo[j]) = "byte"
      BY <1>8, <3>1
    <3>3. Done' = Done
      <4>1. SUFFICES ASSUME Pops, Kind(asFifo[1]) = "sep" PROVE FALSE
        BY <1>3
      <4>2. 1 \in 1 .. n /\ 1 < j
        BY <3>1, <4>1
      <4>3. Kind(asFifo[j]) = "x55"
        BY <1>1, <4>1, <4>2, BehindSeparator DEF Ranges, StreamInv
      <4> QED
        BY <3>2, <4>3
    <3> QED
      BY <1>2, <1>3, <1>6, <3>1, <3>2, <3>3
  <2>2. CASE k = m /\ wrenRecv /\ asFifo'[k] = dinRecv
    <3>1. Kind(dinRecv) = "byte"
      BY <1>8, <2>2
    <3>2. ~SepIn(asFifo')
      <4>1. SUFFICES ASSUME NEW j \in 1 .. m, Kind(asFifo'[j]) = "sep" PROVE FALSE
        BY <1>1 DEF SepIn
      <4>2. j < m
        BY <1>8, <2>2, <4>1
      <4>3. asFifo' \in Seq(Words)
        BY FifoStep
      <4>4. Kind(asFifo'[m]) = "x55"
        BY <1>1, <2>2, <4>1, <4>2, <4>3, BehindSeparator DEF StreamInv
      <4> QED
        BY <1>8, <2>2, <4>4
    <3>3. Done' = Len(lens) - 1
      BY <1>7, <3>1, <3>2 DEF Done
    <3>4. Done' + 1 = Len(lens) /\ lens'[Done' + 1] = lens[Len(lens)] /\ Done' < Len(lens')
      BY <1>2, <1>7, <3>1, <3>3
    <3> QED
      BY <1>7, <2>2, <3>1, <3>4
  <2> QED
    BY <1>5, <2>1, <2>2
<1>9. ASSUME NEW k \in 1 .. m - 1 PROVE Joins(lens', asFifo'[k], asFifo'[k + 1])
  <2>1. PICK j \in 1 .. n : j = (IF Pops THEN k + 1 ELSE k) /\ asFifo'[k] = asFifo[j]
    <3>1. k \in 1 .. m /\ k # m
      OBVIOUS
    <3> QED
      BY <1>5, <3>1
  <2>2. \E w : asFifo'[k + 1] = w /\ Joins(lens, asFifo[j], w)
    <3>1. k + 1 \in 1 .. m
      OBVIOUS
    <3>2. CASE /\ (IF Pops THEN k + 1 + 1 ELSE k + 1) \in 1 .. n
               /\ asFifo'[k + 1] = asFifo[IF Pops THEN k + 1 + 1 ELSE k + 1]
      <4>1. j + 1 = (IF Pops THEN k + 1 + 1 ELSE k + 1)
        BY <2>1
      <4>2. asFifo'[k + 1] = asFifo[j + 1] /\ j \in 1 .. n - 1
        BY <2>1, <3>2, <4>1
      <4>3. Joins(lens, asFifo[j], asFifo[j + 1])
        BY <1>1, <4>2 DEF WordsInv
      <4> QED
        BY <4>2, <4>3
    <3>3. CASE k + 1 = m /\ wrenRecv /\ asFifo'[k + 1] = dinRecv
      <4>1. j = n /\ n # 0
        BY <1>1, <2>1, <3>3, WordMoves
      <4>2. asFifo # << >>
        BY <1>1, <4>1
      <4>3. Joins(lens, asFifo[n], dinRecv)
        BY <1>1, <3>3, <4>2 DEF WordsInv
      <4> QED
        BY <3>3, <4>1, <4>3
    <3> QED
      BY <1>5, <3>1, <3>2, <3>3
  <2>3. Kind(asFifo[j]) = "byte" => lens'[asFifo[j].data[1]] = lens[asFifo[j].data[1]]
    BY <1>6
  <2> QED
    BY <2>1, <2>2, <2>3 DEF Joins
<1>10. asFifo' # << >> /\ wrenRecv' => Joins(lens', asFifo'[Len(asFifo')], dinRecv')
  BY <1>4, WordMoves
<1> QED
  BY <1>1, <1>3, <1>4, <1>8, <1>9, <1>10 DEF WordsInv
-----------------------------------------------------------------------------
(* From the FIFO to gmii_en_o: the four bytes before the one that leaves    *)
(* the reader are the four before it in its frame.                          *)
Wires == [en : BOOLEAN, data : Nat \X Nat]

PipeType == tx \in Wires /\ gmiiOut \in Wires /\ temp \in Seq(Wires) /\ Len(temp) = 4

(* Byte i of frame Done + 1 is in tx. *)
InFrame(i) ==
  /\ stateRd = "WAIT_TAIL" /\ Done < Len(lens)
  /\ i \in 1 .. lens[Done + 1] /\ tx.data = <<Done + 1, i>>
  /\ \A k \in 1 .. 4 : /\ temp[k].en <=> i > k
                       /\ temp[k].en => temp[k].data = <<Done + 1, i - k>>
  /\ gmiiOut.en <=> i > 5
  /\ gmiiOut.en => gmiiOut.data = <<Done + 1, i - 5>>
  /\ Kind(asFifo[1]) = "byte" => asFifo[1].data[2] = i + 1
  /\ Kind(asFifo[1]) = "sep"  => i = lens[Done + 1]

(* Frame Done, of n bytes, has just ended in tx. *)
FrameEnd(n) ==
  /\ stateRd = "IDLE" /\ Done > 0 /\ n = lens[Done]
  /\ \A k \in 1 .. 4 : /\ temp[k].en <=> n >= k
                       /\ temp[k].en => temp[k].data = <<Done, n + 1 - k>>
  /\ gmiiOut.en <=> n > 4
  /\ gmiiOut.en => gmiiOut.data = <<Done, n - 4>>

(* Between two frames: what is behind tx is idle for as long as the reader  *)
(* has been at the preamble.                                                *)
Between ==
  /\ ~temp[1].en /\ ~gmiiOut.en
  /\ stateRd = "DISCARD_PKT_HEAD" /\ Kind(asFifo[1]) = "xd5" => ~temp[2].en
  /\ stateRd = "WAIT_TAIL" =>
       /\ ~temp[2].en /\ ~temp[3].en
       /\ Kind(asFifo[1]) = "byte" /\ asFifo[1].data[2] = 1

PipeInv ==
  IF tx.en THEN InFrame(tx.data[2])
  ELSE IF temp[1].en THEN FrameEnd(lens[Done])
  ELSE Between

LEMMA PipeShift ==
  ASSUME PipeType, A!Check
  PROVE  /\ temp' \in Seq(Wires) /\ Len(temp') = 4
         /\ temp'[1] = tx /\ temp'[2] = temp[1] /\ temp'[3] = temp[2] /\ temp'[4] = temp[3]
         /\ gmiiOut' \in Wires
         /\ gmiiOut'.en <=> tx.en /\ temp[4].en
         /\ gmiiOut'.data = temp[4].data
<1>1. temp' = <<tx>> \o SubSeq(temp, 1, 3)
  BY DEF A!Check, A!CRC
<1>2. temp \in Seq(Wires) /\ Len(temp) = 4 /\ tx \in Wires
  BY DEF PipeType
<1>3. /\ SubSeq(temp, 1, 3) \in Seq(Wires) /\ Len(SubSeq(temp, 1, 3)) = 3
      /\ \A k \in 1 .. 3 : SubSeq(temp, 1, 3)[k] = temp[k]
  <2>1. SubSeq(temp, 1, 3) \in Seq(Wires) /\ Len(SubSeq(temp, 1, 3)) = 3
    BY <1>2
  <2>2. ASSUME NEW k \in 1 .. 3 PROVE SubSeq(temp, 1, 3)[k] = temp[k]
    <3>1. SubSeq(temp, 1, 3)[k] = temp[1 + k - 1]
      BY <1>2
    <3>2. 1 + k - 1 = k
      OBVIOUS
    <3> QED
      BY <3>1, <3>2
  <2> QED
    BY <2>1, <2>2
<1>4. <<tx>> \in Seq(Wires) /\ Len(<<tx>>) = 1 /\ <<tx>>[1] = tx
  BY <1>2
<1>5. ASSUME NEW a \in Seq(Wires), NEW b \in Seq(Wires), Len(a) = 1, Len(b) = 3
      PROVE  /\ a \o b \in Seq(Wires) /\ Len(a \o b) = 4 /\ (a \o b)[1] = a[1]
             /\ (a \o b)[2] = b[1] /\ (a \o b)[3] = b[2] /\ (a \o b)[4] = b[3]
  <2>1. /\ a \o b \in Seq(Wires) /\ Len(a \o b) = 1 + 3
        /\ \A k \in 1 .. 1 + 3 : (a \o b)[k] = IF k <= 1 THEN a[k] ELSE b[k - 1]
    BY <1>5, ConcatProperties
  <2>2. ASSUME NEW k \in {2, 3, 4} PROVE (a \o b)[k] = b[k - 1]
    BY <2>1
  <2>3. (a \o b)[1] = a[1]
    BY <2>1
  <2> QED
    BY <2>1, <2>2, <2>3
<1>6. /\ temp' \in Seq(Wires) /\ Len(temp') = 4 /\ temp'[1] = tx
      /\ temp'[2] = temp[1] /\ temp'[3] = temp[2] /\ temp'[4] = temp[3]
  BY <1>1, <1>3, <1>4, <1>5
<1>7. gmiiOut' = [en |-> tx.en /\ temp[4].en, data |-> temp[4].data]
  BY DEF A!Check, A!CRC, A!Wire
<1>8. temp[4] \in Wires
  <2>1. 4 \in 1 .. Len(temp)
    BY <1>2
  <2> QED
    BY <1>2, <2>1, ElementOfSeq
<1> QED
  BY <1>2, <1>6, <1>7, <1>8 DEF Wires

LEMMA PipeStep ==
  ASSUME Ranges, WriterInv, StreamInv, ReaderInv, WordsInv, PipeType, PipeInv,
         StreamInv', ReaderInv', WordsInv',
         NEW start, A!Line(start), A!Write, A!Fifo, A!Read, A!Check
  PROVE  PipeType' /\ PipeInv'
<1>1. /\ temp' \in Seq(Wires) /\ Len(temp') = 4
      /\ temp'[1] = tx /\ temp'[2] = temp[1] /\ temp'[3] = temp[2] /\ temp'[4] = temp[3]
      /\ gmiiOut' \in Wires
      /\ gmiiOut'.en <=> tx.en /\ temp[4].en
      /\ gmiiOut'.data = temp[4].data
  BY PipeShift
<1>2. /\ Done \in 0 .. Len(lens)
      /\ Done' = IF Pops /\ Kind(asFifo[1]) = "sep" THEN Done + 1 ELSE Done
  BY DoneStep
<1>3. /\ Len(lens) \in Nat /\ Len(lens') \in Nat /\ Len(lens) <= Len(lens')
      /\ \A f \in 1 .. Len(lens) : lens'[f] = lens[f] /\ lens[f] \in Nat \ {0}
  BY LensGrow
<1>4. asFifo \in Seq(Words) /\ asFifo' \in Seq(Words) /\ tx \in Wires /\ temp \in Seq(Wires)
  BY FifoStep DEF Ranges, PipeType
<1>5. stateRd \in {"IDLE", "DISCARD_PKT_HEAD", "WAIT_TAIL"}
  BY DEF ReaderInv
<1>6. CASE stateRd = "WAIT_TAIL"
  <2>1. Pops /\ asFifo # << >> /\ Kind(asFifo[1]) \in {"byte", "sep"} /\ A!Dout = asFifo[1]
    BY <1>6, PopsMeans DEF ReaderInv
  <2>2. asFifo[1] \in Words
    BY <1>4, <2>1
  <2>3. /\ tx' = [en |-> asFifo[1].bit8, data |-> asFifo[1].data]
        /\ stateRd' = IF asFifo[1].bit8 THEN stateRd ELSE "IDLE"
    BY <1>6, <2>1 DEF A!Read, A!Wire
  <2>4. tx' \in Wires /\ tx'.en = asFifo[1].bit8 /\ tx'.data = asFifo[1].data
    BY <2>2, <2>3 DEF Words, Wires
  <2>5. CASE Kind(asFifo[1]) = "byte"
    <3>1. tx'.en /\ stateRd' = "WAIT_TAIL" /\ Done' = Done
      BY <1>2, <1>6, <2>3, <2>4, <2>5 DEF Kind
    <3>2. PICK i \in 1 .. lens[Done + 1] : tx'.data = <<Done + 1, i>> /\ Done < Len(lens)
      <4>1. 1 \in 1 .. Len(asFifo)
        BY <1>4, <2>1
      <4>2. /\ Done < Len(lens) /\ asFifo[1].data[1] = Done + 1
            /\ asFifo[1].data[2] \in 1 .. lens[Done + 1]
        BY <2>5, <4>1 DEF WordsInv
      <4>3. asFifo[1].data \in Nat \X Nat
        BY <2>2 DEF Words
      <4>4. asFifo[1].data = <<Done + 1, asFifo[1].data[2]>>
        BY <4>2, <4>3
      <4> QED
        BY <2>4, <4>2, <4>4
    <3>3. /\ Done' < Len(lens') /\ lens'[Done' + 1] = lens[Done + 1] /\ lens[Done + 1] \in Nat
          /\ Done + 1 \in 1 .. Len(lens)
      BY <1>2, <1>3, <3>1, <3>2
    <3>4. /\ Kind(asFifo'[1]) = "byte" => asFifo'[1].data[2] = i + 1
          /\ Kind(asFifo'[1]) = "sep" => i = lens[Done + 1]
      <4>1. PICK n \in Nat : n = Len(asFifo) /\ n >= 2
        <5>1. PICK n \in Nat : n = Len(asFifo)
          BY <1>4
        <5>2. n # 0
          BY <1>4, <2>1, <5>1
        <5>3. n # 1
          BY <1>6, <2>5, <5>1 DEF ReaderInv
        <5> QED
          BY <5>1, <5>2, <5>3
      <4>2. asFifo'[1] = asFifo[2] /\ Joins(lens, asFifo[1], asFifo[2])
        <5>1. 1 \in 1 .. n - 1 /\ 1 + 1 = 2
          BY <4>1
        <5>2. asFifo'[1] = asFifo[1 + 1] /\ Joins(lens, asFifo[1], asFifo[1 + 1])
          BY <2>1, <4>1, <5>1, FifoStep DEF WordsInv
        <5> QED
          BY <5>1, <5>2
      <4>3. asFifo[1].data[2] = i /\ asFifo[1].data[1] = Done + 1
        BY <2>4, <3>2
      <4> QED
        BY <2>5, <4>2, <4>3 DEF Joins
    <3>5. CASE tx.en
      <4>1. InFrame(tx.data[2])
        BY <3>5 DEF PipeInv
      <4>2. tx.data[2] = i - 1 /\ tx.data = <<Done + 1, i - 1>> /\ i - 1 >= 1
        <5>1. tx.data[2] + 1 = asFifo[1].data[2] /\ tx.data[2] \in 1 .. lens[Done + 1]
          BY <2>5, <4>1 DEF InFrame
        <5>2. asFifo[1].data[2] = i
          BY <2>4, <3>2
        <5> QED
          BY <4>1, <5>1, <5>2, <3>3 DEF InFrame
      <4>3. \A k \in 1 .. 4 : /\ temp[k].en <=> i - 1 > k
                              /\ temp[k].en => temp[k].data = <<Done + 1, i - 1 - k>>
        BY <4>1, <4>2 DEF InFrame
      <4>4. /\ temp[1].en <=> i > 2
            /\ temp[1].en => temp[1].data = <<Done + 1, i - 2>>
            /\ temp[2].en <=> i > 3
            /\ temp[2].en => temp[2].data = <<Done + 1, i - 3>>
            /\ temp[3].en <=> i > 4
            /\ temp[3].en => temp[3].data = <<Done + 1, i - 4>>
            /\ temp[4].en <=> i > 5
            /\ temp[4].en => temp[4].data = <<Done + 1, i - 5>>
        BY <3>3, <4>3
      <4>5. \A k \in 1 .. 4 : /\ temp'[k].en <=> i > k
                              /\ temp'[k].en => temp'[k].data = <<Done + 1, i - k>>
        <5>1. /\ temp'[1].en <=> i > 1
              /\ temp'[1].en => temp'[1].data = <<Done + 1, i - 1>>
          BY <1>1, <3>5, <4>2
        <5>2. /\ temp'[2].en <=> i > 2
              /\ temp'[2].en => temp'[2].data = <<Done + 1, i - 2>>
              /\ temp'[3].en <=> i > 3
              /\ temp'[3].en => temp'[3].data = <<Done + 1, i - 3>>
              /\ temp'[4].en <=> i > 4
              /\ temp'[4].en => temp'[4].data = <<Done + 1, i - 4>>
          BY <1>1, <4>4
        <5>3. \A k \in 1 .. 4 : k = 1 \/ k = 2 \/ k = 3 \/ k = 4
          OBVIOUS
        <5> QED
          BY <5>1, <5>2, <5>3
      <4>6. /\ gmiiOut'.en <=> i > 5
            /\ gmiiOut'.en => gmiiOut'.data = <<Done + 1, i - 5>>
        BY <1>1, <3>5, <4>4
      <4>7. InFrame(i)'
        BY <3>1, <3>2, <3>3, <3>4, <4>5, <4>6 DEF InFrame
      <4> QED
        BY <1>1, <2>4, <3>1, <3>2, <4>7 DEF PipeInv, PipeType
    <3>6. CASE ~tx.en
      <4>1. Between
        BY <1>6, <3>6 DEF PipeInv, FrameEnd
      <4>2. i = 1
        BY <1>6, <2>4, <3>2, <4>1 DEF Between
      <4>3. \A k \in 1 .. 4 : ~temp'[k].en
        <5>1. \A k \in 1 .. 4 : k = 1 \/ k = 2 \/ k = 3 \/ k = 4
          OBVIOUS
        <5> QED
          BY <1>1, <1>6, <3>6, <4>1, <5>1 DEF Between
      <4>4. ~gmiiOut'.en
        BY <1>1, <3>6
      <4>5. InFrame(i)'
        BY <3>1, <3>2, <3>3, <3>4, <4>2, <4>3, <4>4 DEF InFrame
      <4> QED
        BY <1>1, <2>4, <3>1, <3>2, <4>5 DEF PipeInv, PipeType
    <3> QED
      BY <3>5, <3>6
  <2>6. CASE Kind(asFifo[1]) = "sep"
    <3>1. ~tx'.en /\ stateRd' = "IDLE" /\ Done' = Done + 1
      BY <1>2, <2>1, <2>3, <2>4, <2>6 DEF Kind
    <3>2. tx.en
      BY <1>6, <2>6 DEF PipeInv, FrameEnd, Between
    <3>3. InFrame(tx.data[2])
      BY <3>2 DEF PipeInv
    <3>4. PICK n \in Nat \ {0} : n = lens[Done + 1] /\ tx.data = <<Done + 1, n>> /\ lens'[Done'] = n
      <4>1. Done + 1 \in 1 .. Len(lens)
        BY <1>2, <1>3, <3>3 DEF InFrame
      <4>2. tx.data[2] = lens[Done + 1] /\ tx.data = <<Done + 1, tx.data[2]>>
        BY <2>6, <3>3 DEF InFrame
      <4> QED
        BY <1>3, <3>1, <4>1, <4>2
    <3>5. \A k \in 1 .. 4 : /\ temp[k].en <=> n > k
                            /\ temp[k].en => temp[k].data = <<Done + 1, n - k>>
      <4>1. tx.data[2] = n
        BY <3>4
      <4> QED
        BY <3>3, <4>1 DEF InFrame
    <3>6. /\ temp[1].en <=> n >= 2
          /\ temp[1].en => temp[1].data = <<Done + 1, n - 1>>
          /\ temp[2].en <=> n >= 3
          /\ temp[2].en => temp[2].data = <<Done + 1, n - 2>>
          /\ temp[3].en <=> n >= 4
          /\ temp[3].en => temp[3].data = <<Done + 1, n - 3>>
          /\ temp[4].en <=> n > 4
          /\ temp[4].en => temp[4].data = <<Done + 1, n - 4>>
      BY <3>5
    <3>7. \A k \in 1 .. 4 : /\ temp'[k].en <=> n >= k
                            /\ temp'[k].en => temp'[k].data = <<Done + 1, n + 1 - k>>
      <4>1. /\ temp'[1].en <=> n >= 1
            /\ temp'[1].en => temp'[1].data = <<Done + 1, n + 1 - 1>>
        BY <1>1, <3>2, <3>4
      <4>2. /\ temp'[2].en <=> n >= 2
            /\ temp'[2].en => temp'[2].data = <<Done + 1, n + 1 - 2>>
            /\ temp'[3].en <=> n >= 3
            /\ temp'[3].en => temp'[3].data = <<Done + 1, n + 1 - 3>>
            /\ temp'[4].en <=> n >= 4
            /\ temp'[4].en => temp'[4].data = <<Done + 1, n + 1 - 4>>
        <5>1. n + 1 - 2 = n - 1 /\ n + 1 - 3 = n - 2 /\ n + 1 - 4 = n - 3
          OBVIOUS
        <5> QED
          BY <1>1, <3>6, <5>1
      <4>3. \A k \in 1 .. 4 : k = 1 \/ k = 2 \/ k = 3 \/ k = 4
        OBVIOUS
      <4> QED
        BY <4>1, <4>2, <4>3
    <3>8. /\ gmiiOut'.en <=> n > 4
          /\ gmiiOut'.en => gmiiOut'.data = <<Done + 1, n - 4>>
      BY <1>1, <3>2, <3>6
    <3>9. FrameEnd(n)'
      BY <1>2, <3>1, <3>4, <3>7, <3>8 DEF FrameEnd
    <3> QED
      BY <1>1, <2>4, <3>1, <3>2, <3>4, <3>9 DEF PipeInv, PipeType
  <2> QED
    BY <2>1, <2>5, <2>6
<1>7. CASE stateRd # "WAIT_TAIL"
  <2>1. tx' = tx /\ ~tx.en
    BY <1>5, <1>7 DEF A!Read, PipeInv, InFrame
  <2>2. ~temp'[1].en /\ ~gmiiOut'.en
    BY <1>1, <2>1
  <2>3. CASE stateRd = "IDLE"
    <3>1. stateRd' \in {"IDLE", "DISCARD_PKT_HEAD"}
      BY <2>3 DEF A!Read
    <3>2. stateRd' = "DISCARD_PKT_HEAD" => Kind(asFifo'[1]) = "x55"
      <4>1. stateRd' = "DISCARD_PKT_HEAD" => ~A!IsEmpty
        BY <2>3 DEF A!Read
      <4>2. ~A!IsEmpty => asFifo # << >>
        BY PopsMeans
      <4>3. asFifo # << >> => Kind(asFifo[1]) = "x55" /\ 1 \in 1 .. Len(asFifo)
        BY <1>4, <2>3 DEF ReaderInv
      <4>4. ~Pops
        BY <2>3, PopsMeans
      <4>5. asFifo # << >> => asFifo'[1] = asFifo[1]
        BY <4>3, <4>4, FifoStep
      <4> QED
        BY <4>1, <4>2, <4>3, <4>5
    <3> QED
      BY <1>1, <1>4, <2>1, <2>2, <3>1, <3>2 DEF PipeInv, PipeType, Between
  <2>4. CASE stateRd = "DISCARD_PKT_HEAD"
    <3>1. Between
      BY <2>1, <2>4 DEF PipeInv, FrameEnd
    <3>2. ~temp'[2].en
      BY <1>1, <3>1 DEF Between
    <3>3. A!Dout = asFifo[1] /\ Pops
      BY <2>4, PopsMeans
    <3>4. CASE Kind(asFifo[1]) = "xd5"
      <4>1. stateRd' = "WAIT_TAIL"
        BY <2>4, <3>3, <3>4 DEF A!Read, Kind
      <4>2. ~temp'[3].en
        BY <1>1, <2>4, <3>1, <3>4 DEF Between
      <4>3. Kind(asFifo'[1]) = "byte" /\ asFifo'[1].data[2] = 1
        <5>1. PICK n \in Nat : n = Len(asFifo) /\ n >= 2
          BY <1>4, <2>4 DEF ReaderInv
        <5>2. 1 \in 1 .. n - 1 /\ 1 + 1 = 2
          BY <5>1
        <5>3. asFifo'[1] = asFifo[2] /\ Joins(lens, asFifo[1], asFifo[2]) /\ Follows(asFifo[1], asFifo[2])
          BY <3>3, <5>1, <5>2, FifoStep DEF WordsInv, StreamInv
        <5> QED
          BY <3>4, <5>3 DEF Joins, Follows, Behind
      <4> QED
        BY <1>1, <1>4, <2>1, <2>2, <3>2, <4>1, <4>2, <4>3 DEF PipeInv, PipeType, Between
    <3>5. CASE Kind(asFifo[1]) # "xd5"
      <4>1. stateRd' = "DISCARD_PKT_HEAD"
        <5>1. Kind(asFifo[1]) = "x55"
          BY <2>4, <3>5 DEF ReaderInv
        <5>2. asFifo[1].data # A!XD5
          BY <5>1 DEF Kind
        <5> QED
          BY <2>4, <3>3, <5>2 DEF A!Read
      <4> QED
        BY <1>1, <1>4, <2>1, <2>2, <3>2, <4>1 DEF PipeInv, PipeType, Between
    <3> QED
      BY <3>4, <3>5
  <2> QED
    BY <1>5, <1>7, <2>3, <2>4
<1> QED
  BY <1>6, <1>7

(* The byte at gmii_data_o: its frame, and its place in it.  Bytes of a     *)
(* frame come one in each clock, up to the CRC, and behind the last one     *)
(* there is more than one clock without a byte.                             *)
Frame == gmiiOut.data[1]
Place == gmiiOut.data[2]

LEMMA BytesOfFrame ==
  ASSUME Ranges, WriterInv, StreamInv, ReaderInv, WordsInv, PipeType, PipeInv,
         NEW start, A!Line(start), A!Write, A!Fifo, A!Read, A!Check
  PROVE  /\ gmiiOut.en => Frame \in 1 .. Len(lens) /\ Place \in 1 .. lens[Frame] - A!CRC
         /\ gmiiOut.en /\ gmiiOut'.en => gmiiOut'.data = <<Frame, Place + 1>>
         /\ gmiiOut.en /\ ~gmiiOut'.en =>
              /\ Place = lens[Frame] - A!CRC /\ Frame = Done' /\ Done' > 0
              /\ ~tx.en /\ ~tx'.en
         /\ ~gmiiOut.en /\ gmiiOut'.en =>
              /\ gmiiOut'.data = <<Done + 1, 1>> /\ tx.en /\ Done' + 1 \in {Done + 1, Done + 2}
<1>1. /\ gmiiOut'.en <=> tx.en /\ temp[4].en
      /\ gmiiOut'.data = temp[4].data
  BY PipeShift
<1>2. /\ Done \in 0 .. Len(lens)
      /\ Done' = IF Pops /\ Kind(asFifo[1]) = "sep" THEN Done + 1 ELSE Done
      /\ Len(lens) \in Nat /\ \A f \in 1 .. Len(lens) : lens[f] \in Nat \ {0}
  BY DoneStep, LensGrow
<1>3. A!CRC = 4
  BY DEF A!CRC
<1>4. CASE tx.en
  <2>1. PICK i \in Nat, n \in Nat :
          /\ InFrame(i) /\ n = lens[Done + 1] /\ i \in 1 .. n /\ Done + 1 \in 1 .. Len(lens)
    <3>1. InFrame(tx.data[2])
      BY <1>4 DEF PipeInv
    <3>2. Done + 1 \in 1 .. Len(lens)
      BY <1>2, <3>1 DEF InFrame
    <3>3. lens[Done + 1] \in Nat /\ tx.data[2] \in 1 .. lens[Done + 1]
      BY <1>2, <3>1, <3>2 DEF InFrame
    <3> QED
      BY <3>1, <3>2, <3>3
  <2>2. /\ gmiiOut.en <=> i > 5
        /\ gmiiOut.en => gmiiOut.data = <<Done + 1, i - 5>>
    BY <2>1 DEF InFrame
  <2>3. /\ gmiiOut'.en <=> i > 4
        /\ gmiiOut'.en => gmiiOut'.data = <<Done + 1, i - 4>>
    <3>1. \A k \in 1 .. 4 : /\ temp[k].en <=> i > k
                            /\ temp[k].en => temp[k].data = <<Done + 1, i - k>>
      BY <2>1 DEF InFrame
    <3>2. 4 \in 1 .. 4
      OBVIOUS
    <3>3. /\ temp[4].en <=> i > 4
          /\ temp[4].en => temp[4].data = <<Done + 1, i - 4>>
      BY <3>1, <3>2
    <3> QED
      BY <1>1, <1>4, <3>3
  <2>4. gmiiOut.en => Frame = Done + 1 /\ Place = i - 5
    BY <2>2 DEF Frame, Place
  <2>5. gmiiOut.en => Frame \in 1 .. Len(lens) /\ Place \in 1 .. lens[Frame] - A!CRC
    BY <1>3, <2>1, <2>2, <2>4
  <2>6. gmiiOut.en /\ gmiiOut'.en => gmiiOut'.data = <<Frame, Place + 1>>
    BY <2>1, <2>3, <2>4
  <2>7. ~gmiiOut.en /\ gmiiOut'.en => gmiiOut'.data = <<Done + 1, 1>>
    BY <2>1, <2>2, <2>3
  <2>8. gmiiOut.en => gmiiOut'.en
    BY <2>1, <2>2, <2>3
  <2> QED
    BY <1>2, <1>4, <2>5, <2>6, <2>7, <2>8
<1>5. CASE ~tx.en /\ temp[1].en
  <2>1. PICK n \in Nat : FrameEnd(n) /\ n = lens[Done] /\ Done \in 1 .. Len(lens)
    <3>1. FrameEnd(lens[Done])
      BY <1>5 DEF PipeInv
    <3>2. Done \in 1 .. Len(lens)
      BY <1>2, <3>1 DEF FrameEnd
    <3> QED
      BY <1>2, <3>1, <3>2
  <2>2. /\ gmiiOut.en <=> n > 4
        /\ gmiiOut.en => Frame = Done /\ Place = n - 4
    BY <2>1 DEF FrameEnd, Frame, Place
  <2>3. Done' = Done /\ tx' = tx
    <3>1. stateRd = "IDLE"
      BY <2>1 DEF FrameEnd
    <3> QED
      BY <1>2, <3>1, PopsMeans DEF A!Read
  <2> QED
    BY <1>1, <1>3, <1>5, <2>1, <2>2, <2>3
<1>6. CASE ~tx.en /\ ~temp[1].en
  BY <1>1, <1>6 DEF PipeInv, Between
<1> QED
  BY <1>4, <1>5, <1>6
-----------------------------------------------------------------------------
(* gmii_to_134b_pkt.v: the words, and the clocks since the frame began.     *)
PktWords == [mark : G!Marks, n : 0 .. W, bytes : [0 .. W - 1 -> Nat \X Nat]]

AccuType ==
  /\ stateAccu \in {"IDLE", "WAIT_TAIL", "OVERFLOW"}
  /\ pktTag \in [0 .. W - 1 -> Nat \X Nat]
  /\ cntValid \in 0 .. W - 1 /\ cnt16 \in 0 .. T
  /\ head \in BOOLEAN /\ wrenPkt \in BOOLEAN /\ finish \in BOOLEAN
  /\ dinPkt \in PktWords

(* Bytes of the frame that are in words, or in the word being filled. *)
Filled ==
  IF stateAccu = "IDLE" THEN cntValid
  ELSE IF stateAccu = "WAIT_TAIL" THEN W * cnt16 + (IF cntValid = 0 THEN W ELSE cntValid)
  ELSE 0

(* A frame that ends has more than a word, so what is counted is written. *)
AccuInv ==
  /\ stateAccu = "IDLE" =>
       /\ cntValid = W - 1 => gmiiOut.en
       /\ gmiiOut.en => cntValid = Place - 1
       /\ finish => cnt16 \in 1 .. T - 1
  /\ stateAccu = "WAIT_TAIL" =>
       /\ ~finish
       /\ head => cntValid = 0 /\ cnt16 = 0 /\ gmiiOut.en /\ ~wrenPkt
       /\ ~head => cnt16 \in 1 .. T - 1
       /\ gmiiOut.en => Place = Filled + 1
       /\ ~gmiiOut.en => Done > 0 /\ lens[Done] = Filled + A!CRC
       /\ wrenPkt => cntValid = 1 /\ dinPkt.mark = IF cnt16 = 1 THEN "head" ELSE "body"
  /\ stateAccu = "OVERFLOW" => cntValid = 1 /\ (finish => cnt16 = T)
  /\ stateAccu # "WAIT_TAIL" => (wrenPkt <=> finish)
  /\ finish => dinPkt.mark = "tail"
  /\ stateAccu # "IDLE" /\ ~gmiiOut.en => ~tx.en

LEMMA AccuTypeStep ==
  ASSUME AccuType, AccuInv, PipeType, G!Accumulate
  PROVE  AccuType'
<1>1. W \in Nat /\ W > 2 /\ T \in Nat /\ T >= 2 /\ T < 255
  BY Sizes
<1>2. gmiiOut.data \in Nat \X Nat
  BY DEF PipeType, Wires
<1>3. [pktTag EXCEPT ![cntValid] = gmiiOut.data] \in [0 .. W - 1 -> Nat \X Nat]
  BY <1>2 DEF AccuType
<1>4. (cntValid + 1) % W \in 0 .. W - 1
  BY <1>1 DEF AccuType
<1>13. cnt16 # T => (cnt16 + 1) % 256 = cnt16 + 1 /\ cnt16 + 1 \in 0 .. T
  <2>1. cnt16 \in 0 .. T
    BY DEF AccuType
  <2> QED
    BY <1>1, <2>1
<1>5. ASSUME NEW mark \in G!Marks, NEW n \in 0 .. W PROVE G!Word(mark, n, pktTag) \in PktWords
  BY DEF G!Word, PktWords, AccuType
<1>6. "head" \in G!Marks /\ "body" \in G!Marks /\ "tail" \in G!Marks /\ "none" \in G!Marks
  BY DEF G!Marks
<1>7. CASE stateAccu = "IDLE" /\ G!FirstWord
  <2>1. G!NoWord \in PktWords
    <3>1. [i \in 0 .. W - 1 |-> G!Pad] \in [0 .. W - 1 -> Nat \X Nat]
      BY DEF G!Pad
    <3> QED
      BY <1>1, <1>6, <3>1 DEF G!NoWord, G!Word, PktWords
  <2>2. cntValid' \in 0 .. W - 1
    <3>1. cntValid' = IF gmiiOut.en THEN (cntValid + 1) % W ELSE 0
      BY <1>7 DEF G!FirstWord, G!DataValid
    <3>2. 0 \in 0 .. W - 1
      BY <1>1
    <3> QED
      BY <1>4, <3>1, <3>2
  <2>3. pktTag' \in [0 .. W - 1 -> Nat \X Nat]
    <3>1. pktTag' = IF gmiiOut.en THEN [pktTag EXCEPT ![cntValid] = gmiiOut.data] ELSE pktTag
      BY <1>7 DEF G!FirstWord, G!DataValid, G!Data
    <3> QED
      BY <1>3, <3>1 DEF AccuType
  <2>4. /\ stateAccu' = IF cntValid = W - 1 THEN "WAIT_TAIL" ELSE "IDLE"
        /\ finish' = FALSE /\ wrenPkt' = FALSE /\ dinPkt' = G!NoWord /\ head' = TRUE /\ cnt16' = 0
    BY <1>7 DEF G!FirstWord
  <2>5. cnt16' \in 0 .. T
    BY <1>1, <2>4
  <2> QED
    BY <2>1, <2>2, <2>3, <2>4, <2>5 DEF AccuType
<1>8. CASE stateAccu = "WAIT_TAIL" /\ gmiiOut.en /\ G!MoreBytes
  <2>1. cntValid' \in 0 .. W - 1 /\ pktTag' \in [0 .. W - 1 -> Nat \X Nat]
    BY <1>1, <1>3, <1>4, <1>8 DEF G!MoreBytes, G!Data
  <2>2. head' \in BOOLEAN /\ wrenPkt' \in BOOLEAN
    BY <1>8 DEF G!MoreBytes
  <2>3. W \in 0 .. W
    BY <1>1
  <2>4. /\ cnt16' \in 0 .. T /\ stateAccu' \in {"IDLE", "WAIT_TAIL", "OVERFLOW"}
        /\ finish' \in BOOLEAN /\ dinPkt' \in PktWords
    <3>1. CASE cntValid # 0
      BY <1>8, <3>1 DEF G!MoreBytes, AccuType
    <3>2. CASE cntValid = 0 /\ cnt16 = T - 1
      <4>1. /\ cnt16' = (cnt16 + 1) % 256 /\ stateAccu' = "OVERFLOW" /\ finish' = TRUE
            /\ dinPkt' = G!Word("tail", W, pktTag)
        BY <1>8, <3>2 DEF G!MoreBytes
      <4>2. cnt16 # T
        BY <1>1, <3>2
      <4>3. cnt16' \in 0 .. T
        BY <1>13, <4>1, <4>2
      <4>4. dinPkt' \in PktWords
        BY <1>5, <1>6, <2>3, <4>1
      <4> QED
        BY <4>1, <4>3, <4>4
    <3>3. CASE cntValid = 0 /\ cnt16 # T - 1
      <4>1. cnt16' = (cnt16 + 1) % 256 /\ stateAccu' = stateAccu /\ finish' = finish
        BY <1>8, <3>3 DEF G!MoreBytes
      <4>2. dinPkt' = G!Word(IF head THEN "head" ELSE "body", W, pktTag)
        BY <1>8, <3>3 DEF G!MoreBytes
      <4>3. (IF head THEN "head" ELSE "body") \in G!Marks
        BY <1>6
      <4>4. dinPkt' \in PktWords
        BY <1>5, <2>3, <4>2, <4>3
      <4>5. cnt16' \in 0 .. T
        <5>1. cnt16 # T
          BY <1>1, <1>8 DEF AccuInv
        <5> QED
          BY <1>13, <4>1, <5>1
      <4> QED
        BY <4>1, <4>4, <4>5 DEF AccuType
    <3> QED
      BY <3>1, <3>2, <3>3
  <2> QED
    BY <2>1, <2>2, <2>4 DEF AccuType
<1>9. CASE stateAccu = "WAIT_TAIL" /\ ~gmiiOut.en /\ G!EndOfFrame
  <2>1. ((cntValid + W - 1) % W) + 1 \in 0 .. W
    BY <1>1 DEF AccuType
  <2>2. dinPkt' \in PktWords
    BY <1>5, <1>6, <1>9, <2>1 DEF G!EndOfFrame
  <2> QED
    BY <1>1, <1>9, <2>2 DEF G!EndOfFrame, AccuType
<1>10. CASE stateAccu = "OVERFLOW" /\ G!RestOfFrame
  BY <1>10 DEF G!RestOfFrame, AccuType
<1> QED
  BY <1>7, <1>8, <1>9, <1>10 DEF G!Accumulate, G!DataValid

LEMMA AccuStep ==
  ASSUME Ranges, WriterInv, StreamInv, ReaderInv, WordsInv, PipeType, PipeInv, AccuType, AccuInv,
         NEW start, A!Line(start), A!Write, A!Fifo, A!Read, A!Check, G!Accumulate
  PROVE  AccuInv'
<1>1. W \in Nat /\ W > 2 /\ T \in Nat /\ T >= 2 /\ T < 255 /\ A!CRC = 4
  BY Sizes DEF A!CRC
<1>2. /\ gmiiOut.en => Frame \in 1 .. Len(lens) /\ Place \in 1 .. lens[Frame] - A!CRC
      /\ gmiiOut.en /\ gmiiOut'.en => Place' = Place + 1
      /\ gmiiOut.en /\ ~gmiiOut'.en =>
              /\ Place = lens[Frame] - A!CRC /\ Frame = Done' /\ Done' > 0
              /\ ~tx.en /\ ~tx'.en
      /\ ~gmiiOut.en /\ gmiiOut'.en => Place' = 1 /\ tx.en
  BY BytesOfFrame DEF Place
<1>3. /\ \A f \in 1 .. Len(lens) : lens'[f] = lens[f] /\ lens[f] \in Nat \ {0} /\ lens[f] \in Lengths
  <2>1. \A f \in 1 .. Len(lens) : lens[f] \in Lengths
    BY DEF Ranges
  <2> QED
    BY <2>1, LensGrow
<1>4. gmiiOut.en /\ ~gmiiOut'.en =>
        lens'[Done'] = Place + A!CRC /\ Place # W /\ Place # W - 1
  <2>1. SUFFICES ASSUME gmiiOut.en, ~gmiiOut'.en
                 PROVE lens'[Done'] = Place + A!CRC /\ Place # W /\ Place # W - 1
    OBVIOUS
  <2>2. Frame \in 1 .. Len(lens) /\ Place = lens[Frame] - A!CRC /\ Done' = Frame
    BY <1>2, <2>1
  <2>3. lens[Frame] \in Nat /\ lens[Frame] \in Lengths /\ lens'[Done'] = lens[Frame]
    BY <1>3, <2>2
  <2>4. A!CRC + W - 1 \notin Lengths /\ A!CRC + W \notin Lengths
    BY Sizes
  <2>5. lens[Frame] # A!CRC + W - 1 /\ lens[Frame] # A!CRC + W
    BY <2>3, <2>4
  <2> QED
    BY <1>1, <2>2, <2>3, <2>5
<1>5. gmiiOut.en => Place \in Nat \ {0}
  BY <1>1, <1>2, <1>3
<1>6. cntValid \in 0 .. W - 1 /\ cnt16 \in 0 .. T /\ W * cnt16 \in Nat
  <2>1. cnt16 \in Nat /\ cntValid \in 0 .. W - 1 /\ cnt16 \in 0 .. T
    BY <1>1 DEF AccuType
  <2> QED
    BY <1>1, <2>1
<1>7. (cntValid + 1) % W = IF cntValid = W - 1 THEN 0 ELSE cntValid + 1
  BY <1>1, <1>6
<1>7a. cnt16 # T => (cnt16 + 1) % 256 = cnt16 + 1
  BY <1>1, <1>6
<1>8. CASE stateAccu = "IDLE" /\ G!FirstWord
  <2>1. /\ finish' = FALSE /\ wrenPkt' = FALSE /\ cnt16' = 0 /\ head' = TRUE
        /\ cntValid' = IF gmiiOut.en THEN (cntValid + 1) % W ELSE 0
        /\ stateAccu' = IF cntValid = W - 1 THEN "WAIT_TAIL" ELSE "IDLE"
    BY <1>8 DEF G!FirstWord, G!DataValid
  <2>2. (cntValid = W - 1 => gmiiOut.en) /\ (gmiiOut.en => cntValid = Place - 1)
    BY <1>8 DEF AccuInv
  <2>3. CASE cntValid = W - 1
    <3>1. gmiiOut.en /\ Place = W /\ cntValid' = 0
      BY <1>1, <1>5, <1>7, <2>1, <2>2, <2>3
    <3>2. gmiiOut'.en /\ Place' = W + 1
      BY <1>2, <1>4, <3>1
    <3>3. Filled' = W
      <4>1. W * 0 = 0
        BY <1>1
      <4> QED
        BY <1>1, <2>1, <2>3, <3>1, <4>1 DEF Filled
    <3> QED
      BY <2>1, <2>3, <3>1, <3>2, <3>3 DEF AccuInv
  <2>4. CASE cntValid # W - 1
    <3>1. stateAccu' = "IDLE"
      BY <2>1, <2>4
    <3>2. cntValid' = W - 1 => gmiiOut'.en
      <4>1. SUFFICES ASSUME cntValid' = W - 1, ~gmiiOut'.en PROVE FALSE
        OBVIOUS
      <4>2. gmiiOut.en /\ cntValid' = cntValid + 1
        BY <1>1, <1>7, <2>1, <2>4, <4>1
      <4>3. Place = W - 1
        BY <1>1, <1>5, <1>6, <2>2, <4>1, <4>2
      <4> QED
        BY <1>4, <4>1, <4>2, <4>3
    <3>3. gmiiOut'.en => cntValid' = Place' - 1
      <4>1. CASE gmiiOut.en
        BY <1>2, <1>5, <1>6, <1>7, <2>1, <2>2, <2>4, <4>1
      <4>2. CASE ~gmiiOut.en
        BY <1>2, <2>1, <4>2
      <4> QED
        BY <4>1, <4>2
    <3> QED
      BY <2>1, <3>1, <3>2, <3>3 DEF AccuInv
  <2> QED
    BY <2>3, <2>4
<1>9. CASE stateAccu = "WAIT_TAIL" /\ gmiiOut.en /\ G!MoreBytes
  <2>1. /\ ~finish /\ Place = Filled + 1
        /\ Filled = W * cnt16 + (IF cntValid = 0 THEN W ELSE cntValid)
        /\ head => cntValid = 0 /\ cnt16 = 0
        /\ ~head => cnt16 \in 1 .. T - 1
    BY <1>9 DEF AccuInv, Filled
  <2>2. /\ cntValid' = (cntValid + 1) % W /\ head' = FALSE /\ wrenPkt' = (cntValid = 0)
        /\ cntValid = 0 =>
             /\ cnt16' = (cnt16 + 1) % 256
             /\ cnt16 = T - 1 => stateAccu' = "OVERFLOW" /\ finish' = TRUE
                                 /\ dinPkt' = G!Word("tail", W, pktTag)
             /\ cnt16 # T - 1 => stateAccu' = stateAccu /\ finish' = finish
                                 /\ dinPkt' = G!Word(IF head THEN "head" ELSE "body", W, pktTag)
        /\ cntValid # 0 => UNCHANGED <<cnt16, stateAccu, finish, dinPkt>>
    BY <1>9 DEF G!MoreBytes
  <2>3. /\ gmiiOut'.en => Place' = Filled + 2
        /\ ~gmiiOut'.en => Done' > 0 /\ lens'[Done'] = Filled + 1 + A!CRC /\ ~tx'.en
    <3>1. Filled \in Nat
      BY <1>1, <1>6, <2>1
    <3>2. gmiiOut'.en => Place' = Filled + 1 + 1
      BY <1>2, <1>9, <2>1
    <3>3. ~gmiiOut'.en => Done' > 0 /\ ~tx'.en /\ lens'[Done'] = Filled + 1 + A!CRC
      BY <1>2, <1>4, <1>9, <2>1
    <3> QED
      BY <3>1, <3>2, <3>3
  <2>4. CASE cntValid = 0 /\ cnt16 = T - 1
    <3>1. ~head
      BY <1>1, <2>1, <2>4
    <3>2. /\ stateAccu' = "OVERFLOW" /\ finish' = TRUE /\ wrenPkt' = TRUE /\ cntValid' = 1
          /\ cnt16' = T
      <4>1. cnt16 # T /\ cnt16 + 1 = T /\ cntValid + 1 = 1 /\ cntValid # W - 1
        BY <1>1, <2>4
      <4>2. stateAccu' = "OVERFLOW" /\ finish' = TRUE /\ wrenPkt' = TRUE
        BY <2>2, <2>4
      <4> QED
        BY <1>7, <1>7a, <2>2, <2>4, <4>1, <4>2
    <3>3. dinPkt'.mark = "tail"
      BY <2>2, <2>4 DEF G!Word
    <3> QED
      BY <2>3, <3>2, <3>3 DEF AccuInv
  <2>5. CASE cntValid = 0 /\ cnt16 # T - 1
    <3>1. /\ stateAccu' = "WAIT_TAIL" /\ ~finish' /\ wrenPkt' = TRUE /\ cntValid' = 1 /\ ~head'
          /\ cnt16' = cnt16 + 1
      <4>1. cnt16 # T /\ cntValid + 1 = 1 /\ cntValid # W - 1
        BY <1>1, <2>1, <2>5
      <4>2. stateAccu' = "WAIT_TAIL" /\ ~finish' /\ wrenPkt' = TRUE /\ ~head'
        <5>1. wrenPkt' = TRUE
          BY <2>2, <2>5
        <5>2. stateAccu' = stateAccu /\ finish' = finish
          BY <2>2, <2>5
        <5>3. ~head'
          BY <2>2
        <5> QED
          BY <1>9, <2>1, <5>1, <5>2, <5>3
      <4> QED
        BY <1>7, <1>7a, <2>2, <2>5, <4>1, <4>2
    <3>2. dinPkt'.mark = IF head THEN "head" ELSE "body"
      BY <2>2, <2>5 DEF G!Word
    <3>3. cnt16' \in 1 .. T - 1 /\ (head <=> cnt16' = 1)
      BY <1>1, <1>6, <2>1, <2>5, <3>1
    <3>4. Filled' = Filled + 1 /\ Filled \in Nat
      <4>1. W * (cnt16 + 1) = W * cnt16 + W
        BY <1>1, <1>6
      <4>2. Filled' = W * (cnt16 + 1) + 1
        BY <3>1 DEF Filled
      <4>3. Filled = W * cnt16 + W
        BY <2>1, <2>5
      <4> QED
        BY <1>1, <1>6, <4>1, <4>2, <4>3
    <3>5. /\ gmiiOut'.en => Place' = Filled' + 1
          /\ ~gmiiOut'.en => lens'[Done'] = Filled' + A!CRC
      BY <1>1, <2>3, <3>4
    <3> QED
      BY <2>3, <3>1, <3>2, <3>3, <3>5 DEF AccuInv
  <2>6. CASE cntValid # 0
    <3>1. /\ stateAccu' = "WAIT_TAIL" /\ ~finish' /\ wrenPkt' = FALSE /\ ~head' /\ ~head
          /\ cnt16' = cnt16
      <4>1. wrenPkt' = FALSE
        BY <2>2, <2>6
      <4>2. ~head /\ ~head'
        BY <2>1, <2>2, <2>6
      <4>3. cnt16' = cnt16 /\ stateAccu' = stateAccu /\ finish' = finish
        BY <2>2, <2>6
      <4> QED
        BY <1>9, <2>1, <4>1, <4>2, <4>3
    <3>2. Filled' = Filled + 1 /\ Filled \in Nat
      <4>1. Filled = W * cnt16 + cntValid
        BY <2>1, <2>6
      <4>2. Filled' = W * cnt16 + (IF cntValid' = 0 THEN W ELSE cntValid')
        BY <3>1 DEF Filled
      <4>3. (IF cntValid' = 0 THEN W ELSE cntValid') = cntValid + 1
        BY <1>1, <1>6, <1>7, <2>2
      <4>4. cntValid \in Nat
        BY <1>1, <1>6
      <4> QED
        BY <1>6, <4>1, <4>2, <4>3, <4>4
    <3>3. /\ gmiiOut'.en => Place' = Filled' + 1
          /\ ~gmiiOut'.en => lens'[Done'] = Filled' + A!CRC
      BY <1>1, <2>3, <3>2
    <3> QED
      BY <2>1, <2>3, <3>1, <3>3 DEF AccuInv
  <2> QED
    BY <2>4, <2>5, <2>6
<1>10. CASE stateAccu = "WAIT_TAIL" /\ ~gmiiOut.en /\ G!EndOfFrame
  <2>1. ~head /\ cnt16 \in 1 .. T - 1 /\ ~tx.en
    BY <1>10 DEF AccuInv
  <2>2. /\ finish' = TRUE /\ dinPkt'.mark = "tail" /\ wrenPkt' = TRUE
        /\ stateAccu' = "IDLE" /\ cntValid' = 0 /\ cnt16' = cnt16
    BY <1>10, <2>1 DEF G!EndOfFrame, G!Word
  <2>3. ~gmiiOut'.en
    BY <1>2, <1>10, <2>1
  <2> QED
    BY <1>1, <2>1, <2>2, <2>3 DEF AccuInv
<1>11. CASE stateAccu = "OVERFLOW" /\ G!RestOfFrame
  <2>1. /\ wrenPkt' = FALSE /\ finish' = FALSE /\ cntValid' = cntValid /\ cntValid = 1
        /\ stateAccu' = IF gmiiOut.en THEN "OVERFLOW" ELSE "IDLE"
        /\ ~gmiiOut.en => ~tx.en
    BY <1>11 DEF G!RestOfFrame, G!DataValid, AccuInv
  <2>2. ~gmiiOut.en => ~gmiiOut'.en
    BY <1>2, <2>1
  <2>3. gmiiOut.en /\ ~gmiiOut'.en => ~tx'.en
    BY <1>2
  <2> QED
    BY <1>1, <2>1, <2>2, <2>3 DEF AccuInv
<1> QED
  BY <1>8, <1>9, <1>10, <1>11 DEF G!Accumulate, G!DataValid
-----------------------------------------------------------------------------
(* Tails in a FIFO: none without a tail, and a push and a pop of one. *)
Tails(f) == Cardinality({k \in 1 .. Len(f) : f[k].mark = "tail"})

LEMMA TailsOf ==
  ASSUME NEW S, NEW f \in Seq(S)
  PROVE  /\ Tails(f) \in Nat /\ Tails(f) <= Len(f)
         /\ Tails(f) = 0 <=> \A k \in 1 .. Len(f) : f[k].mark # "tail"
<1> DEFINE K == {k \in 1 .. Len(f) : f[k].mark = "tail"}
<1>1. Len(f) \in Nat
  OBVIOUS
<1>2. IsFiniteSet(1 .. Len(f)) /\ Cardinality(1 .. Len(f)) = Len(f)
  BY <1>1, FS_Interval
<1>3. K \in SUBSET (1 .. Len(f))
  OBVIOUS
<1>4. IsFiniteSet(K) /\ Cardinality(K) <= Len(f)
  BY <1>2, <1>3, FS_Subset
<1>5. Cardinality(K) \in Nat
  BY <1>4, FS_CardinalityType
<1>6. Cardinality(K) = 0 <=> K = {}
  BY <1>4, FS_EmptySet
<1>7. K = {} <=> \A k \in 1 .. Len(f) : f[k].mark # "tail"
  OBVIOUS
<1>8. Tails(f) = Cardinality(K)
  BY DEF Tails
<1> HIDE DEF K
<1> QED
  BY <1>4, <1>5, <1>6, <1>7, <1>8

LEMMA TailsPush ==
  ASSUME NEW S, NEW f \in Seq(S), NEW x \in S
  PROVE  Tails(Append(f, x)) = Tails(f) + (IF x.mark = "tail" THEN 1 ELSE 0)
<1> DEFINE g == Append(f, x)
           n == Len(f)
           K == {k \in 1 .. n : f[k].mark = "tail"}
           U == {k \in 1 .. n + 1 : g[k].mark = "tail"}
<1>1. n \in Nat /\ Len(g) = n + 1 /\ g[n + 1] = x /\ \A k \in 1 .. n : g[k] = f[k]
  OBVIOUS
<1>2. IsFiniteSet(K)
  <2>1. IsFiniteSet(1 .. n)
    BY <1>1, FS_Interval
  <2> QED
    BY <2>1, FS_Subset
<1>3. n + 1 \notin K
  BY <1>1
<1>4. Tails(f) = Cardinality(K) /\ Tails(g) = Cardinality(U)
  BY <1>1 DEF Tails
<1>5. CASE x.mark = "tail"
  <2>1. U = K \cup {n + 1}
    BY <1>1, <1>5
  <2>2. Cardinality(K \cup {n + 1}) = Cardinality(K) + 1
    BY <1>2, <1>3, FS_AddElement
  <2> QED
    BY <1>4, <1>5, <2>1, <2>2
<1>6. CASE x.mark # "tail"
  <2>1. U = K
    BY <1>1, <1>6
  <2> HIDE DEF K, U
  <2>2. Cardinality(K) \in Nat
    BY <1>2, FS_CardinalityType
  <2> QED
    BY <1>4, <1>6, <2>1, <2>2
<1> QED
  BY <1>5, <1>6

LEMMA TailsPop ==
  ASSUME NEW S, NEW f \in Seq(S), f # << >>
  PROVE  Tails(Tail(f)) = Tails(f) - (IF f[1].mark = "tail" THEN 1 ELSE 0)
<1> DEFINE g == Tail(f)
           n == Len(g)
           K == {k \in 1 .. n : g[k].mark = "tail"}
           R == {k \in 2 .. n + 1 : f[k].mark = "tail"}
           U == {k \in 1 .. n + 1 : f[k].mark = "tail"}
<1>1. n \in Nat /\ Len(f) = n + 1 /\ \A k \in 1 .. n : g[k] = f[k + 1]
  OBVIOUS
<1>2. IsFiniteSet(K)
  <2>1. IsFiniteSet(1 .. n)
    BY <1>1, FS_Interval
  <2> QED
    BY <2>1, FS_Subset
<1>3. ExistsBijection(K, R)
  <2> DEFINE h == [k \in K |-> k + 1]
  <2>1. h \in [K -> R]
    BY <1>1
  <2>2. \A a, b \in K : h[a] = h[b] => a = b
    OBVIOUS
  <2>3. \A b \in R : \E a \in K : h[a] = b
    <3> TAKE b \in R
    <3>1. b - 1 \in K
      BY <1>1
    <3>2. h[b - 1] = b
      BY <3>1
    <3> QED
      BY <3>1, <3>2
  <2> HIDE DEF h, K, R
  <2>4. h \in Bijection(K, R)
    BY <2>1, <2>2, <2>3, Fun_IsBij
  <2> QED
    BY <2>4 DEF ExistsBijection
<1>4. IsFiniteSet(R) /\ Cardinality(R) = Cardinality(K)
  BY <1>2, <1>3, FS_Bijection
<1>5. Tails(f) = Cardinality(U) /\ Tails(g) = Cardinality(K) /\ Cardinality(K) \in Nat
  BY <1>1, <1>2, FS_CardinalityType DEF Tails
<1>6. CASE f[1].mark = "tail"
  <2>1. U = R \cup {1} /\ 1 \notin R
    BY <1>1, <1>6
  <2>2. Cardinality(R \cup {1}) = Cardinality(R) + 1
    BY <1>4, <2>1, FS_AddElement
  <2> HIDE DEF K, R, U
  <2> QED
    BY <1>4, <1>5, <1>6, <2>1, <2>2
<1>7. CASE f[1].mark # "tail"
  <2>1. U = R
    BY <1>1, <1>7
  <2> HIDE DEF K, R, U
  <2> QED
    BY <1>4, <1>5, <1>7, <2>1
<1> QED
  BY <1>6, <1>7
-----------------------------------------------------------------------------
(* fifo_134b_512: whole packets, and the words so far of the one that is    *)
(* being filled.                                                            *)
Open ==
  IF stateAccu = "WAIT_TAIL" THEN cnt16 - (IF wrenPkt THEN 1 ELSE 0)
  ELSE IF ~finish THEN 0
  ELSE IF stateAccu = "IDLE" THEN cnt16 ELSE cnt16 - 1

Closed  == Len(fifoPkt) - Open
Reading == stateRead = "WAIT_TAIL"

FifoType ==
  /\ fifoPkt \in Seq(PktWords) /\ dout \in PktWords /\ pktData \in PktWords
  /\ cntPkt \in Nat /\ rdenPkt \in BOOLEAN /\ rdenTemp \in BOOLEAN /\ pktValid \in BOOLEAN
  /\ stateRead \in {"IDLE", "WAIT_TAIL", "WAIT_1_CLK"}

FifoInv ==
  /\ Open \in 0 .. Len(fifoPkt)
  /\ \A k \in 1 .. Len(fifoPkt) :
       k > Closed => fifoPkt[k].mark = IF k = Closed + 1 THEN "head" ELSE "body"
  /\ Closed > 0 => fifoPkt[Closed].mark = "tail"
  /\ \A k \in 1 .. Len(fifoPkt) - 1 :
       fifoPkt[k].mark = "tail" => fifoPkt[k + 1].mark = "head"
  /\ fifoPkt # << >> => dout = fifoPkt[1]
  /\ fifoPkt # << >> /\ ~(Reading /\ rdenTemp) => fifoPkt[1].mark = "head"

(* cnt_pkt_fifo counts the tails, but the one the reader is on its way to. *)
ReadInv ==
  /\ rdenPkt <=> Reading
  /\ stateRead = "IDLE" => ~rdenTemp
  /\ Reading => Closed > 0
  /\ cntPkt = Tails(fifoPkt) - (IF Reading /\ rdenTemp THEN 1 ELSE 0)

(* Words of packets that have ended.  A packet has two words at least and   *)
(* leaves in two clocks more than it has words, and three clocks and more   *)
(* pass before a word comes: with each clock of the frame that arrives a    *)
(* half of a word is gone, but for the Credit of those two clocks.          *)
Whole == Closed + (IF finish THEN Open + 1 ELSE 0)

Credit ==
  IF Reading THEN (IF ~rdenTemp THEN 0 ELSE IF pktData.mark = "head" THEN 1 ELSE 2)
  ELSE IF stateRead = "IDLE" /\ cntPkt # 0 THEN 1 ELSE 2

RoomInv ==
  /\ Whole > 0 => 2 * Whole + Filled + Credit <= 2 * T + 2
  /\ finish => Whole <= T

LEMMA OpenNow ==
  ASSUME AccuType, AccuInv
  PROVE  /\ Open \in 0 .. T - 1 /\ Filled \in Nat
         /\ finish => wrenPkt /\ Open >= 1
         /\ wrenPkt => dinPkt.mark = IF finish THEN "tail" ELSE IF Open = 0 THEN "head" ELSE "body"
         /\ wrenPkt /\ ~finish => Filled > 2 * Open + 2
         /\ 2 * Open <= Filled \/ finish
         /\ W * cnt16 \in Nat /\ W * cnt16 >= 3 * cnt16 /\ W * (cnt16 + 1) = W * cnt16 + W
         /\ stateAccu = "WAIT_TAIL" => Filled >= 3 * cnt16 + 1 /\ Open <= cnt16
         /\ stateAccu = "WAIT_TAIL" /\ wrenPkt => Open = cnt16 - 1 /\ cnt16 >= 1
         /\ stateAccu # "WAIT_TAIL" => Open = 0 \/ finish
<1>1. W \in Nat /\ W > 2 /\ T \in Nat /\ T >= 2 /\ T < 255
  BY Sizes
<1>2. cntValid \in 0 .. W - 1 /\ cnt16 \in 0 .. T /\ cntValid \in Nat /\ cnt16 \in Nat
  BY <1>1 DEF AccuType
<1>3. ASSUME NEW c \in Nat PROVE W * c \in Nat /\ W * c >= 3 * c /\ W * (c + 1) = W * c + W
  <2>1. W - 3 \in Nat
    BY <1>1
  <2>2. (W - 3) * c \in Nat
    BY <2>1
  <2>3. W * c = 3 * c + (W - 3) * c
    BY <1>1
  <2> QED
    BY <1>1, <2>2, <2>3
<1>4. W * cnt16 \in Nat /\ W * cnt16 >= 3 * cnt16 /\ W * (cnt16 + 1) = W * cnt16 + W
  BY <1>2, <1>3
<1>5. /\ Open \in 0 .. T - 1
      /\ finish => wrenPkt /\ Open >= 1
      /\ wrenPkt => dinPkt.mark = IF finish THEN "tail" ELSE IF Open = 0 THEN "head" ELSE "body"
  <2>1. CASE stateAccu = "WAIT_TAIL"
    <3>1. Open = cnt16 - (IF wrenPkt THEN 1 ELSE 0) /\ ~finish
      BY <2>1 DEF Open, AccuInv
    <3>2. CASE head
      BY <1>1, <2>1, <3>1, <3>2 DEF AccuInv
    <3>3. CASE ~head
      <4>1. cnt16 \in 1 .. T - 1
        BY <2>1, <3>3 DEF AccuInv
      <4>2. Open \in 0 .. T - 1 /\ (wrenPkt => (cnt16 = 1 <=> Open = 0))
        BY <1>1, <3>1, <4>1
      <4> QED
        BY <2>1, <3>1, <4>2 DEF AccuInv
    <3> QED
      BY <3>2, <3>3
  <2>2. CASE stateAccu = "IDLE"
    BY <1>1, <1>2, <2>2 DEF Open, AccuInv
  <2>3. CASE stateAccu = "OVERFLOW"
    BY <1>1, <1>2, <2>3 DEF Open, AccuInv
  <2> QED
    BY <2>1, <2>2, <2>3 DEF AccuType
<1>6. /\ Filled \in Nat
      /\ stateAccu = "WAIT_TAIL" => Filled >= 3 * cnt16 + 1 /\ Open <= cnt16
      /\ stateAccu = "WAIT_TAIL" /\ wrenPkt => Open = cnt16 - 1 /\ cnt16 >= 1
      /\ stateAccu # "WAIT_TAIL" => Open = 0 \/ finish
      /\ stateAccu # "WAIT_TAIL" /\ wrenPkt => finish
  <2>1. CASE stateAccu = "WAIT_TAIL"
    <3>1. Filled = W * cnt16 + (IF cntValid = 0 THEN W ELSE cntValid)
      BY <2>1 DEF Filled
    <3>2. (IF cntValid = 0 THEN W ELSE cntValid) \in Nat \ {0}
      BY <1>1, <1>2
    <3>3. Filled \in Nat /\ Filled >= 3 * cnt16 + 1
      BY <1>2, <1>4, <3>1, <3>2
    <3>4. Open = cnt16 - (IF wrenPkt THEN 1 ELSE 0) /\ (wrenPkt => cnt16 >= 1)
      BY <1>1, <2>1 DEF Open, AccuInv
    <3> QED
      BY <1>2, <2>1, <3>3, <3>4
  <2>2. CASE stateAccu # "WAIT_TAIL"
    <3>1. Filled \in Nat
      BY <1>2, <2>2 DEF Filled
    <3> QED
      BY <2>2, <3>1 DEF Open, AccuInv
  <2> QED
    BY <2>1, <2>2
<1>7. wrenPkt /\ ~finish => Filled > 2 * Open + 2
  BY <1>2, <1>6
<1>8. 2 * Open <= Filled \/ finish
  BY <1>2, <1>5, <1>6
<1> QED
  BY <1>4, <1>5, <1>6, <1>7, <1>8

LEMMA OpenStep ==
  ASSUME AccuType, AccuInv, G!Accumulate
  PROVE  /\ Open \in 0 .. T - 1 /\ Filled \in Nat
         /\ Open' = IF finish THEN 0 ELSE Open + (IF wrenPkt THEN 1 ELSE 0)
         /\ finish => wrenPkt /\ Open >= 1
         /\ wrenPkt => dinPkt.mark = IF finish THEN "tail" ELSE IF Open = 0 THEN "head" ELSE "body"
         /\ wrenPkt /\ ~finish => Filled > 2 * Open + 2
         /\ finish' => Filled > 2 * Open' + 1 /\ Open' <= T - 1 /\ Filled' = 0
         /\ ~finish' => Filled' <= Filled + 1
         /\ 2 * Open <= Filled \/ finish
<1>1. W \in Nat /\ W > 2 /\ T \in Nat /\ T >= 2 /\ T < 255
  BY Sizes
<1>2. cntValid \in 0 .. W - 1 /\ cnt16 \in 0 .. T /\ cntValid \in Nat /\ cnt16 \in Nat
  BY <1>1 DEF AccuType
<1>4. W * cnt16 \in Nat /\ W * cnt16 >= 3 * cnt16 /\ W * (cnt16 + 1) = W * cnt16 + W
  BY OpenNow
<1>6. /\ Filled \in Nat
      /\ stateAccu = "WAIT_TAIL" => Filled >= 3 * cnt16 + 1 /\ Open <= cnt16
      /\ stateAccu = "WAIT_TAIL" /\ wrenPkt => Open = cnt16 - 1 /\ cnt16 >= 1
      /\ stateAccu # "WAIT_TAIL" => Open = 0 \/ finish
  BY OpenNow
<1>9. (cntValid + 1) % W = IF cntValid = W - 1 THEN 0 ELSE cntValid + 1
  BY <1>1, <1>2
<1>10. /\ Open' = IF finish THEN 0 ELSE Open + (IF wrenPkt THEN 1 ELSE 0)
       /\ finish' => Filled > 2 * Open' + 1 /\ Open' <= T - 1 /\ Filled' = 0
       /\ ~finish' => Filled' <= Filled + 1
  <2>1. CASE stateAccu = "IDLE" /\ G!FirstWord
    <3>1. /\ finish' = FALSE /\ wrenPkt' = FALSE /\ cnt16' = 0
          /\ cntValid' = IF gmiiOut.en THEN (cntValid + 1) % W ELSE 0
          /\ stateAccu' = IF cntValid = W - 1 THEN "WAIT_TAIL" ELSE "IDLE"
      BY <2>1 DEF G!FirstWord, G!DataValid
    <3>2. Open' = 0
      <4>1. ~finish' /\ ~wrenPkt' /\ cnt16' - 0 = 0
        BY <3>1
      <4> QED
        BY <4>1 DEF Open
    <3>3. ~finish => Open = 0 /\ ~wrenPkt
      BY <2>1 DEF Open, AccuInv
    <3>4. Filled' <= Filled + 1
      <4>1. Filled = cntValid
        BY <2>1 DEF Filled
      <4>2. CASE cntValid = W - 1
        <5>1. cntValid' = 0 /\ stateAccu' = "WAIT_TAIL"
          BY <1>9, <3>1, <4>2
        <5>2. W * 0 = 0
          BY <1>1
        <5>3. Filled' = W
          BY <1>1, <3>1, <5>1, <5>2 DEF Filled
        <5> QED
          BY <1>1, <4>1, <4>2, <5>3
      <4>3. CASE cntValid # W - 1
        <5>1. Filled' = cntValid'
          BY <3>1, <4>3 DEF Filled
        <5> QED
          BY <1>2, <1>9, <3>1, <4>1, <4>3, <5>1
      <4> QED
        BY <4>2, <4>3
    <3> QED
      BY <3>1, <3>2, <3>3, <3>4
  <2>2. CASE stateAccu = "WAIT_TAIL" /\ gmiiOut.en /\ G!MoreBytes
    <3>1. /\ ~finish
          /\ Filled = W * cnt16 + (IF cntValid = 0 THEN W ELSE cntValid)
          /\ Open = cnt16 - (IF wrenPkt THEN 1 ELSE 0)
      BY <2>2 DEF AccuInv, Filled, Open
    <3>2. cntValid' = (cntValid + 1) % W /\ wrenPkt' = (cntValid = 0)
      BY <2>2 DEF G!MoreBytes
    <3>3. cntValid = 0 => cnt16' = (cnt16 + 1) % 256
      BY <2>2 DEF G!MoreBytes
    <3>4. cntValid = 0 /\ cnt16 = T - 1 => stateAccu' = "OVERFLOW" /\ finish' = TRUE
      BY <2>2 DEF G!MoreBytes
    <3>5. cntValid = 0 /\ cnt16 # T - 1 => stateAccu' = stateAccu /\ finish' = finish
      BY <2>2 DEF G!MoreBytes
    <3>6. cntValid # 0 => UNCHANGED <<cnt16, stateAccu, finish, dinPkt>>
      BY <2>2 DEF G!MoreBytes
    <3>7. cnt16 \in 0 .. T - 1
      BY <1>1, <2>2 DEF AccuInv
    <3>8. cntValid = 0 => cnt16' = cnt16 + 1
      BY <1>1, <3>3, <3>7
    <3>9. Open + (IF wrenPkt THEN 1 ELSE 0) = cnt16
      BY <1>2, <3>1
    <3>10. CASE cntValid = 0 /\ cnt16 = T - 1
      <4>1. Open' = cnt16 /\ Filled' = 0 /\ finish'
        BY <1>2, <3>4, <3>8, <3>10 DEF Open, Filled
      <4>2. Filled > 2 * cnt16 + 1
        BY <1>1, <1>2, <1>6, <2>2, <3>10
      <4> QED
        BY <1>1, <3>1, <3>9, <3>10, <4>1, <4>2
    <3>11. CASE cntValid = 0 /\ cnt16 # T - 1
      <4>1. stateAccu' = "WAIT_TAIL" /\ ~finish' /\ wrenPkt' = TRUE /\ cnt16' = cnt16 + 1
        <5>1. wrenPkt' = TRUE
          BY <3>2, <3>11
        <5> QED
          BY <2>2, <3>1, <3>5, <3>8, <3>11, <5>1
      <4>2. Open' = cnt16
        BY <1>2, <4>1 DEF Open
      <4>3. cntValid' = 1
        BY <1>1, <1>9, <3>2, <3>11
      <4>4. Filled' = W * (cnt16 + 1) + 1
        BY <4>1, <4>3 DEF Filled
      <4>5. Filled' = Filled + 1
        BY <1>1, <1>4, <3>1, <3>11, <4>4
      <4> QED
        BY <1>6, <3>1, <3>9, <4>1, <4>2, <4>5
    <3>12. CASE cntValid # 0
      <4>1. stateAccu' = "WAIT_TAIL" /\ ~finish' /\ wrenPkt' = FALSE /\ cnt16' = cnt16
        <5>1. wrenPkt' = FALSE
          BY <3>2, <3>12
        <5> QED
          BY <2>2, <3>1, <3>6, <3>12, <5>1
      <4>2. Open' = cnt16
        BY <1>2, <4>1 DEF Open
      <4>3. Filled' = W * cnt16 + (IF cntValid' = 0 THEN W ELSE cntValid')
        BY <4>1 DEF Filled
      <4>4. (IF cntValid' = 0 THEN W ELSE cntValid') = cntValid + 1
        BY <1>1, <1>2, <1>9, <3>2
      <4>5. Filled' = Filled + 1
        <5>1. Filled = W * cnt16 + cntValid
          BY <3>1, <3>12
        <5> QED
          BY <1>2, <1>4, <4>3, <4>4, <5>1
      <4> QED
        BY <1>6, <3>1, <3>9, <4>1, <4>2, <4>5
    <3> QED
      BY <3>10, <3>11, <3>12
  <2>3. CASE stateAccu = "WAIT_TAIL" /\ ~gmiiOut.en /\ G!EndOfFrame
    <3>1. ~head /\ cnt16 \in 1 .. T - 1 /\ ~finish
      BY <2>3 DEF AccuInv
    <3>2. finish' = TRUE /\ stateAccu' = "IDLE" /\ cntValid' = 0 /\ cnt16' = cnt16
      BY <2>3 DEF G!EndOfFrame
    <3>3. Open' = cnt16 /\ Filled' = 0
      BY <3>2 DEF Open, Filled
    <3>4. Open + (IF wrenPkt THEN 1 ELSE 0) = cnt16
      BY <1>2, <2>3 DEF Open
    <3>5. Filled > 2 * cnt16 + 1
      BY <1>2, <1>6, <2>3, <3>1
    <3> QED
      BY <1>1, <3>1, <3>2, <3>3, <3>4, <3>5
  <2>4. CASE stateAccu = "OVERFLOW" /\ G!RestOfFrame
    <3>1. /\ wrenPkt' = FALSE /\ finish' = FALSE /\ cntValid' = cntValid
          /\ stateAccu' \in {"OVERFLOW", "IDLE"}
      BY <2>4 DEF G!RestOfFrame
    <3>2. Open' = 0 /\ (~finish => Open = 0 /\ ~wrenPkt)
      BY <2>4, <3>1 DEF Open, AccuInv
    <3>3. cntValid = 1 /\ Filled = 0
      BY <2>4 DEF AccuInv, Filled
    <3>4. Filled' <= 1
      BY <3>1, <3>3 DEF Filled
    <3> QED
      BY <3>1, <3>2, <3>3, <3>4
  <2> QED
    BY <2>1, <2>2, <2>3, <2>4 DEF G!Accumulate, G!DataValid
<1> QED
  BY <1>10, OpenNow

(* There is room for the word that is coming. *)
LEMMA PktRoom ==
  ASSUME AccuType, AccuInv, FifoType, FifoInv, RoomInv
  PROVE  /\ Len(fifoPkt) <= T + 1
         /\ wrenPkt => Len(fifoPkt) < T
<1>1. T \in Nat /\ T >= 2
  BY Sizes
<1>2. /\ Open \in 0 .. T - 1 /\ Filled \in Nat /\ (finish => wrenPkt)
      /\ wrenPkt /\ ~finish => Filled > 2 * Open + 2
      /\ 2 * Open <= Filled \/ finish
  BY OpenNow
<1>3. PICK n \in Nat, o \in Nat : n = Len(fifoPkt) /\ o = Open /\ o <= n
  BY <1>1, <1>2 DEF FifoType, FifoInv
<1>4. Credit \in 0 .. 2
  BY DEF Credit
<1>5. CASE finish
  <2>1. n + 1 <= T
    BY <1>3, <1>5 DEF RoomInv, Whole, Closed
  <2> QED
    BY <1>1, <1>3, <2>1
<1>6. CASE ~finish
  <2>1. Whole = n - o
    BY <1>3, <1>6 DEF Whole, Closed
  <2>2. CASE n = o
    BY <1>1, <1>2, <1>3, <1>6, <2>2, <2>1 DEF AccuInv, Open
  <2>3. CASE n > o
    <3>1. 2 * (n - o) + Filled + Credit <= 2 * T + 2
      BY <1>3, <2>1, <2>3 DEF RoomInv
    <3> QED
      BY <1>1, <1>2, <1>3, <1>4, <1>6, <3>1
  <2> QED
    BY <1>3, <2>2, <2>3
<1> QED
  BY <1>5, <1>6

(* The FIFO after a clock. *)
LEMMA PktFifo ==
  ASSUME AccuType, AccuInv, G!Accumulate, FifoType, FifoInv, ReadInv, RoomInv, G!Fifo,
         NEW p \in Nat, p = IF Reading THEN 1 ELSE 0,
         NEW q \in Nat, q = IF wrenPkt THEN 1 ELSE 0
  PROVE  /\ fifoPkt' \in Seq(PktWords) /\ dout' \in PktWords
         /\ Len(fifoPkt) \in Nat /\ Len(fifoPkt') = Len(fifoPkt) - p + q
         /\ Reading => Len(fifoPkt) >= 1 /\ dout = fifoPkt[1]
         /\ \A k \in 1 .. Len(fifoPkt) - p : fifoPkt'[k] = fifoPkt[k + p]
         /\ wrenPkt => fifoPkt'[Len(fifoPkt')] = dinPkt
         /\ fifoPkt' # << >> => dout' = fifoPkt'[1]
         /\ Tails(fifoPkt') = Tails(fifoPkt) - (IF Reading /\ dout.mark = "tail" THEN 1 ELSE 0)
                                             + (IF finish THEN 1 ELSE 0)
<1>1. wrenPkt => Len(fifoPkt) < PktCap
  <2>1. T \in Nat /\ PktCap \in Nat /\ T <= PktCap /\ Len(fifoPkt) \in Nat
    BY Sizes DEF FifoType
  <2> QED
    BY <2>1, PktRoom
<1>2. Reading => fifoPkt # << >> /\ Len(fifoPkt) >= 1 /\ dout = fifoPkt[1]
  <2>1. Reading => Closed > 0 /\ Open \in 0 .. Len(fifoPkt) /\ Len(fifoPkt) \in Nat
    BY DEF ReadInv, FifoInv, FifoType
  <2>2. Reading => Len(fifoPkt) >= 1
    BY <2>1 DEF Closed
  <2>3. Reading => fifoPkt # << >>
    BY <2>2
  <2> QED
    BY <2>2, <2>3 DEF FifoInv
<1>3. PICK rest : rest = IF Reading THEN Tail(fifoPkt) ELSE fifoPkt
  OBVIOUS
<1>4. rest = IF rdenPkt /\ fifoPkt # << >> THEN Tail(fifoPkt) ELSE fifoPkt
  BY <1>2, <1>3 DEF ReadInv
<1>5. fifoPkt' = IF wrenPkt THEN Append(rest, dinPkt) ELSE rest
  BY <1>1, <1>4 DEF G!Fifo
<1>6. Reading \in BOOLEAN /\ wrenPkt \in BOOLEAN /\ fifoPkt \in Seq(PktWords) /\ dinPkt \in PktWords
  BY DEF Reading, AccuType, FifoType
<1>7. Reading => fifoPkt # << >>
  BY <1>2
<1>8. /\ fifoPkt' \in Seq(PktWords)
      /\ Reading /\ wrenPkt => Len(fifoPkt') = Len(fifoPkt)
      /\ Reading /\ ~wrenPkt => Len(fifoPkt') = Len(fifoPkt) - 1
      /\ ~Reading /\ wrenPkt => Len(fifoPkt') = Len(fifoPkt) + 1
      /\ ~Reading /\ ~wrenPkt => fifoPkt' = fifoPkt
      /\ Reading => \A k \in 1 .. Len(fifoPkt) - 1 : fifoPkt'[k] = fifoPkt[k + 1]
      /\ ~Reading => \A k \in 1 .. Len(fifoPkt) : fifoPkt'[k] = fifoPkt[k]
      /\ wrenPkt => fifoPkt'[Len(fifoPkt')] = dinPkt
  BY <1>3, <1>5, <1>6, <1>7, Shifted
<1>9. Tails(fifoPkt') = Tails(fifoPkt)
          - (IF Reading /\ fifoPkt[1].mark = "tail" THEN 1 ELSE 0)
          + (IF wrenPkt /\ dinPkt.mark = "tail" THEN 1 ELSE 0)
  <2>1. Tails(fifoPkt) \in Nat
    BY <1>6, TailsOf
  <2>2. rest \in Seq(PktWords) /\ Tails(rest) \in Nat
    <3>1. rest \in Seq(PktWords)
      BY <1>3, <1>6, <1>7
    <3> QED
      BY <3>1, TailsOf
  <2>3. Tails(rest) = Tails(fifoPkt) - (IF Reading /\ fifoPkt[1].mark = "tail" THEN 1 ELSE 0)
    <3>1. CASE Reading
      <4>1. Tails(Tail(fifoPkt)) = Tails(fifoPkt) - (IF fifoPkt[1].mark = "tail" THEN 1 ELSE 0)
        BY <1>6, <1>7, <3>1, TailsPop
      <4> QED
        BY <1>3, <3>1, <4>1
    <3>2. CASE ~Reading
      BY <1>3, <2>1, <3>2
    <3> QED
      BY <3>1, <3>2
  <2>4. Tails(fifoPkt') = Tails(rest) + (IF wrenPkt /\ dinPkt.mark = "tail" THEN 1 ELSE 0)
    <3>1. CASE wrenPkt
      <4>1. Tails(Append(rest, dinPkt)) = Tails(rest) + (IF dinPkt.mark = "tail" THEN 1 ELSE 0)
        BY <1>6, <2>2, TailsPush
      <4>2. fifoPkt' = Append(rest, dinPkt)
        BY <1>5, <3>1
      <4> QED
        BY <3>1, <4>1, <4>2
    <3>2. CASE ~wrenPkt
      <4>1. fifoPkt' = rest
        BY <1>5, <3>2
      <4> QED
        BY <2>2, <3>2, <4>1
    <3> QED
      BY <3>1, <3>2
  <2> QED
    BY <2>3, <2>4
<1>10. wrenPkt /\ dinPkt.mark = "tail" <=> finish
  <2>1. /\ finish => wrenPkt
        /\ wrenPkt => dinPkt.mark = IF finish THEN "tail" ELSE IF Open = 0 THEN "head" ELSE "body"
    BY OpenStep
  <2> QED
    BY <2>1
<1>11. Len(fifoPkt) \in Nat
  BY <1>6
<1>12. Len(fifoPkt') = Len(fifoPkt) - p + q
  <2>1. CASE Reading
    BY <1>8, <1>11, <2>1
  <2>2. CASE ~Reading
    BY <1>8, <1>11, <2>2
  <2> QED
    BY <2>1, <2>2
<1>13. \A k \in 1 .. Len(fifoPkt) - p : fifoPkt'[k] = fifoPkt[k + p]
  <2>1. CASE Reading
    BY <1>8, <2>1
  <2>2. CASE ~Reading
    <3>1. p = 0 /\ \A k \in 1 .. Len(fifoPkt) : fifoPkt'[k] = fifoPkt[k] /\ k + 0 = k
      BY <1>8, <1>11, <2>2
    <3> QED
      BY <1>11, <3>1
  <2> QED
    BY <2>1, <2>2
<1>14. dout' \in PktWords /\ (fifoPkt' # << >> => dout' = fifoPkt'[1])
  <2>1. dout' = IF fifoPkt' = << >> THEN dout ELSE Head(fifoPkt')
    BY DEF G!Fifo
  <2>2. fifoPkt' # << >> => Head(fifoPkt') = fifoPkt'[1] /\ fifoPkt'[1] \in PktWords
    BY <1>8
  <2> QED
    BY <2>1, <2>2 DEF FifoType
<1> QED
  BY <1>2, <1>8, <1>9, <1>10, <1>11, <1>12, <1>13, <1>14

(* What is in the FIFO stays packets, each with its head and its tail. *)
LEMMA FifoStepPkt ==
  ASSUME AccuType, AccuInv, G!Accumulate, FifoType, FifoInv, ReadInv, RoomInv,
         G!Fifo, G!PacketCount, G!ReadPacket
  PROVE  FifoInv'
<1>1. PICK p \in Nat, q \in Nat :
        p = (IF Reading THEN 1 ELSE 0) /\ q = (IF wrenPkt THEN 1 ELSE 0)
  OBVIOUS
<1>2. /\ fifoPkt' \in Seq(PktWords)
      /\ Len(fifoPkt) \in Nat /\ Len(fifoPkt') = Len(fifoPkt) - p + q
      /\ Reading => Len(fifoPkt) >= 1 /\ dout = fifoPkt[1]
      /\ \A k \in 1 .. Len(fifoPkt) - p : fifoPkt'[k] = fifoPkt[k + p]
      /\ wrenPkt => fifoPkt'[Len(fifoPkt')] = dinPkt
      /\ fifoPkt' # << >> => dout' = fifoPkt'[1]
  BY <1>1, PktFifo
<1>3. /\ Open \in 0 .. T - 1
      /\ Open' = IF finish THEN 0 ELSE Open + q
      /\ finish => wrenPkt /\ Open >= 1
      /\ wrenPkt => dinPkt.mark = IF finish THEN "tail" ELSE IF Open = 0 THEN "head" ELSE "body"
  BY <1>1, OpenStep
<1>4. PICK n \in Nat, m \in Nat, c \in Nat, o \in Nat :
        /\ n = Len(fifoPkt) /\ m = Len(fifoPkt') /\ o = Open /\ c = Closed /\ n = c + o
        /\ m = n - p + q
  <2>1. Open \in 0 .. Len(fifoPkt) /\ Closed = Len(fifoPkt) - Open
    BY DEF FifoInv, Closed
  <2>2. Len(fifoPkt') \in Nat
    BY <1>2
  <2> QED
    BY <1>2, <2>1, <2>2
<1>5. Reading => c >= 1
  BY <1>4 DEF ReadInv
<1>6. PICK c2 \in Nat : /\ c2 = Closed' /\ Open' \in 0 .. m
                        /\ finish => c2 = m /\ q = 1
                        /\ ~finish => c2 = c - p
  <2>1. finish => q = 1 /\ wrenPkt
    BY <1>1, <1>3
  <2>2. CASE finish
    <3>1. Open' = 0 /\ Closed' = m
      BY <1>3, <1>4, <2>2 DEF Closed
    <3> QED
      BY <1>4, <2>1, <2>2, <3>1
  <2>3. CASE ~finish
    <3>1. Open' = o + q /\ Closed' = m - (o + q)
      BY <1>3, <1>4, <2>3 DEF Closed
    <3>2. p <= c
      BY <1>1, <1>5
    <3>3. Closed' = c - p /\ c - p \in Nat /\ Open' \in 0 .. m
      BY <1>4, <3>1, <3>2
    <3> QED
      BY <1>4, <2>3, <3>3
  <2> QED
    BY <2>2, <2>3
<1>7. ASSUME NEW k \in 1 .. m
      PROVE  \/ k + p \in 1 .. n /\ fifoPkt'[k] = fifoPkt[k + p]
             \/ k = m /\ wrenPkt /\ q = 1 /\ fifoPkt'[k] = dinPkt /\ k + p = n + 1
  <2>1. CASE k \in 1 .. n - p
    BY <1>1, <1>2, <1>4, <2>1
  <2>2. CASE k \notin 1 .. n - p
    <3>1. q = 1 /\ wrenPkt /\ k = m
      BY <1>1, <1>4, <2>2
    <3> QED
      BY <1>2, <1>4, <3>1
  <2> QED
    BY <2>1, <2>2
<1>8. ASSUME NEW j \in 1 .. n
      PROVE  /\ j > c => fifoPkt[j].mark = IF j = c + 1 THEN "head" ELSE "body"
             /\ j = c => fifoPkt[j].mark = "tail"
             /\ j < n /\ fifoPkt[j].mark = "tail" => fifoPkt[j + 1].mark = "head"
  <2>1. j > c => fifoPkt[j].mark = IF j = c + 1 THEN "head" ELSE "body"
    BY <1>4 DEF FifoInv
  <2>2. j = c => fifoPkt[j].mark = "tail"
    BY <1>4 DEF FifoInv
  <2>3. j < n => j \in 1 .. n - 1
    OBVIOUS
  <2>4. j < n /\ fifoPkt[j].mark = "tail" => fifoPkt[j + 1].mark = "head"
    BY <1>4, <2>3 DEF FifoInv
  <2> QED
    BY <2>1, <2>2, <2>4
<1>9. ASSUME NEW k \in 1 .. m, k > c2
      PROVE  fifoPkt'[k].mark = IF k = c2 + 1 THEN "head" ELSE "body"
  <2>1. ~finish /\ c2 = c - p
    BY <1>6, <1>9
  <2>2. CASE k + p \in 1 .. n /\ fifoPkt'[k] = fifoPkt[k + p]
    <3>1. k + p > c /\ (k + p = c + 1 <=> k = c2 + 1)
      BY <1>1, <1>9, <2>1
    <3> QED
      BY <1>8, <2>2, <3>1
  <2>3. CASE k = m /\ wrenPkt /\ q = 1 /\ fifoPkt'[k] = dinPkt /\ k + p = n + 1
    <3>1. k = c2 + 1 <=> o = 0
      BY <1>4, <2>1, <2>3
    <3> QED
      BY <1>3, <1>4, <2>1, <2>3, <3>1
  <2> QED
    BY <1>7, <2>2, <2>3
<1>10. c2 > 0 => fifoPkt'[c2].mark = "tail"
  <2>1. CASE finish
    <3>1. c2 = m /\ wrenPkt
      BY <1>3, <1>6, <2>1
    <3> QED
      BY <1>2, <1>3, <1>4, <2>1, <3>1
  <2>2. CASE ~finish /\ c2 > 0
    <3>1. c2 = c - p /\ c \in 1 .. n /\ c2 \in 1 .. n - p
      BY <1>1, <1>4, <1>6, <2>2
    <3>2. fifoPkt'[c2] = fifoPkt[c2 + p] /\ c2 + p = c
      BY <1>1, <1>2, <1>4, <3>1
    <3> QED
      BY <1>8, <3>1, <3>2
  <2> QED
    BY <2>1, <2>2
<1>11. ASSUME NEW k \in 1 .. m - 1, fifoPkt'[k].mark = "tail"
       PROVE  fifoPkt'[k + 1].mark = "head"
  <2>1. k \in 1 .. m /\ k + 1 \in 1 .. m /\ k # m
    OBVIOUS
  <2>2. k + p \in 1 .. n /\ fifoPkt'[k] = fifoPkt[k + p]
    BY <1>7, <2>1
  <2>3. CASE k + 1 + p \in 1 .. n /\ fifoPkt'[k + 1] = fifoPkt[k + 1 + p]
    <3>1. k + 1 + p = (k + p) + 1 /\ k + p < n
      BY <2>3, <1>1
    <3> QED
      BY <1>8, <1>11, <2>2, <2>3, <3>1
  <2>4. CASE k + 1 = m /\ wrenPkt /\ fifoPkt'[k + 1] = dinPkt /\ k + 1 + p = n + 1
    <3>1. k + p = n
      BY <2>4
    <3>2. ~(n > c)
      <4>1. n > c => fifoPkt[n].mark \in {"head", "body"}
        BY <1>8, <2>2, <3>1
      <4> QED
        BY <1>11, <2>2, <3>1, <4>1
    <3>3. o = 0
      BY <1>4, <3>2
    <3> QED
      BY <1>3, <1>4, <2>4, <3>3
  <2> QED
    BY <1>7, <2>1, <2>3, <2>4
<1>12. fifoPkt' # << >> /\ ~(Reading' /\ rdenTemp') => fifoPkt'[1].mark = "head"
  <2>1. SUFFICES ASSUME fifoPkt' # << >>, ~(Reading' /\ rdenTemp') PROVE fifoPkt'[1].mark = "head"
    OBVIOUS
  <2>2. 1 \in 1 .. m
    BY <1>2, <1>4, <2>1
  <2>3. rdenTemp' = rdenPkt /\ (rdenPkt <=> Reading)
    BY DEF G!PacketCount, ReadInv
  <2>4. CASE Reading
    <3>1. dout.mark = "tail" /\ dout = fifoPkt[1]
      <4>1. ~Reading'
        BY <2>1, <2>3, <2>4
      <4> QED
        BY <1>2, <2>4, <4>1 DEF Reading, G!ReadPacket
    <3>2. p = 1 /\ 1 \in 1 .. n
      BY <1>1, <1>2, <1>4, <2>4
    <3>3. CASE 1 + p \in 1 .. n /\ fifoPkt'[1] = fifoPkt[1 + p]
      <4>1. 1 < n /\ 1 + p = 1 + 1
        BY <3>2, <3>3
      <4> QED
        BY <1>8, <3>1, <3>2, <3>3, <4>1
    <3>4. CASE wrenPkt /\ fifoPkt'[1] = dinPkt /\ 1 + p = n + 1
      <4>1. n = 1 /\ c >= 1
        BY <1>5, <2>4, <3>2, <3>4
      <4>2. o = 0
        BY <1>4, <4>1
      <4> QED
        BY <1>3, <1>4, <3>4, <4>2
    <3> QED
      BY <1>7, <2>2, <3>3, <3>4
  <2>5. CASE ~Reading
    <3>1. p = 0
      BY <1>1, <2>5
    <3>2. CASE 1 + p \in 1 .. n /\ fifoPkt'[1] = fifoPkt[1 + p]
      <4>0. 1 + 0 = 1
        OBVIOUS
      <4>00. n >= 1
        BY <3>1, <3>2
      <4>1. fifoPkt # << >> /\ fifoPkt'[1] = fifoPkt[1]
        <5>1. fifoPkt'[1] = fifoPkt[1]
          BY <3>1, <3>2, <4>0
        <5>2. Len(fifoPkt) >= 1
          BY <1>4, <4>00
        <5>3. fifoPkt # << >>
          BY <5>2
        <5> QED
          BY <5>1, <5>3
      <4> QED
        BY <2>5, <4>1 DEF FifoInv
    <3>3. CASE wrenPkt /\ fifoPkt'[1] = dinPkt /\ 1 + p = n + 1
      <4>1. o = 0
        BY <1>4, <3>1, <3>3
      <4> QED
        BY <1>3, <1>4, <3>3, <4>1
    <3> QED
      BY <1>7, <2>2, <3>2, <3>3
  <2> QED
    BY <2>4, <2>5
<1> QED
  BY <1>2, <1>4, <1>6, <1>9, <1>10, <1>11, <1>12 DEF FifoInv

(* Words of whole packets after a clock: one less, or all there are. *)
LEMMA ClosedStep ==
  ASSUME AccuType, AccuInv, G!Accumulate, FifoType, FifoInv, ReadInv, RoomInv, G!Fifo,
         NEW p \in Nat, p = IF Reading THEN 1 ELSE 0
  PROVE  /\ Closed \in Nat /\ Len(fifoPkt) \in Nat /\ Len(fifoPkt') \in Nat
         /\ Closed <= Len(fifoPkt) /\ p <= Closed
         /\ Closed' \in Nat
         /\ finish => Closed' = Closed + Open + 1 - p /\ Closed' >= 1
         /\ ~finish => Closed' = Closed - p
<1>1. PICK q \in Nat : q = IF wrenPkt THEN 1 ELSE 0
  OBVIOUS
<1>2. Len(fifoPkt) \in Nat /\ Len(fifoPkt') = Len(fifoPkt) - p + q /\ fifoPkt' \in Seq(PktWords)
  BY <1>1, PktFifo
<1>3. /\ Open' = IF finish THEN 0 ELSE Open + q
      /\ finish => wrenPkt
  BY <1>1, OpenStep
<1>4. Open \in 0 .. Len(fifoPkt) /\ Closed = Len(fifoPkt) - Open
  BY DEF FifoInv, Closed
<1>5. p <= Closed
  BY <1>2, <1>4 DEF ReadInv
<1>6. PICK n \in Nat, m \in Nat, o \in Nat :
        n = Len(fifoPkt) /\ m = Len(fifoPkt') /\ o = Open /\ Closed = n - o /\ o <= n
        /\ m = n - p + q /\ p <= n - o
  <2>1. Len(fifoPkt') \in Nat
    BY <1>2
  <2>2. PICK n \in Nat, m \in Nat : n = Len(fifoPkt) /\ m = Len(fifoPkt')
    BY <1>2, <2>1
  <2>3. Open \in Nat /\ Open <= n /\ Closed = n - Open
    BY <1>4, <2>2
  <2> QED
    BY <1>2, <1>5, <2>2, <2>3
<1>7. CASE finish
  <2>1. Open' = 0 /\ q = 1
    BY <1>1, <1>3, <1>7
  <2>2. Closed' = m - 0
    BY <1>6, <2>1 DEF Closed
  <2> QED
    BY <1>6, <1>7, <2>1, <2>2
<1>8. CASE ~finish
  <2>1. Closed' = m - (o + q)
    BY <1>3, <1>6, <1>8 DEF Closed
  <2> QED
    BY <1>6, <1>8, <2>1
<1> QED
  BY <1>7, <1>8

(* There is a tail as soon as there is a whole packet. *)
LEMMA TailsClosed ==
  ASSUME FifoType, FifoInv
  PROVE  /\ Tails(fifoPkt) \in Nat /\ Tails(fifoPkt) <= Len(fifoPkt)
         /\ Tails(fifoPkt) = 0 <=> Closed <= 0
<1>1. /\ Tails(fifoPkt) \in Nat /\ Tails(fifoPkt) <= Len(fifoPkt)
      /\ Tails(fifoPkt) = 0 <=> \A k \in 1 .. Len(fifoPkt) : fifoPkt[k].mark # "tail"
  BY TailsOf DEF FifoType
<1>2. PICK n \in Nat, c \in Nat : n = Len(fifoPkt) /\ c = Closed /\ c <= n
  <2>1. PICK n \in Nat : n = Len(fifoPkt)
    BY DEF FifoType
  <2>2. Open \in 0 .. n /\ Closed = n - Open
    BY <2>1 DEF FifoInv, Closed
  <2>3. Closed \in Nat /\ Closed <= n
    BY <2>2
  <2> QED
    BY <2>1, <2>3
<1>3. CASE c > 0
  <2>1. c \in 1 .. n /\ fifoPkt[c].mark = "tail"
    BY <1>2, <1>3 DEF FifoInv
  <2> QED
    BY <1>1, <1>2, <1>3, <2>1
<1>4. CASE c = 0
  <2>1. \A k \in 1 .. n : fifoPkt[k].mark = IF k = c + 1 THEN "head" ELSE "body"
    BY <1>2, <1>4 DEF FifoInv
  <2>2. \A k \in 1 .. n : fifoPkt[k].mark # "tail"
    BY <2>1
  <2> QED
    BY <1>1, <1>2, <1>4, <2>2
<1> QED
  BY <1>2, <1>3, <1>4

(* The counter of packets does not wrap. *)
LEMMA CountStep ==
  ASSUME G!PacketCount, finish \in BOOLEAN, NEW starts \in BOOLEAN, starts = (rdenPkt /\ ~rdenTemp),
         cntPkt \in 0 .. 255, finish => cntPkt < 255, starts => cntPkt > 0
  PROVE  cntPkt' = cntPkt + (IF finish THEN 1 ELSE 0) - (IF starts THEN 1 ELSE 0)
<1>1. CASE finish /\ ~starts
  <2>1. cntPkt' = (cntPkt + 1) % 256
    BY <1>1 DEF G!PacketCount
  <2> QED
    BY <1>1, <2>1
<1>2. CASE starts /\ ~finish
  <2>1. cntPkt' = (cntPkt + 255) % 256
    BY <1>2 DEF G!PacketCount
  <2>2. (cntPkt + 255) % 256 = cntPkt - 1
    BY <1>2
  <2> QED
    BY <1>2, <2>1, <2>2
<1>3. CASE finish <=> starts
  <2>1. cntPkt' = cntPkt
    BY <1>3 DEF G!PacketCount
  <2> QED
    BY <1>3, <2>1
<1> QED
  BY <1>1, <1>2, <1>3

(* The reader, and the counter that starts it. *)
LEMMA ReadStep ==
  ASSUME AccuType, AccuInv, G!Accumulate, FifoType, FifoInv, ReadInv, RoomInv,
         G!Fifo, G!PacketCount, G!ReadPacket
  PROVE  /\ ReadInv' /\ FifoType' /\ cntPkt \in 0 .. 255
         /\ cntPkt' = cntPkt + (IF finish THEN 1 ELSE 0) - (IF Reading /\ ~rdenTemp THEN 1 ELSE 0)
<1>1. PICK p \in Nat : p = IF Reading THEN 1 ELSE 0
  OBVIOUS
<1>2. /\ fifoPkt' \in Seq(PktWords) /\ dout' \in PktWords
      /\ Reading => Len(fifoPkt) >= 1 /\ dout = fifoPkt[1]
      /\ Tails(fifoPkt') = Tails(fifoPkt) - (IF Reading /\ dout.mark = "tail" THEN 1 ELSE 0)
                                          + (IF finish THEN 1 ELSE 0)
  <2>1. PICK q \in Nat : q = IF wrenPkt THEN 1 ELSE 0
    OBVIOUS
  <2> QED
    BY <1>1, <2>1, PktFifo
<1>3. /\ Closed \in Nat /\ Len(fifoPkt) \in Nat /\ Closed' \in Nat
      /\ finish => Closed' >= 1
      /\ ~finish => Closed' = Closed - p
  BY <1>1, ClosedStep
<1>4. /\ Tails(fifoPkt) \in Nat /\ Tails(fifoPkt) <= Len(fifoPkt)
      /\ Tails(fifoPkt) = 0 <=> Closed <= 0
  BY TailsClosed
<1>5. /\ Len(fifoPkt) <= T + 1 /\ T \in Nat /\ T < 255
      /\ finish => Len(fifoPkt) < T
  BY PktRoom, OpenStep, Sizes
<1>6. finish \in BOOLEAN /\ cntPkt \in Nat /\ dout \in PktWords /\ pktData \in PktWords
  BY DEF AccuType, FifoType
<1>7. /\ rdenPkt <=> Reading
      /\ stateRead = "IDLE" => ~rdenTemp
      /\ Reading => Closed > 0
      /\ cntPkt = Tails(fifoPkt) - (IF Reading /\ rdenTemp THEN 1 ELSE 0)
  BY DEF ReadInv
<1>8. PICK starts \in BOOLEAN : starts = (rdenPkt /\ ~rdenTemp)
  OBVIOUS
<1>9. cntPkt \in 0 .. 255 /\ (finish => cntPkt < 255) /\ (starts => cntPkt > 0)
  <2>1. starts => Reading /\ ~rdenTemp
    BY <1>7, <1>8
  <2>2. starts => cntPkt = Tails(fifoPkt) /\ Tails(fifoPkt) # 0
    BY <1>3, <1>4, <1>7, <2>1
  <2>3. cntPkt <= Tails(fifoPkt)
    BY <1>4, <1>7
  <2> QED
    BY <1>3, <1>4, <1>5, <1>6, <2>2, <2>3
<1>10. cntPkt' = cntPkt + (IF finish THEN 1 ELSE 0) - (IF starts THEN 1 ELSE 0)
  BY <1>6, <1>8, <1>9, CountStep
<1>11. rdenTemp' = rdenPkt
  BY DEF G!PacketCount
<1>12. cntPkt' \in Nat
  BY <1>6, <1>9, <1>10
<1>13. CASE stateRead = "IDLE"
  <2>1. ~Reading /\ ~starts /\ p = 0 /\ ~rdenTemp'
    BY <1>1, <1>7, <1>8, <1>11, <1>13 DEF Reading
  <2>2. /\ pktValid' = FALSE /\ pktData' = pktData
        /\ cntPkt # 0 => rdenPkt' = TRUE /\ stateRead' = "WAIT_TAIL"
        /\ cntPkt = 0 => rdenPkt' = FALSE /\ stateRead' = "IDLE"
    BY <1>13 DEF G!ReadPacket
  <2>3. (Reading' <=> cntPkt # 0) /\ (rdenPkt' <=> Reading')
    BY <2>2 DEF Reading
  <2>4. Reading' => Closed' > 0
    BY <1>3, <1>4, <1>7, <2>1, <2>3
  <2>5. cntPkt' = Tails(fifoPkt')
    BY <1>2, <1>4, <1>7, <1>10, <2>1
  <2>6. ReadInv'
    <3>1. cntPkt' = Tails(fifoPkt') - (IF Reading' /\ rdenTemp' THEN 1 ELSE 0)
      BY <1>12, <2>1, <2>5
    <3> QED
      BY <2>1, <2>3, <2>4, <3>1 DEF ReadInv
  <2>7. FifoType'
    BY <1>2, <1>6, <1>11, <1>12, <2>1, <2>2 DEF FifoType
  <2> QED
    BY <1>7, <1>8, <1>9, <1>10, <2>1, <2>6, <2>7
<1>14. CASE stateRead = "WAIT_1_CLK"
  <2>1. ~Reading /\ ~starts /\ p = 0 /\ ~rdenTemp' /\ ~rdenPkt
    BY <1>1, <1>7, <1>8, <1>11, <1>14 DEF Reading
  <2>2. pktValid' = FALSE /\ stateRead' = "IDLE" /\ rdenPkt' = rdenPkt /\ pktData' = pktData
    BY <1>14 DEF G!ReadPacket
  <2>3. ~Reading' /\ ~rdenPkt'
    BY <2>1, <2>2 DEF Reading
  <2>5. cntPkt' = Tails(fifoPkt')
    BY <1>2, <1>4, <1>7, <1>10, <2>1
  <2>6. ReadInv'
    <3>1. cntPkt' = Tails(fifoPkt') - (IF Reading' /\ rdenTemp' THEN 1 ELSE 0)
      BY <1>12, <2>1, <2>5
    <3> QED
      BY <2>1, <2>3, <3>1 DEF ReadInv
  <2>7. FifoType'
    BY <1>2, <1>6, <1>11, <1>12, <2>1, <2>2, <2>3 DEF FifoType
  <2> QED
    BY <1>7, <1>8, <1>9, <1>10, <2>1, <2>6, <2>7
<1>15. CASE stateRead = "WAIT_TAIL"
  <2>1. Reading /\ rdenPkt = TRUE /\ rdenTemp' = TRUE /\ p = 1
    BY <1>1, <1>7, <1>11, <1>15 DEF Reading, FifoType
  <2>2. /\ pktValid' = TRUE /\ pktData' = dout
        /\ dout.mark = "tail" => rdenPkt' = FALSE /\ stateRead' = "WAIT_1_CLK"
        /\ dout.mark # "tail" => rdenPkt' = TRUE /\ stateRead' = "WAIT_TAIL"
    BY <1>15, <2>1 DEF G!ReadPacket
  <2>3. (Reading' <=> dout.mark # "tail") /\ (rdenPkt' <=> Reading') /\ stateRead' # "IDLE"
    BY <2>2 DEF Reading
  <2>4. dout.mark # "tail" => Closed >= 2
    <3>1. Closed >= 1 /\ fifoPkt[Closed].mark = "tail"
      BY <1>3, <1>7, <2>1 DEF FifoInv
    <3>2. Closed = 1 => dout.mark = "tail"
      BY <1>2, <2>1, <3>1
    <3> QED
      BY <1>3, <3>1, <3>2
  <2>5. Reading' => Closed' > 0
    BY <1>3, <2>1, <2>3, <2>4
  <2>6. ~rdenTemp => dout.mark = "head"
    <3>1. fifoPkt # << >>
      BY <1>2, <2>1
    <3> QED
      BY <1>2, <2>1, <3>1 DEF FifoInv
  <2>7. cntPkt' = Tails(fifoPkt') - (IF Reading' /\ rdenTemp' THEN 1 ELSE 0)
    <3>1. CASE rdenTemp
      <4>1. ~starts /\ cntPkt = Tails(fifoPkt) - 1
        BY <1>7, <1>8, <2>1, <3>1
      <4>2. CASE dout.mark = "tail"
        BY <1>2, <1>4, <1>10, <2>1, <2>3, <4>1, <4>2
      <4>3. CASE dout.mark # "tail"
        BY <1>2, <1>4, <1>10, <2>1, <2>3, <4>1, <4>3
      <4> QED
        BY <4>2, <4>3
    <3>2. CASE ~rdenTemp
      <4>1. starts /\ cntPkt = Tails(fifoPkt) /\ dout.mark # "tail" /\ Reading'
        <5>1. starts
          BY <1>7, <1>8, <2>1, <3>2
        <5>2. cntPkt = Tails(fifoPkt)
          BY <1>4, <1>7, <3>2
        <5>3. dout.mark # "tail" /\ Reading'
          BY <2>3, <2>6, <3>2
        <5> QED
          BY <5>1, <5>2, <5>3
      <4> QED
        BY <1>2, <1>4, <1>10, <2>1, <4>1
    <3> QED
      BY <3>1, <3>2
  <2>8. ReadInv'
    BY <2>3, <2>5, <2>7 DEF ReadInv
  <2>9. FifoType'
    BY <1>2, <1>6, <1>12, <2>1, <2>2 DEF FifoType
  <2>10. starts <=> Reading /\ ~rdenTemp
    BY <1>8, <2>1
  <2> QED
    BY <1>9, <1>10, <2>8, <2>9, <2>10
<1> QED
  BY <1>13, <1>14, <1>15 DEF FifoType

(* The credit of the reader: with each word it takes one more is due, with  *)
(* each clock it takes none one less.                                       *)
LEMMA CreditStep ==
  ASSUME AccuType, AccuInv, G!Accumulate, FifoType, FifoInv, ReadInv, RoomInv,
         G!Fifo, G!PacketCount, G!ReadPacket, Whole > 0,
         NEW p \in Nat, p = IF Reading THEN 1 ELSE 0
  PROVE  Credit' <= Credit + 2 * p - 1
<1>1. /\ rdenPkt <=> Reading
      /\ stateRead = "IDLE" => ~rdenTemp
      /\ cntPkt = Tails(fifoPkt) - (IF Reading /\ rdenTemp THEN 1 ELSE 0)
  BY DEF ReadInv
<1>2. /\ cntPkt \in 0 .. 255
      /\ cntPkt' = cntPkt + (IF finish THEN 1 ELSE 0) - (IF Reading /\ ~rdenTemp THEN 1 ELSE 0)
  BY ReadStep
<1>3. Closed \in Nat /\ Tails(fifoPkt) \in Nat /\ (Tails(fifoPkt) = 0 <=> Closed <= 0)
  BY ClosedStep, TailsClosed
<1>4. ~Reading => cntPkt' # 0
  <2>1. ~Reading => cntPkt' = cntPkt + (IF finish THEN 1 ELSE 0) /\ cntPkt = Tails(fifoPkt)
    BY <1>1, <1>2, <1>3
  <2>2. ~finish => Closed > 0
    BY <1>3 DEF Whole
  <2> QED
    BY <1>2, <1>3, <2>1, <2>2
<1>5. rdenTemp' = rdenPkt
  BY DEF G!PacketCount
<1>6. CASE stateRead = "IDLE"
  <2>1. ~Reading /\ p = 0 /\ ~rdenTemp'
    BY <1>1, <1>5, <1>6 DEF Reading
  <2>2. CASE cntPkt # 0
    <3>1. Reading'
      BY <1>6, <2>2 DEF G!ReadPacket, Reading
    <3>2. Credit' = 0 /\ Credit = 1
      BY <1>6, <2>1, <2>2, <3>1 DEF Credit
    <3> QED
      BY <2>1, <3>2
  <2>3. CASE cntPkt = 0
    <3>1. stateRead' = "IDLE" /\ ~Reading'
      BY <1>6, <2>3 DEF G!ReadPacket, Reading
    <3>2. Credit' = 1 /\ Credit = 2
      BY <1>4, <1>6, <2>1, <2>3, <3>1 DEF Credit
    <3> QED
      BY <2>1, <3>2
  <2> QED
    BY <2>2, <2>3
<1>7. CASE stateRead = "WAIT_1_CLK"
  <2>1. ~Reading /\ p = 0 /\ stateRead' = "IDLE" /\ ~Reading'
    BY <1>7 DEF Reading, G!ReadPacket
  <2>2. Credit' = 1 /\ Credit = 2
    BY <1>4, <1>7, <2>1 DEF Credit
  <2> QED
    BY <2>1, <2>2
<1>8. CASE stateRead = "WAIT_TAIL"
  <2>1. Reading /\ p = 1 /\ rdenTemp'
    BY <1>1, <1>5, <1>8 DEF Reading
  <2>2. CASE rdenTemp
    <3>1. Credit \in 1 .. 2 /\ Credit' \in 0 .. 2
      BY <2>1, <2>2 DEF Credit
    <3> QED
      BY <2>1, <3>1
  <2>3. CASE ~rdenTemp
    <3>1. dout.mark = "head"
      <4>1. Closed > 0 /\ Closed <= Len(fifoPkt) /\ Len(fifoPkt) \in Nat
        BY <2>1, ClosedStep DEF ReadInv
      <4>2. fifoPkt # << >>
        <5>1. Len(fifoPkt) > 0
          BY <1>3, <4>1
        <5> QED
          BY <5>1
      <4> QED
        BY <2>3, <4>2 DEF FifoInv
    <3>2. pktData' = dout /\ Reading'
      BY <1>8, <3>1 DEF G!ReadPacket, Reading
    <3>3. Credit' = 1 /\ Credit = 0
      BY <2>1, <2>3, <3>1, <3>2 DEF Credit
    <3> QED
      BY <2>1, <3>3
  <2> QED
    BY <2>2, <2>3
<1> QED
  BY <1>6, <1>7, <1>8 DEF FifoType

(* The words of whole packets leave faster than a frame fills new ones. *)
LEMMA RoomStep ==
  ASSUME AccuType, AccuInv, G!Accumulate, FifoType, FifoInv, ReadInv, RoomInv,
         G!Fifo, G!PacketCount, G!ReadPacket, AccuType'
  PROVE  RoomInv'
<1>1. PICK p \in Nat : p = IF Reading THEN 1 ELSE 0
  OBVIOUS
<1>2. T \in Nat /\ T >= 2 /\ p \in {0, 1}
  BY <1>1, Sizes
<1>3. /\ Closed \in Nat /\ p <= Closed
      /\ Closed' \in Nat
      /\ finish => Closed' = Closed + Open + 1 - p
      /\ ~finish => Closed' = Closed - p
  BY <1>1, ClosedStep
<1>4. /\ Open \in 0 .. T - 1 /\ Filled \in Nat
      /\ finish' => Filled > 2 * Open' + 1 /\ Open' <= T - 1 /\ Filled' = 0
      /\ ~finish' => Filled' <= Filled + 1
      /\ Open' = IF finish THEN 0 ELSE Open + (IF wrenPkt THEN 1 ELSE 0)
  BY OpenStep
<1>5. Open \in Nat /\ Open' \in Nat
  BY <1>2, <1>4
<1>6. Whole \in Nat /\ p <= Whole /\ Closed' = Whole - p
  BY <1>1, <1>3, <1>5 DEF Whole
<1>7. Credit \in {0, 1, 2} /\ Credit' \in {0, 1, 2}
  BY DEF Credit
<1>8. Whole > 0 => Credit' <= Credit + 2 * p - 1 /\ 2 * Whole + Filled + Credit <= 2 * T + 2
  BY <1>1, CreditStep DEF RoomInv
<1>9. Filled' \in Nat
  <2>1. PICK c \in Nat, v \in Nat : c = cnt16' /\ v = cntValid'
    BY <1>2, Sizes DEF AccuType
  <2>2. W * c \in Nat /\ W \in Nat
    BY Sizes
  <2>3. W * c + W \in Nat /\ W * c + v \in Nat
    BY <2>2
  <2>4. Filled' \in {v, W * c + W, W * c + v, 0}
    BY <2>1 DEF Filled
  <2> QED
    BY <2>3, <2>4
<1>10. PICK w \in Nat, o \in Nat, f \in Nat, g \in Nat, k \in Nat, l \in Nat :
         w = Whole /\ o = Open' /\ f = Filled /\ g = Filled' /\ k = Credit /\ l = Credit'
  <2>1. Credit \in Nat /\ Credit' \in Nat
    BY <1>7
  <2> QED
    BY <1>4, <1>5, <1>6, <1>9, <2>1
<1>11. p <= w /\ l <= 2 /\ (w > 0 => l <= k + 2 * p - 1 /\ 2 * w + f + k <= 2 * T + 2)
  BY <1>6, <1>7, <1>8, <1>10
<1>12. CASE finish'
  <2>1. f > 2 * o + 1 /\ o <= T - 1 /\ g = 0
    BY <1>4, <1>10, <1>12
  <2>2. Whole' = w - p + (o + 1)
    BY <1>6, <1>10, <1>12 DEF Whole
  <2>3. 2 * (w - p + (o + 1)) + g + l <= 2 * T + 2 /\ w - p + (o + 1) <= T
    <3>1. CASE w > 0
      BY <1>2, <1>11, <2>1, <3>1
    <3>2. CASE w = 0
      BY <1>2, <1>11, <2>1, <3>2
    <3> QED
      BY <3>1, <3>2
  <2> QED
    BY <1>10, <2>2, <2>3 DEF RoomInv
<1>13. CASE ~finish'
  <2>1. Whole' = w - p
    <3>1. Whole' = Closed' + 0
      BY <1>13 DEF Whole
    <3>2. Closed' = w - p
      BY <1>6, <1>10
    <3> QED
      BY <1>2, <3>1, <3>2
  <2>2. g <= f + 1
    BY <1>4, <1>10, <1>13
  <2>3. w - p > 0 => 2 * (w - p) + g + l <= 2 * T + 2
    BY <1>2, <1>11, <2>2
  <2> QED
    BY <1>10, <1>13, <2>1, <2>3 DEF RoomInv
<1> QED
  BY <1>12, <1>13
-----------------------------------------------------------------------------
(* The words themselves, on their way from din_pkt to pkt_data: all of them *)
(* in their order.                                                          *)
Stream ==
  ((got \o (IF pktValid THEN <<pktData>> ELSE << >>)) \o fifoPkt)
    \o (IF wrenPkt THEN <<dinPkt>> ELSE << >>)

Latest == Stream[Len(Stream)]

InOrder(q) ==
  /\ \A k \in 1 .. Len(q) : IsPiece(q[k])
  /\ q # << >> => Opens(q[1], 0)
  /\ \A k \in 2 .. Len(q) : Continues(q[k - 1], q[k])

(* The frame that gives the next byte, or has given the last one. *)
Coming  == IF gmiiOut.en THEN Frame ELSE Done + 1
Current == IF gmiiOut.en THEN Frame ELSE Done

(* All words of the frames before f have been written. *)
UpTo(f) ==
  /\ Stream = << >> => f > 0 /\ \A e \in 1 .. f - 1 : Kept(e) = 0
  /\ Stream # << >> =>
       /\ LastOf(Latest) = Kept(FrameOf(Latest)) /\ FrameOf(Latest) < f
       /\ \A e \in FrameOf(Latest) + 1 .. f - 1 : Kept(e) = 0

(* How far the frame in state_accu is in words, and what the rest of it in  *)
(* pkt_tag is.                                                              *)
LatestInv ==
  /\ stateAccu = "IDLE" => UpTo(Coming)
  /\ stateAccu = "WAIT_TAIL" /\ head => UpTo(Frame)
  /\ stateAccu = "WAIT_TAIL" /\ ~head =>
       Stream # << >> /\ FrameOf(Latest) = Current /\ LastOf(Latest) = W * cnt16
  /\ stateAccu = "OVERFLOW" =>
       Stream # << >> /\ FrameOf(Latest) = Current /\ LastOf(Latest) = Kept(Current)

TagInv ==
  /\ stateAccu = "IDLE" /\ gmiiOut.en =>
       \A i \in 0 .. W - 1 : i < cntValid => pktTag[i] = <<Frame, i + 1>>
  /\ stateAccu = "WAIT_TAIL" =>
       \A i \in 0 .. W - 1 :
         cntValid = 0 \/ i < cntValid => pktTag[i] = <<Current, W * cnt16 + i + 1>>

StreamType == got \in Seq(PktWords)

StreamsInv == StreamType /\ InOrder(Stream) /\ LatestInv /\ TagInv
(* What fits into a packet of T words. *)
LEMMA Products ==
  ASSUME NEW c \in 0 .. T - 1
  PROVE  /\ W * c \in Nat /\ T * W \in Nat /\ T * W > W
         /\ W * (c + 1) = W * c + W
         /\ c >= 1 => W * c >= W
         /\ IF c = T - 1 THEN W * c + W = T * W ELSE W * c + W < T * W
<1>1. W \in Nat /\ W > 2 /\ T \in Nat /\ T >= 2 /\ c \in Nat
  BY Sizes
<1>2. PICK d \in Nat : T = c + 1 + d
  <2>1. T - 1 - c \in Nat /\ T = c + 1 + (T - 1 - c)
    BY <1>1
  <2> QED
    BY <2>1
<1>3. W * c \in Nat /\ W * d \in Nat
  BY <1>1, <1>2
<1>4. T * W = W * c + W + W * d
  BY <1>1, <1>2
<1>5. W * (c + 1) = W * c + W
  BY <1>1
<1>6. ASSUME NEW e \in Nat, e >= 1 PROVE W * e >= W
  <2>1. PICK g \in Nat : e = g + 1
    <3>1. e - 1 \in Nat /\ e = (e - 1) + 1
      BY <1>6
    <3> QED
      BY <3>1
  <2>2. W * g \in Nat /\ W * (g + 1) = W * g + W
    BY <1>1, <2>1
  <2> QED
    BY <1>1, <2>1, <2>2
<1>7. c >= 1 => W * c >= W
  BY <1>1, <1>6
<1>8. d >= 1 => W * d >= W
  BY <1>2, <1>6
<1>9. d = 0 => W * d = 0
  BY <1>1
<1>10. d = 0 <=> c = T - 1
  BY <1>1, <1>2
<1>11. T * W > W
  <2>1. CASE c >= 1
    BY <1>1, <1>3, <1>4, <1>7, <2>1
  <2>2. CASE ~(c >= 1)
    <3>1. d >= 1
      BY <1>1, <1>2, <2>2
    <3> QED
      BY <1>1, <1>3, <1>4, <1>8, <3>1
  <2> QED
    BY <2>1, <2>2
<1>12. T * W \in Nat
  BY <1>1, <1>3, <1>4
<1>13. CASE d = 0
  BY <1>1, <1>3, <1>4, <1>5, <1>7, <1>9, <1>10, <1>11, <1>12, <1>13
<1>14. CASE d # 0
  <2>1. d >= 1
    BY <1>2, <1>14
  <2>2. W * c + W < T * W
    BY <1>1, <1>3, <1>4, <1>8, <2>1
  <2> QED
    BY <1>3, <1>5, <1>7, <1>10, <1>11, <1>12, <1>14, <2>2
<1> QED
  BY <1>13, <1>14

(* What is kept of a frame, and that a frame behind it changes nothing. *)
LEMMA KeptOf ==
  ASSUME Ranges, NEW start, A!Line(start)
  PROVE  \A f \in 1 .. Len(lens) :
           /\ Kept(f) \in Nat /\ Kept(f)' = Kept(f)
           /\ lens[f] \in Nat /\ lens[f] > A!CRC + W /\ lens[f] <= A!CRC + T * W => Kept(f) = lens[f] - A!CRC
           /\ lens[f] > A!CRC + W /\ lens[f] > A!CRC + T * W => Kept(f) = T * W
           /\ lens[f] <= A!CRC + W => Kept(f) = 0
<1>1. SUFFICES ASSUME NEW f \in 1 .. Len(lens)
      PROVE
        /\ Kept(f) \in Nat /\ Kept(f)' = Kept(f)
        /\ lens[f] \in Nat /\ lens[f] > A!CRC + W /\ lens[f] <= A!CRC + T * W => Kept(f) = lens[f] - A!CRC
        /\ lens[f] > A!CRC + W /\ lens[f] > A!CRC + T * W => Kept(f) = T * W
        /\ lens[f] <= A!CRC + W => Kept(f) = 0
  OBVIOUS
<1>2. lens'[f] = lens[f] /\ lens[f] \in Nat
  BY LensGrow
<1>3. Kept(f)' = Kept(f)
  BY <1>2 DEF Kept
<1>4. A!CRC = 4 /\ W \in Nat /\ T * W \in Nat
  <2>1. W \in Nat /\ T \in Nat
    BY Sizes
  <2> QED
    BY <2>1 DEF A!CRC
<1>5. PICK n \in Nat, t \in Nat : n = lens[f] /\ t = T * W
  BY <1>2, <1>4
<1>6. Kept(f) = IF n <= 4 + W THEN 0 ELSE IF n > 4 + t THEN t ELSE n - 4
  BY <1>4, <1>5 DEF Kept
<1>7. /\ Kept(f) \in Nat
      /\ n > 4 + W /\ n <= 4 + t => Kept(f) = n - 4
      /\ n > 4 + W /\ n > 4 + t => Kept(f) = t
      /\ n <= 4 + W => Kept(f) = 0
  BY <1>4, <1>6
<1> QED
  BY <1>3, <1>4, <1>5, <1>7

(* Words in their order stay so, and a word that continues the last one may *)
(* be put behind it.                                                        *)
LEMMA OrderKeeps ==
  ASSUME Ranges, NEW start, A!Line(start), NEW q \in Seq(PktWords), InOrder(q)
  PROVE  InOrder(q)'
<1>1. /\ \A k \in 1 .. Len(q) : IsPiece(q[k])
      /\ q # << >> => Opens(q[1], 0)
      /\ \A k \in 2 .. Len(q) : Continues(q[k - 1], q[k])
  BY DEF InOrder
<1>2. Len(lens) \in Nat /\ Len(lens') \in Nat /\ Len(lens) <= Len(lens')
  BY LensGrow
<1>3. \A f \in 1 .. Len(lens) : Kept(f)' = Kept(f)
  BY KeptOf
<1>4. \A k \in 1 .. Len(q) : FrameOf(q[k]) \in 1 .. Len(lens)
  BY <1>1 DEF IsPiece
<1>5. ASSUME NEW k \in 1 .. Len(q) PROVE IsPiece(q[k])'
  <2>1. FrameOf(q[k]) \in 1 .. Len(lens) /\ FrameOf(q[k]) \in 1 .. Len(lens')
    BY <1>2, <1>4
  <2>2. Kept(FrameOf(q[k]))' = Kept(FrameOf(q[k]))
    BY <1>3, <2>1 DEF Kept, FrameOf
  <2>3. IsPiece(q[k])
    BY <1>1
  <2> QED
    BY <2>1, <2>2, <2>3 DEF IsPiece, FrameOf, FirstOf, LastOf
<1>6. ASSUME NEW k \in 1 .. Len(q), NEW f \in Nat, Opens(q[k], f) PROVE Opens(q[k], f)'
  <2>1. FrameOf(q[k]) \in 1 .. Len(lens)
    BY <1>4
  <2>2. \A e \in f + 1 .. FrameOf(q[k]) - 1 : e \in 1 .. Len(lens)
    BY <1>2, <2>1
  <2>3. \A e \in f + 1 .. FrameOf(q[k]) - 1 : Kept(e)' = 0
    BY <1>3, <1>6, <2>2 DEF Opens
  <2> QED
    BY <1>6, <2>3 DEF Opens, FrameOf, FirstOf
<1>7. q # << >> => Opens(q[1], 0)'
  <2>1. q # << >> => 1 \in 1 .. Len(q)
    OBVIOUS
  <2> QED
    BY <1>1, <1>6, <2>1
<1>8. ASSUME NEW k \in 2 .. Len(q) PROVE Continues(q[k - 1], q[k])'
  <2>1. k - 1 \in 1 .. Len(q) /\ k \in 1 .. Len(q)
    OBVIOUS
  <2>2. FrameOf(q[k - 1]) \in 1 .. Len(lens) /\ FrameOf(q[k - 1]) \in Nat
    BY <1>2, <1>4, <2>1
  <2>3. Kept(FrameOf(q[k - 1]))' = Kept(FrameOf(q[k - 1]))
    BY <1>3, <2>2 DEF Kept, FrameOf
  <2>4. Continues(q[k - 1], q[k])
    BY <1>1
  <2>5. CASE LastOf(q[k - 1]) < Kept(FrameOf(q[k - 1]))
    BY <2>3, <2>4, <2>5 DEF Continues, FrameOf, FirstOf, LastOf
  <2>6. CASE ~(LastOf(q[k - 1]) < Kept(FrameOf(q[k - 1])))
    <3>1. Opens(q[k], FrameOf(q[k - 1]))
      BY <2>4, <2>6 DEF Continues
    <3>2. PICK f \in Nat : f = FrameOf(q[k - 1])
      BY <2>2
    <3>3. Opens(q[k], f)'
      BY <1>6, <2>1, <3>1, <3>2
    <3>4. Opens(q[k], FrameOf(q[k - 1]))'
      BY <3>2, <3>3 DEF Opens, FrameOf
    <3> QED
      BY <2>3, <2>6, <3>4 DEF Continues, FrameOf, FirstOf, LastOf
  <2> QED
    BY <2>5, <2>6
<1> QED
  BY <1>5, <1>7, <1>8 DEF InOrder

LEMMA OrderAppends ==
  ASSUME NEW q \in Seq(PktWords), InOrder(q), NEW w \in PktWords, IsPiece(w),
         q = << >> => Opens(w, 0), q # << >> => Continues(q[Len(q)], w)
  PROVE  InOrder(Append(q, w))
<1>1. /\ \A k \in 1 .. Len(q) : IsPiece(q[k])
      /\ q # << >> => Opens(q[1], 0)
      /\ \A k \in 2 .. Len(q) : Continues(q[k - 1], q[k])
  BY DEF InOrder
<1>2. PICK r : r = Append(q, w)
  OBVIOUS
<1>3. PICK n \in Nat : n = Len(q) /\ (q = << >> <=> n = 0)
  OBVIOUS
<1>4. /\ r \in Seq(PktWords) /\ Len(r) = n + 1 /\ r[n + 1] = w
      /\ \A k \in 1 .. n : r[k] = q[k]
  BY <1>2, <1>3
<1>5. \A k \in 1 .. Len(r) : IsPiece(r[k])
  <2>1. SUFFICES ASSUME NEW k \in 1 .. n + 1 PROVE IsPiece(r[k])
    BY <1>4
  <2>2. k \in 1 .. n \/ k = n + 1
    OBVIOUS
  <2> QED
    BY <1>1, <1>3, <1>4, <2>2
<1>6. Opens(r[1], 0)
  <2>1. CASE n = 0
    BY <1>3, <1>4, <2>1
  <2>2. CASE n # 0
    BY <1>1, <1>3, <1>4, <2>2
  <2> QED
    BY <2>1, <2>2
<1>7. \A k \in 2 .. Len(r) : Continues(r[k - 1], r[k])
  <2>1. SUFFICES ASSUME NEW k \in 2 .. n + 1 PROVE Continues(r[k - 1], r[k])
    BY <1>4
  <2>2. k - 1 \in 1 .. n /\ r[k - 1] = q[k - 1]
    BY <1>4
  <2>3. CASE k \in 2 .. n
    <3>1. k \in 1 .. n /\ r[k] = q[k]
      BY <1>4, <2>3
    <3> QED
      BY <1>1, <1>3, <2>2, <2>3, <3>1
  <2>4. CASE k = n + 1
    <3>1. r[k] = w /\ k - 1 = n /\ r[k - 1] = q[n] /\ q # << >>
      BY <1>3, <1>4, <2>2, <2>4
    <3>2. Continues(q[n], w)
      BY <1>3, <3>1
    <3> QED
      BY <3>1, <3>2
  <2> QED
    BY <2>3, <2>4
<1> QED
  BY <1>2, <1>5, <1>6, <1>7 DEF InOrder

(* What a byte count gives back that went round by a word. *)
LEMMA Wraps ==
  ASSUME NEW w \in Nat, w > 2, NEW k \in 0 .. w - 1
  PROVE  (k + w) % w = k
  OBVIOUS

(* A word of state_accu: behind m bytes of frame f. *)
LEMMA PieceOf ==
  ASSUME NEW f \in 1 .. Len(lens), NEW m \in Nat, NEW w, w.n \in 1 .. W,
         \A i \in 0 .. w.n - 1 : w.bytes[i] = <<f, m + i + 1>>,
         Kept(f) \in Nat, m + w.n <= Kept(f), w.n = W \/ m + w.n = Kept(f),
         w.mark = IF m = 0 THEN "head" ELSE IF m + w.n = Kept(f) THEN "tail" ELSE "body"
  PROVE  IsPiece(w) /\ FrameOf(w) = f /\ FirstOf(w) = m + 1 /\ LastOf(w) = m + w.n
<1>1. PICK n \in 1 .. W, kept \in Nat : n = w.n /\ kept = Kept(f)
  OBVIOUS
<1>2. W \in Nat /\ n \in Nat
  BY Sizes
<1>3. w.bytes[0] = <<f, m + 1>>
  <2>1. 0 \in 0 .. n - 1
    BY <1>2
  <2>2. w.bytes[0] = <<f, m + 0 + 1>>
    BY <1>1, <2>1
  <2> QED
    BY <2>2
<1>4. FrameOf(w) = f /\ FirstOf(w) = m + 1
  BY <1>3 DEF FrameOf, FirstOf
<1>5. LastOf(w) = m + n
  BY <1>1, <1>2, <1>4 DEF LastOf
<1>6. \A i \in 0 .. w.n - 1 : w.bytes[i] = <<FrameOf(w), FirstOf(w) + i>>
  <2>1. \A i \in 0 .. n - 1 : m + 1 + i = m + i + 1
    BY <1>2
  <2> QED
    BY <1>1, <1>4, <2>1
<1>7. n = IF kept - FirstOf(w) + 1 < W THEN kept - FirstOf(w) + 1 ELSE W
  <2>1. kept - FirstOf(w) + 1 = kept - m
    BY <1>4
  <2>2. n = IF kept - m < W THEN kept - m ELSE W
    BY <1>1, <1>2
  <2> QED
    BY <2>1, <2>2
<1>8. w.mark = IF FirstOf(w) = 1 THEN "head" ELSE IF LastOf(w) = kept THEN "tail" ELSE "body"
  <2>1. FirstOf(w) = 1 <=> m = 0
    BY <1>4
  <2> QED
    BY <1>1, <1>5, <2>1
<1>9. FirstOf(w) \in 1 .. kept
  BY <1>1, <1>2, <1>4
<1> QED
  BY <1>1, <1>4, <1>5, <1>6, <1>7, <1>8, <1>9 DEF IsPiece

(* A word joins the stream when it is written, and no word leaves it. *)
LEMMA StreamGrows ==
  ASSUME AccuType, AccuInv, G!Accumulate, FifoType, FifoInv, ReadInv, RoomInv,
         G!Fifo, G!ReadPacket, G!Collect, StreamType, AccuType'
  PROVE  /\ Stream \in Seq(PktWords) /\ StreamType'
         /\ Stream' = IF wrenPkt' THEN Append(Stream, dinPkt') ELSE Stream
<1> DEFINE P == IF pktValid THEN <<pktData>> ELSE << >>
           D == IF wrenPkt THEN <<dinPkt>> ELSE << >>
           R == IF Reading THEN <<dout>> ELSE << >>
           E == IF wrenPkt' THEN <<dinPkt'>> ELSE << >>
<1>1. /\ got \in Seq(PktWords) /\ fifoPkt \in Seq(PktWords)
      /\ P \in Seq(PktWords) /\ D \in Seq(PktWords) /\ R \in Seq(PktWords) /\ E \in Seq(PktWords)
  <2>1. <<pktData>> \in Seq(PktWords) /\ <<dinPkt>> \in Seq(PktWords)
        /\ <<dout>> \in Seq(PktWords) /\ <<dinPkt'>> \in Seq(PktWords) /\ << >> \in Seq(PktWords)
    BY DEF FifoType, AccuType
  <2> QED
    BY <2>1 DEF StreamType, FifoType
<1>2. got' = got \o P
  <2>1. got' = IF pktValid THEN Append(got, pktData) ELSE got
    BY DEF G!Collect
  <2>2. Append(got, pktData) = got \o <<pktData>>
    BY <1>1 DEF FifoType
  <2>3. got \o << >> = got
    BY <1>1, ConcatEmptySeq
  <2> QED
    BY <2>1, <2>2, <2>3
<1>3. (IF pktValid' THEN <<pktData'>> ELSE << >>) = R
  <2>1. CASE Reading
    BY <2>1 DEF Reading, G!ReadPacket
  <2>2. CASE ~Reading
    <3>1. pktValid' = FALSE
      BY <2>2 DEF Reading, G!ReadPacket, FifoType
    <3> QED
      BY <2>2, <3>1
  <2> QED
    BY <2>1, <2>2
<1>4. PICK popped : popped = IF Reading THEN Tail(fifoPkt) ELSE fifoPkt
  OBVIOUS
<1>13. /\ popped \in Seq(PktWords) /\ fifoPkt = R \o popped
       /\ fifoPkt' = IF wrenPkt THEN Append(popped, dinPkt) ELSE popped
  <2>1. wrenPkt => Len(fifoPkt) < PktCap
    <3>1. T \in Nat /\ PktCap \in Nat /\ T <= PktCap /\ Len(fifoPkt) \in Nat
      BY Sizes DEF FifoType
    <3> QED
      BY <3>1, PktRoom
  <2>2. Reading => fifoPkt # << >> /\ dout = fifoPkt[1]
    <3>1. PICK p \in Nat, q \in Nat : p = (IF Reading THEN 1 ELSE 0) /\ q = (IF wrenPkt THEN 1 ELSE 0)
      OBVIOUS
    <3>2. Reading => Len(fifoPkt) >= 1 /\ dout = fifoPkt[1]
      BY <3>1, PktFifo
    <3> QED
      BY <1>1, <3>2
  <2>3. rdenPkt <=> Reading
    BY DEF ReadInv
  <2>4. CASE Reading
    <3>1. Tail(fifoPkt) \in Seq(PktWords) /\ fifoPkt = <<dout>> \o Tail(fifoPkt)
      <4>1. fifoPkt # << >> /\ dout = Head(fifoPkt)
        BY <1>1, <2>2, <2>4
      <4>2. fifoPkt = <<Head(fifoPkt)>> \o Tail(fifoPkt) /\ Tail(fifoPkt) \in Seq(PktWords)
        BY <1>1, <4>1, HeadTailProperties
      <4> QED
        BY <4>1, <4>2
    <3>2. fifoPkt' = IF wrenPkt THEN Append(Tail(fifoPkt), dinPkt) ELSE Tail(fifoPkt)
      BY <2>1, <2>2, <2>3, <2>4 DEF G!Fifo
    <3> QED
      BY <1>4, <2>4, <3>1, <3>2
  <2>5. CASE ~Reading
    <3>1. << >> \o fifoPkt = fifoPkt
      BY <1>1, ConcatEmptySeq
    <3>2. fifoPkt' = IF wrenPkt THEN Append(fifoPkt, dinPkt) ELSE fifoPkt
      BY <2>1, <2>3, <2>5 DEF G!Fifo
    <3> QED
      BY <1>1, <1>4, <2>5, <3>1, <3>2
  <2> QED
    BY <2>4, <2>5
<1>5. fifoPkt' = popped \o D
  <2>1. Append(popped, dinPkt) = popped \o <<dinPkt>>
    <3>1. popped \in Seq(PktWords) /\ dinPkt \in PktWords
      BY <1>13 DEF AccuType
    <3> QED
      BY <3>1
  <2>2. popped \o << >> = popped
    BY <1>13, ConcatEmptySeq
  <2> QED
    BY <1>13, <2>1, <2>2
<1>6. Stream' = (((got \o P) \o R) \o (popped \o D)) \o E
  BY <1>2, <1>3, <1>5 DEF Stream
<1>7. Stream = ((got \o P) \o (R \o popped)) \o D
  BY <1>13 DEF Stream
<1>8. (got \o P) \in Seq(PktWords) /\ (R \o popped) \in Seq(PktWords) /\ (got \o P) \o R \in Seq(PktWords)
  BY <1>1, <1>13, ConcatProperties
<1>9. ((got \o P) \o (R \o popped)) \o D = ((got \o P) \o R) \o (popped \o D)
  <2>1. PICK p \in Seq(PktWords), d \in Seq(PktWords), r \in Seq(PktWords) : p = P /\ d = D /\ r = R
    BY <1>1
  <2>3. PICK g \in Seq(PktWords) : g = got \o p
    BY <1>1, <2>1, ConcatProperties
  <2>4. (g \o (r \o popped)) \o d = (g \o r) \o (popped \o d)
    <3>1. PICK o \in Seq(PktWords) : o = popped
      BY <1>13
    <3>2. g \o (r \o o) = (g \o r) \o o
      OBVIOUS
    <3>3. PICK e \in Seq(PktWords) : e = g \o r
      BY ConcatProperties
    <3>4. (e \o o) \o d = e \o (o \o d)
      OBVIOUS
    <3> QED
      BY <3>1, <3>2, <3>3, <3>4
  <2> QED
    BY <2>1, <2>3, <2>4
<1>10. Stream \in Seq(PktWords)
  <2>1. (got \o P) \o (R \o popped) \in Seq(PktWords)
    BY <1>8, ConcatProperties
  <2> QED
    BY <1>1, <1>7, <2>1, ConcatProperties
<1>11. Stream' = Stream \o E
  BY <1>6, <1>7, <1>9
<1>12. Stream' = IF wrenPkt' THEN Append(Stream, dinPkt') ELSE Stream
  <2>1. CASE wrenPkt'
    <3>1. dinPkt' \in PktWords
      BY DEF AccuType
    <3>2. Append(Stream, dinPkt') = Stream \o <<dinPkt'>>
      BY <1>10, <3>1
    <3> QED
      BY <1>11, <2>1, <3>2
  <2>2. CASE ~wrenPkt'
    <3>1. Stream \o << >> = Stream
      BY <1>10, ConcatEmptySeq
    <3> QED
      BY <1>11, <2>2, <3>1
  <2> QED
    BY <2>1, <2>2
<1> QED
  BY <1>2, <1>8, <1>10, <1>12 DEF StreamType

(* What has come out is a beginning of it. *)
LEMMA GotOfStream ==
  ASSUME StreamType, FifoType, AccuType, InOrder(Stream)
  PROVE  PacketsIntact
<1>1. PICK x : x = ((IF pktValid THEN <<pktData>> ELSE << >>) \o fifoPkt)
                     \o (IF wrenPkt THEN <<dinPkt>> ELSE << >>)
  OBVIOUS
<1>2. PICK p \in Seq(PktWords), d \in Seq(PktWords) :
        p = (IF pktValid THEN <<pktData>> ELSE << >>) /\ d = (IF wrenPkt THEN <<dinPkt>> ELSE << >>)
  <2>1. <<pktData>> \in Seq(PktWords) /\ <<dinPkt>> \in Seq(PktWords) /\ << >> \in Seq(PktWords)
    BY DEF FifoType, AccuType
  <2> QED
    BY <2>1
<1>3. got \in Seq(PktWords) /\ fifoPkt \in Seq(PktWords)
  BY DEF StreamType, FifoType
<1>4. Stream = ((got \o p) \o fifoPkt) \o d
  BY <1>2 DEF Stream
<1>5. PICK a \in Seq(PktWords) : a = got \o p
  BY <1>2, <1>3, ConcatProperties
<1>6. PICK b \in Seq(PktWords) : b = a \o fifoPkt
  BY <1>3, <1>5, ConcatProperties
<1>7. Stream = b \o d
  BY <1>4, <1>5, <1>6
<1>8. PICK n \in Nat, m \in Nat, l \in Nat, s \in Nat :
        /\ n = Len(got) /\ m = Len(a) /\ l = Len(b) /\ s = Len(Stream)
        /\ n <= m /\ m <= l /\ l <= s
  <2>1. Len(got) \in Nat /\ Len(p) \in Nat /\ Len(fifoPkt) \in Nat /\ Len(d) \in Nat
    BY <1>2, <1>3
  <2>2. Len(a) = Len(got) + Len(p)
    BY <1>2, <1>3, <1>5, ConcatProperties
  <2>3. Len(b) = Len(a) + Len(fifoPkt)
    BY <1>3, <1>5, <1>6, ConcatProperties
  <2>4. Len(Stream) = Len(b) + Len(d)
    BY <1>2, <1>6, <1>7, ConcatProperties
  <2>5. /\ Len(a) \in Nat /\ Len(b) \in Nat /\ Len(Stream) \in Nat
        /\ Len(got) <= Len(a) /\ Len(a) <= Len(b) /\ Len(b) <= Len(Stream)
    BY <2>1, <2>2, <2>3, <2>4
  <2> QED
    BY <2>1, <2>5
<1>9. \A k \in 1 .. n : Stream[k] = got[k] /\ k \in 1 .. s
  <2>1. SUFFICES ASSUME NEW k \in 1 .. n PROVE Stream[k] = got[k]
    BY <1>8
  <2>2. k \in 1 .. m /\ k \in 1 .. l /\ k \in 1 .. s
    BY <1>8
  <2>3. a[k] = got[k]
    BY <1>2, <1>3, <1>5, <1>8, <2>1
  <2>4. b[k] = a[k]
    BY <1>3, <1>5, <1>6, <1>8, <2>2
  <2>5. Stream[k] = b[k]
    BY <1>2, <1>6, <1>7, <1>8, <2>2
  <2> QED
    BY <2>3, <2>4, <2>5
<1>10. /\ \A k \in 1 .. s : IsPiece(Stream[k])
       /\ Stream # << >> => Opens(Stream[1], 0)
       /\ \A k \in 2 .. s : Continues(Stream[k - 1], Stream[k])
  BY <1>8 DEF InOrder
<1>11. got # << >> => Opens(got[1], 0)
  <2>1. SUFFICES ASSUME got # << >> PROVE Opens(got[1], 0)
    OBVIOUS
  <2>2. n >= 1 /\ 1 \in 1 .. n
    BY <1>3, <1>8, <2>1
  <2>3. s >= 1
    BY <1>8, <2>2
  <2>4. Stream # << >>
    BY <1>8, <2>3
  <2> QED
    BY <1>9, <1>10, <2>2, <2>4
<1>12. \A k \in 2 .. n : Continues(got[k - 1], got[k])
  <2>1. SUFFICES ASSUME NEW k \in 2 .. n PROVE Continues(got[k - 1], got[k])
    OBVIOUS
  <2>2. k - 1 \in 1 .. n /\ k \in 1 .. n /\ k \in 2 .. s
    BY <1>8
  <2>3. Stream[k - 1] = got[k - 1] /\ Stream[k] = got[k]
    BY <1>9, <2>2
  <2> QED
    BY <1>10, <2>2, <2>3
<1> QED
  BY <1>8, <1>9, <1>10, <1>11, <1>12 DEF PacketsIntact

(* Frames end one after the other; one that ends while no byte goes on has  *)
(* none but its CRC.                                                        *)
LEMMA DoneMoves ==
  ASSUME Ranges, WriterInv, StreamInv, ReaderInv, WordsInv, PipeType, PipeInv,
         NEW start, A!Line(start), A!Write, A!Fifo, A!Read, A!Check
  PROVE  /\ Done \in 0 .. Len(lens)
         /\ ~tx.en => Done' = Done
         /\ ~gmiiOut.en /\ ~gmiiOut'.en /\ Done' # Done =>
              Done' = Done + 1 /\ Done + 1 \in 1 .. Len(lens) /\ lens[Done + 1] <= A!CRC
<1>1. /\ gmiiOut'.en <=> tx.en /\ temp[4].en
  BY PipeShift
<1>2. /\ Done \in 0 .. Len(lens)
      /\ Done' = IF Pops /\ Kind(asFifo[1]) = "sep" THEN Done + 1 ELSE Done
      /\ Len(lens) \in Nat /\ \A f \in 1 .. Len(lens) : lens[f] \in Nat \ {0}
  BY DoneStep, LensGrow
<1>3. A!CRC = 4
  BY DEF A!CRC
<1>4. CASE tx.en
  <2>1. /\ Done + 1 \in 1 .. Len(lens)
        /\ temp[4].en <=> tx.data[2] > 4
        /\ Kind(asFifo[1]) = "sep" => tx.data[2] = lens[Done + 1]
    <3>1. InFrame(tx.data[2])
      BY <1>4 DEF PipeInv
    <3>2. 4 \in 1 .. 4
      OBVIOUS
    <3>3. Done + 1 \in 1 .. Len(lens)
      BY <1>2, <3>1 DEF InFrame
    <3> QED
      BY <3>1, <3>2, <3>3 DEF InFrame
  <2>2. lens[Done + 1] \in Nat
    BY <1>2, <2>1
  <2>3. SUFFICES ASSUME ~gmiiOut'.en, Done' # Done
                 PROVE  Done' = Done + 1 /\ lens[Done + 1] <= A!CRC
    BY <1>2, <1>4, <2>1
  <2>4. Kind(asFifo[1]) = "sep" /\ Done' = Done + 1
    BY <1>2, <2>3
  <2> QED
    BY <1>1, <1>3, <1>4, <2>1, <2>2, <2>3, <2>4
<1>5. CASE ~tx.en /\ temp[1].en
  <2>1. FrameEnd(lens[Done])
    BY <1>5 DEF PipeInv
  <2>2. stateRd = "IDLE"
    BY <2>1 DEF FrameEnd
  <2> QED
    BY <1>2, <2>2, PopsMeans
<1>6. CASE ~tx.en /\ ~temp[1].en
  <2>1. Between
    BY <1>6 DEF PipeInv
  <2>2. stateRd = "WAIT_TAIL" => Kind(asFifo[1]) # "sep"
    BY <2>1 DEF Between
  <2>3. stateRd = "DISCARD_PKT_HEAD" => Kind(asFifo[1]) # "sep"
    BY DEF ReaderInv
  <2>4. Pops => stateRd \in {"DISCARD_PKT_HEAD", "WAIT_TAIL"}
    BY PopsMeans DEF ReaderInv
  <2> QED
    BY <1>2, <2>2, <2>3, <2>4
<1> QED
  BY <1>4, <1>5, <1>6

(* No word is written: what is behind the last one may be a frame more that *)
(* gives none.                                                              *)
LEMMA UpToKeeps ==
  ASSUME Ranges, NEW start, A!Line(start), Stream \in Seq(PktWords), InOrder(Stream), Stream' = Stream,
         NEW f \in 1 .. Len(lens) + 1, UpTo(f),
         NEW g, \/ g = f
                \/ g = f + 1 /\ f \in 1 .. Len(lens) /\ Kept(f) = 0
  PROVE  UpTo(g)'
<1>1. PICK q \in Seq(PktWords) : q = Stream /\ q = Stream'
  OBVIOUS
<1>2. PICK v : v = q[Len(q)]
  OBVIOUS
<1>3. Len(lens) \in Nat /\ \A e \in 1 .. Len(lens) : Kept(e)' = Kept(e)
  BY LensGrow, KeptOf
<1>4. Latest = v /\ Latest' = v
  BY <1>1, <1>2 DEF Latest
<1>5. q # << >> => FrameOf(v) \in 1 .. Len(lens)
  <2>1. q # << >> => Len(q) \in 1 .. Len(q)
    OBVIOUS
  <2>2. q # << >> => IsPiece(v)
    BY <1>1, <1>2, <2>1 DEF InOrder
  <2> QED
    BY <2>2 DEF IsPiece
<1>6. CASE q = << >>
  <2>1. f > 0 /\ \A e \in 1 .. f - 1 : Kept(e) = 0
    BY <1>1, <1>6 DEF UpTo
  <2>2. g \in Nat /\ g > 0
    BY <1>3
  <2>3. \A e \in 1 .. g - 1 : Kept(e)' = 0
    <3>1. SUFFICES ASSUME NEW e \in 1 .. g - 1 PROVE Kept(e)' = 0
      OBVIOUS
    <3>2. e \in 1 .. Len(lens)
      BY <1>3, <2>2
    <3>3. Kept(e) = 0
      BY <1>3, <2>1, <2>2
    <3> QED
      BY <1>3, <3>2, <3>3
  <2> QED
    BY <1>1, <1>6, <2>2, <2>3 DEF UpTo
<1>7. CASE q # << >>
  <2>1. PICK h \in 1 .. Len(lens) : h = FrameOf(v)
    BY <1>5, <1>7
  <2>2. /\ LastOf(v) = Kept(h) /\ h < f
        /\ \A e \in h + 1 .. f - 1 : Kept(e) = 0
    BY <1>1, <1>4, <1>7, <2>1 DEF UpTo
  <2>3. g \in Nat /\ h < g
    BY <1>3, <2>2
  <2>4. \A e \in h + 1 .. g - 1 : Kept(e)' = 0
    <3>1. SUFFICES ASSUME NEW e \in h + 1 .. g - 1 PROVE Kept(e)' = 0
      OBVIOUS
    <3>2. e \in 1 .. Len(lens)
      BY <1>3, <2>3
    <3>3. Kept(e) = 0
      BY <1>3, <2>2, <2>3
    <3> QED
      BY <1>3, <3>2, <3>3
  <2>5. LastOf(v) = Kept(h)'
    BY <1>3, <2>2
  <2>6. LastOf(Latest)' = LastOf(v) /\ FrameOf(Latest)' = h /\ Kept(FrameOf(Latest))' = Kept(h)'
    BY <1>4, <2>1 DEF LastOf, FirstOf, FrameOf, Kept
  <2>7. Stream' # << >>
    BY <1>1, <1>7
  <2> QED
    BY <2>3, <2>4, <2>5, <2>6, <2>7 DEF UpTo
<1> QED
  BY <1>6, <1>7

(* A word is written. *)
LEMMA WordJoins ==
  ASSUME Ranges, NEW start, A!Line(start), Stream \in Seq(PktWords), InOrder(Stream),
         NEW w \in PktWords, Stream' = Append(Stream, w), IsPiece(w),
         \/ FirstOf(w) = 1 /\ UpTo(FrameOf(w))
         \/ /\ Stream # << >> /\ FrameOf(Latest) = FrameOf(w)
            /\ FirstOf(w) = LastOf(Latest) + 1 /\ LastOf(Latest) < Kept(FrameOf(w))
  PROVE  InOrder(Stream)' /\ Stream' # << >> /\ Latest' = w
<1>1. PICK q \in Seq(PktWords) : q = Stream
  OBVIOUS
<1>2. PICK r : r = Append(q, w)
  OBVIOUS
<1>3. r \in Seq(PktWords) /\ r # << >> /\ r[Len(r)] = w /\ Stream' = r
  BY <1>1, <1>2
<1>4. InOrder(q)
  BY <1>1
<1>5. q = << >> => Opens(w, 0)
  BY <1>1 DEF UpTo, Opens
<1>6. q # << >> => Continues(q[Len(q)], w)
  <2>1. SUFFICES ASSUME q # << >> PROVE Continues(q[Len(q)], w)
    OBVIOUS
  <2>2. Latest = q[Len(q)]
    BY <1>1 DEF Latest
  <2>3. CASE FirstOf(w) = 1 /\ UpTo(FrameOf(w))
    <3>1. Opens(w, FrameOf(Latest)) /\ LastOf(Latest) = Kept(FrameOf(Latest))
      BY <1>1, <2>1, <2>3 DEF UpTo, Opens
    <3>2. FrameOf(Latest) \in 1 .. Len(lens)
      <4>1. Len(q) \in 1 .. Len(q)
        BY <2>1
      <4> QED
        BY <1>1, <2>2, <4>1 DEF InOrder, IsPiece
    <3>3. Kept(FrameOf(Latest)) \in Nat
      BY <3>2, KeptOf
    <3>4. ~(LastOf(Latest) < Kept(FrameOf(Latest)))
      BY <3>1, <3>3
    <3> QED
      BY <2>2, <3>1, <3>4 DEF Continues
  <2>4. CASE ~(FirstOf(w) = 1 /\ UpTo(FrameOf(w)))
    BY <2>2, <2>4 DEF Continues
  <2> QED
    BY <2>3, <2>4
<1>7. InOrder(r)
  BY <1>2, <1>4, <1>5, <1>6, OrderAppends
<1>8. InOrder(r)'
  BY <1>3, <1>7, OrderKeeps
<1>9. InOrder(Stream)'
  BY <1>3, <1>8 DEF InOrder
<1> QED
  BY <1>3, <1>9 DEF Latest

(* Which frame the bytes are of, before and after a clock. *)
LEMMA CurrentMoves ==
  ASSUME Ranges, WriterInv, StreamInv, ReaderInv, WordsInv, PipeType, PipeInv, AccuInv,
         NEW start, A!Line(start), A!Write, A!Fifo, A!Read, A!Check
  PROVE  /\ Coming \in 1 .. Len(lens) + 1
         /\ gmiiOut.en =>
              /\ Current = Frame /\ Current' = Frame /\ Coming = Frame /\ Frame \in 1 .. Len(lens)
              /\ gmiiOut.data = <<Frame, Place>> /\ Place \in Nat /\ lens[Frame] \in Nat
              /\ 1 <= Place /\ Place + A!CRC <= lens[Frame]
              /\ gmiiOut'.en => Frame' = Frame /\ Coming' = Frame
              /\ ~gmiiOut'.en => Coming' = Frame + 1 /\ lens[Frame] = Place + A!CRC
         /\ ~gmiiOut.en =>
              /\ Current = Done
              /\ \/ Coming' = Coming
                 \/ Coming' = Coming + 1 /\ Coming \in 1 .. Len(lens) /\ lens[Coming] <= A!CRC
              /\ stateAccu # "IDLE" => ~gmiiOut'.en /\ Current' = Done /\ Coming' = Done + 1
<1>1. /\ gmiiOut.en => Frame \in 1 .. Len(lens) /\ Place \in 1 .. lens[Frame] - A!CRC
      /\ gmiiOut.en /\ gmiiOut'.en => gmiiOut'.data = <<Frame, Place + 1>>
      /\ gmiiOut.en /\ ~gmiiOut'.en =>
           Place = lens[Frame] - A!CRC /\ Frame = Done' /\ Done' > 0
      /\ ~gmiiOut.en /\ gmiiOut'.en => gmiiOut'.data = <<Done + 1, 1>> /\ tx.en
  BY BytesOfFrame
<1>2. /\ Done \in 0 .. Len(lens)
      /\ ~tx.en => Done' = Done
      /\ ~gmiiOut.en /\ ~gmiiOut'.en /\ Done' # Done =>
           Done' = Done + 1 /\ Done + 1 \in 1 .. Len(lens) /\ lens[Done + 1] <= A!CRC
  BY DoneMoves
<1>3. Len(lens) \in Nat /\ \A f \in 1 .. Len(lens) : lens[f] \in Nat
  BY LensGrow
<1>4. gmiiOut.data = <<Frame, Place>>
  BY DEF PipeType, Wires, Frame, Place
<1>5. A!CRC = 4
  BY DEF A!CRC
<1>6. CASE gmiiOut.en
  <2>1. Frame \in 1 .. Len(lens) /\ lens[Frame] \in Nat /\ Place \in 1 .. lens[Frame] - 4
    BY <1>1, <1>3, <1>5, <1>6
  <2>2. Place \in Nat /\ 1 <= Place /\ Place + 4 <= lens[Frame]
    BY <2>1
  <2>3. Current = Frame /\ Coming = Frame
    BY <1>6 DEF Current, Coming
  <2>4. gmiiOut'.en => Frame' = Frame
    BY <1>1, <1>6 DEF Frame
  <2>5. gmiiOut'.en => Current' = Frame /\ Coming' = Frame
    BY <2>4 DEF Current, Coming
  <2>6. ~gmiiOut'.en => Current' = Frame /\ Coming' = Frame + 1 /\ lens[Frame] = Place + 4
    <3>1. ~gmiiOut'.en => Place = lens[Frame] - 4 /\ Frame = Done'
      BY <1>1, <1>5, <1>6
    <3> QED
      BY <2>1, <2>2, <3>1 DEF Current, Coming
  <2> QED
    BY <1>3, <1>4, <1>5, <1>6, <2>1, <2>2, <2>3, <2>4, <2>5, <2>6
<1>7. CASE ~gmiiOut.en
  <2>1. Current = Done /\ Coming = Done + 1
    BY <1>7 DEF Current, Coming
  <2>2. gmiiOut'.en => Coming' = Done + 1 /\ tx.en
    BY <1>1, <1>7 DEF Coming, Frame
  <2>3. ~gmiiOut'.en => Coming' = Done' + 1 /\ Current' = Done'
    BY DEF Coming, Current
  <2>4. stateAccu # "IDLE" => ~tx.en
    BY <1>7 DEF AccuInv
  <2>5. stateAccu # "IDLE" => ~gmiiOut'.en /\ Current' = Done /\ Coming' = Done + 1
    BY <1>2, <2>2, <2>3, <2>4
  <2>6. \/ Coming' = Coming
        \/ Coming' = Coming + 1 /\ Coming \in 1 .. Len(lens) /\ lens[Coming] <= A!CRC
    <3>1. CASE gmiiOut'.en \/ Done' = Done
      BY <2>1, <2>2, <2>3, <3>1
    <3>2. CASE ~gmiiOut'.en /\ Done' # Done
      BY <1>2, <1>7, <2>1, <2>3, <3>2
    <3> QED
      BY <3>1, <3>2
  <2>7. Coming \in 1 .. Len(lens) + 1
    BY <1>2, <1>3, <2>1
  <2> QED
    BY <1>7, <2>1, <2>5, <2>6, <2>7
<1> QED
  BY <1>6, <1>7

(* The bytes of the word that is being filled stay those of its frame. *)
LEMMA TagStep ==
  ASSUME Ranges, WriterInv, StreamInv, ReaderInv, WordsInv, PipeType, PipeInv, AccuType, AccuInv,
         TagInv, NEW start, A!Line(start), A!Write, A!Fifo, A!Read, A!Check, G!Accumulate
  PROVE  TagInv'
<1>1. W \in Nat /\ W > 2 /\ T \in Nat /\ T >= 2 /\ T < 255
  BY Sizes
<1>2. /\ gmiiOut.en =>
           /\ Current = Frame /\ Current' = Frame
           /\ gmiiOut.data = <<Frame, Place>> /\ Place \in Nat
           /\ gmiiOut'.en => Frame' = Frame
      /\ ~gmiiOut.en /\ stateAccu # "IDLE" => ~gmiiOut'.en
  BY CurrentMoves
<1>3. cntValid \in 0 .. W - 1 /\ cntValid \in Nat /\ cnt16 \in 0 .. T /\ pktTag \in [0 .. W - 1 -> Nat \X Nat]
  BY <1>1 DEF AccuType
<1>4. (cntValid + 1) % W = IF cntValid = W - 1 THEN 0 ELSE cntValid + 1
  <2>1. cntValid \in 0 .. W - 1
    BY <1>3
  <2> QED
    BY <1>1, <2>1
<1>5. CASE stateAccu = "IDLE" /\ G!FirstWord
  <2>1. /\ cnt16' = 0
        /\ cntValid' = IF gmiiOut.en THEN (cntValid + 1) % W ELSE 0
        /\ stateAccu' = IF cntValid = W - 1 THEN "WAIT_TAIL" ELSE "IDLE"
        /\ gmiiOut.en => pktTag' = [pktTag EXCEPT ![cntValid] = gmiiOut.data]
    BY <1>5 DEF G!FirstWord, G!DataValid, G!Data
  <2>2. (cntValid = W - 1 => gmiiOut.en) /\ (gmiiOut.en => cntValid = Place - 1)
    BY <1>5 DEF AccuInv
  <2>3. CASE gmiiOut.en
    <3>1. /\ pktTag' = [pktTag EXCEPT ![cntValid] = <<Frame, cntValid + 1>>]
          /\ \A i \in 0 .. W - 1 : i < cntValid => pktTag[i] = <<Frame, i + 1>>
      <4>1. Place = cntValid + 1
        BY <1>2, <1>3, <2>2, <2>3
      <4> QED
        BY <1>2, <1>5, <2>1, <2>3, <4>1 DEF TagInv
    <3>2. \A i \in 0 .. W - 1 : i < cntValid + 1 => pktTag'[i] = <<Frame, i + 1>>
      <4>1. SUFFICES ASSUME NEW i \in 0 .. W - 1, i < cntValid + 1 PROVE pktTag'[i] = <<Frame, i + 1>>
        OBVIOUS
      <4>2. i = cntValid \/ (i < cntValid /\ i # cntValid)
        BY <1>1, <1>3, <4>1
      <4> QED
        BY <1>3, <3>1, <4>2
    <3>3. CASE cntValid = W - 1
      <4>1. stateAccu' = "WAIT_TAIL" /\ cnt16' = 0
        BY <2>1, <3>3
      <4>2. \A i \in 0 .. W - 1 : pktTag'[i] = <<Current', W * cnt16' + i + 1>>
        <5>1. SUFFICES ASSUME NEW i \in 0 .. W - 1 PROVE pktTag'[i] = <<Frame, W * 0 + i + 1>>
          BY <1>2, <2>3, <4>1
        <5>2. i < cntValid + 1 /\ W * 0 + i + 1 = i + 1
          BY <1>1, <1>3, <3>3
        <5> QED
          BY <3>2, <5>2
      <4> QED
        BY <4>1, <4>2 DEF TagInv
    <3>4. CASE cntValid # W - 1
      <4>1. stateAccu' = "IDLE" /\ cntValid' = cntValid + 1
        BY <1>4, <2>1, <2>3, <3>4
      <4>2. gmiiOut'.en => Frame' = Frame
        BY <1>2, <2>3
      <4> QED
        BY <3>2, <4>1, <4>2 DEF TagInv
    <3> QED
      BY <3>3, <3>4
  <2>4. CASE ~gmiiOut.en
    <3>1. stateAccu' = "IDLE" /\ cntValid' = 0
      BY <2>1, <2>2, <2>4
    <3>2. \A i \in 0 .. W - 1 : ~(i < 0)
      BY <1>1
    <3> QED
      BY <3>1, <3>2 DEF TagInv
  <2> QED
    BY <2>3, <2>4
<1>6. CASE stateAccu = "WAIT_TAIL" /\ gmiiOut.en /\ G!MoreBytes
  <2>1. /\ cntValid' = (cntValid + 1) % W
        /\ pktTag' = [pktTag EXCEPT ![cntValid] = gmiiOut.data]
        /\ cntValid = 0 => cnt16' = (cnt16 + 1) % 256
        /\ cntValid = 0 /\ cnt16 = T - 1 => stateAccu' = "OVERFLOW"
        /\ cntValid = 0 /\ cnt16 # T - 1 => stateAccu' = "WAIT_TAIL"
        /\ cntValid # 0 => cnt16' = cnt16 /\ stateAccu' = "WAIT_TAIL"
    BY <1>6 DEF G!MoreBytes, G!Data
  <2>2. /\ Place = W * cnt16 + (IF cntValid = 0 THEN W ELSE cntValid) + 1
        /\ cnt16 \in 0 .. T - 1
    <3>1. Place = Filled + 1
      BY <1>6 DEF AccuInv
    <3>2. Filled = W * cnt16 + (IF cntValid = 0 THEN W ELSE cntValid)
      BY <1>6 DEF Filled
    <3>3. cnt16 \in 0 .. T - 1
      <4>1. head => cnt16 = 0
        BY <1>6 DEF AccuInv
      <4>2. ~head => cnt16 \in 1 .. T - 1
        BY <1>6 DEF AccuInv
      <4> QED
        BY <1>1, <4>1, <4>2
    <3> QED
      BY <3>1, <3>2, <3>3
  <2>3. W * cnt16 \in Nat /\ W * (cnt16 + 1) = W * cnt16 + W
    BY <2>2, Products
  <2>4. pktTag' = [pktTag EXCEPT ![cntValid] = <<Frame, Place>>]
    BY <1>2, <1>6, <2>1
  <2>5. CASE cntValid = 0
    <3>1. cntValid' = 1
      BY <1>1, <1>4, <2>1, <2>5
    <3>2. stateAccu' = "WAIT_TAIL" => cnt16' = cnt16 + 1
      <4>1. cnt16 # T - 1 => (cnt16 + 1) % 256 = cnt16 + 1
        BY <1>1, <2>2
      <4> QED
        BY <2>1, <2>5, <4>1
    <3>3. stateAccu' \in {"WAIT_TAIL", "OVERFLOW"}
      BY <2>1, <2>5
    <3>4. pktTag'[0] = <<Frame, W * (cnt16 + 1) + 0 + 1>>
      <4>1. Place = W * (cnt16 + 1) + 0 + 1
        BY <1>1, <2>2, <2>3, <2>5
      <4>2. pktTag'[0] = <<Frame, Place>>
        BY <1>1, <1>3, <2>4, <2>5
      <4> QED
        BY <4>1, <4>2
    <3>5. \A i \in 0 .. W - 1 : i < 1 => i = 0
      BY <1>1
    <3>6. Current' = Frame
      BY <1>2, <1>6
    <3> QED
      BY <3>1, <3>2, <3>3, <3>4, <3>5, <3>6 DEF TagInv
  <2>6. CASE cntValid # 0
    <3>1. stateAccu' = "WAIT_TAIL" /\ cnt16' = cnt16 /\ Current' = Frame /\ Current = Frame
      BY <1>2, <1>6, <2>1, <2>6
    <3>2. \A i \in 0 .. W - 1 : i < cntValid => pktTag[i] = <<Frame, W * cnt16 + i + 1>>
      BY <1>6, <3>1 DEF TagInv
    <3>3. \A i \in 0 .. W - 1 : i < cntValid + 1 => pktTag'[i] = <<Frame, W * cnt16 + i + 1>>
      <4>1. SUFFICES ASSUME NEW i \in 0 .. W - 1, i < cntValid + 1
                     PROVE  pktTag'[i] = <<Frame, W * cnt16 + i + 1>>
        OBVIOUS
      <4>2. CASE i = cntValid
        <5>1. Place = W * cnt16 + i + 1
          BY <1>3, <2>2, <2>3, <2>6, <4>2
        <5> QED
          BY <1>3, <2>4, <4>2, <5>1
      <4>3. CASE i # cntValid
        <5>1. i < cntValid
          BY <1>3, <4>1, <4>3
        <5>2. pktTag'[i] = pktTag[i]
          BY <1>3, <2>4, <4>3
        <5> QED
          BY <3>2, <5>1, <5>2
      <4> QED
        BY <4>2, <4>3
    <3>4. \A i \in 0 .. W - 1 : cntValid' = 0 \/ i < cntValid' => i < cntValid + 1
      <4>1. CASE cntValid = W - 1
        BY <1>1, <4>1
      <4>2. CASE cntValid # W - 1
        <5>1. cntValid' = cntValid + 1
          BY <1>4, <2>1, <4>2
        <5> QED
          BY <1>3, <5>1
      <4> QED
        BY <4>1, <4>2
    <3> QED
      BY <3>1, <3>3, <3>4 DEF TagInv
  <2> QED
    BY <2>5, <2>6
<1>7. CASE stateAccu = "WAIT_TAIL" /\ ~gmiiOut.en /\ G!EndOfFrame
  <2>1. stateAccu' = "IDLE" /\ ~gmiiOut'.en
    BY <1>2, <1>7 DEF G!EndOfFrame
  <2> QED
    BY <2>1 DEF TagInv
<1>8. CASE stateAccu = "OVERFLOW" /\ G!RestOfFrame
  <2>1. stateAccu' = IF gmiiOut.en THEN "OVERFLOW" ELSE "IDLE"
    BY <1>8 DEF G!RestOfFrame, G!DataValid
  <2>2. ~gmiiOut.en => ~gmiiOut'.en
    BY <1>2, <1>8
  <2> QED
    BY <2>1, <2>2 DEF TagInv
<1> QED
  BY <1>5, <1>6, <1>7, <1>8 DEF G!Accumulate, G!DataValid

(* A clock leaves the words in their order, and the last of them where the  *)
(* frame in state_accu goes on.                                             *)
LEMMA DataStep ==
  ASSUME Ranges, WriterInv, StreamInv, ReaderInv, WordsInv, PipeType, PipeInv, AccuType, AccuInv,
         TagInv, LatestInv, Stream \in Seq(PktWords), InOrder(Stream), dinPkt' \in PktWords,
         Stream' = IF wrenPkt' THEN Append(Stream, dinPkt') ELSE Stream,
         NEW start, A!Line(start), A!Write, A!Fifo, A!Read, A!Check, G!Accumulate
  PROVE  InOrder(Stream)' /\ LatestInv'
<1>1. W \in Nat /\ W > 2 /\ T \in Nat /\ T >= 2 /\ T < 255 /\ A!CRC = 4 /\ T * W \in Nat
  <2>1. W \in Nat /\ W > 2 /\ T \in Nat /\ T >= 2 /\ T < 255
    BY Sizes
  <2> QED
    BY <2>1 DEF A!CRC
<1>2. /\ Coming \in 1 .. Len(lens) + 1
      /\ gmiiOut.en =>
           /\ Current = Frame /\ Current' = Frame /\ Coming = Frame /\ Frame \in 1 .. Len(lens)
           /\ gmiiOut.data = <<Frame, Place>> /\ Place \in Nat /\ lens[Frame] \in Nat
           /\ 1 <= Place /\ Place + 4 <= lens[Frame]
           /\ gmiiOut'.en => Frame' = Frame /\ Coming' = Frame
           /\ ~gmiiOut'.en => Coming' = Frame + 1 /\ lens[Frame] = Place + 4
      /\ ~gmiiOut.en =>
           /\ Current = Done
           /\ \/ Coming' = Coming
              \/ Coming' = Coming + 1 /\ Coming \in 1 .. Len(lens) /\ lens[Coming] <= 4
           /\ stateAccu # "IDLE" => ~gmiiOut'.en /\ Current' = Done /\ Coming' = Done + 1
  BY <1>1, CurrentMoves
<1>3. cntValid \in 0 .. W - 1 /\ cnt16 \in 0 .. T
  BY DEF AccuType
<1>4. /\ Len(lens) \in Nat /\ Len(lens') \in Nat /\ Len(lens) <= Len(lens')
      /\ \A f \in 1 .. Len(lens) : lens[f] \in Nat /\ lens[f] \in Lengths
      /\ \A f \in 1 .. Len(lens) :
           /\ Kept(f) \in Nat /\ Kept(f)' = Kept(f)
           /\ lens[f] > 4 + W /\ lens[f] <= 4 + T * W => Kept(f) = lens[f] - 4
           /\ lens[f] > 4 + W /\ lens[f] > 4 + T * W => Kept(f) = T * W
           /\ lens[f] <= 4 + W => Kept(f) = 0
  <2>1. \A f \in 1 .. Len(lens) : lens[f] \in Nat /\ lens[f] \in Lengths
    BY LensGrow DEF Ranges
  <2> QED
    BY <1>1, <2>1, LensGrow, KeptOf
<1>5. Stream' = Stream => InOrder(Stream)'
  <2>1. SUFFICES ASSUME Stream' = Stream PROVE InOrder(Stream)'
    OBVIOUS
  <2>2. PICK q \in Seq(PktWords) : q = Stream
    OBVIOUS
  <2>3. InOrder(q)'
    BY <2>2, OrderKeeps
  <2> QED
    BY <2>1, <2>2, <2>3 DEF InOrder
<1>6. CASE stateAccu = "IDLE" /\ G!FirstWord
  <2>1. /\ wrenPkt' = FALSE /\ cnt16' = 0 /\ head' = TRUE
        /\ stateAccu' = IF cntValid = W - 1 THEN "WAIT_TAIL" ELSE "IDLE"
    BY <1>6 DEF G!FirstWord
  <2>2. Stream' = Stream /\ UpTo(Coming)
    BY <1>6, <2>1 DEF LatestInv
  <2>3. (cntValid = W - 1 => gmiiOut.en) /\ (gmiiOut.en => cntValid = Place - 1)
    BY <1>6 DEF AccuInv
  <2>4. cntValid = W - 1 => gmiiOut'.en
    <3>1. SUFFICES ASSUME cntValid = W - 1, ~gmiiOut'.en PROVE FALSE
      OBVIOUS
    <3>2. gmiiOut.en /\ Place = W
      BY <1>1, <1>2, <2>3, <3>1
    <3>3. lens[Frame] = 4 + W /\ lens[Frame] \in Lengths
      BY <1>1, <1>2, <1>4, <3>1, <3>2
    <3>4. A!CRC + W \notin Lengths
      BY Sizes
    <3> QED
      BY <1>1, <3>3, <3>4
  <2>5. /\ Coming' = Coming \/ (Coming' = Coming + 1 /\ Coming \in 1 .. Len(lens) /\ Kept(Coming) = 0)
    <3>1. CASE gmiiOut.en
      <4>1. CASE gmiiOut'.en
        BY <1>2, <3>1, <4>1
      <4>2. CASE ~gmiiOut'.en
        <5>1. lens[Frame] <= 4 + W
          BY <1>1, <1>2, <1>3, <2>3, <3>1, <4>2
        <5>2. Kept(Frame) = 0
          BY <1>2, <1>4, <3>1, <5>1
        <5> QED
          BY <1>2, <3>1, <4>2, <5>2
      <4> QED
        BY <4>1, <4>2
    <3>2. CASE ~gmiiOut.en
      <4>1. Coming \in 1 .. Len(lens) /\ lens[Coming] <= 4 => Kept(Coming) = 0
        BY <1>1, <1>4
      <4> QED
        BY <1>2, <3>2, <4>1
    <3> QED
      BY <3>1, <3>2
  <2>6. PICK g : g = Coming'
    OBVIOUS
  <2>7. PICK f \in 1 .. Len(lens) + 1 : f = Coming
    BY <1>2
  <2>8. UpTo(f)
    BY <2>2, <2>7 DEF UpTo
  <2>9. \/ g = f
        \/ g = f + 1 /\ f \in 1 .. Len(lens) /\ Kept(f) = 0
    BY <2>5, <2>6, <2>7 DEF Kept
  <2>10. UpTo(g)'
    BY <2>2, <2>8, <2>9, UpToKeeps
  <2>11. UpTo(Coming)'
    BY <2>6, <2>10 DEF UpTo
  <2>12. gmiiOut'.en => UpTo(Frame)'
    BY <2>11 DEF UpTo, Coming
  <2> QED
    BY <1>5, <2>1, <2>2, <2>4, <2>11, <2>12 DEF LatestInv
<1>7. CASE stateAccu = "WAIT_TAIL" /\ gmiiOut.en /\ G!MoreBytes
  <2>1. /\ wrenPkt' = (cntValid = 0) /\ head' = FALSE
        /\ cntValid = 0 =>
             /\ cnt16' = (cnt16 + 1) % 256
             /\ cnt16 = T - 1 => stateAccu' = "OVERFLOW" /\ dinPkt' = G!Word("tail", W, pktTag)
             /\ cnt16 # T - 1 => /\ stateAccu' = "WAIT_TAIL"
                                 /\ dinPkt' = G!Word(IF head THEN "head" ELSE "body", W, pktTag)
        /\ cntValid # 0 => cnt16' = cnt16 /\ stateAccu' = "WAIT_TAIL"
    BY <1>7 DEF G!MoreBytes
  <2>2. /\ cnt16 \in 0 .. T - 1 /\ (head <=> cnt16 = 0) /\ (head => cntValid = 0)
        /\ Place = W * cnt16 + (IF cntValid = 0 THEN W ELSE cntValid) + 1
    <3>1. Place = Filled + 1
      BY <1>7 DEF AccuInv
    <3>2. Filled = W * cnt16 + (IF cntValid = 0 THEN W ELSE cntValid)
      BY <1>7 DEF Filled
    <3>3. head => cnt16 = 0 /\ cntValid = 0
      BY <1>7 DEF AccuInv
    <3>4. ~head => cnt16 \in 1 .. T - 1
      BY <1>7 DEF AccuInv
    <3> QED
      BY <1>1, <3>1, <3>2, <3>3, <3>4
  <2>3. /\ W * cnt16 \in Nat /\ T * W > W
        /\ W * (cnt16 + 1) = W * cnt16 + W
        /\ IF cnt16 = T - 1 THEN W * cnt16 + W = T * W ELSE W * cnt16 + W < T * W
    BY <2>2, Products
  <2>4. PICK f \in 1 .. Len(lens), kept \in Nat, c \in 0 .. T - 1 :
          f = Frame /\ kept = Kept(f) /\ c = cnt16
    BY <1>2, <1>4, <1>7, <2>2
  <2>5. Current' = f /\ Current = f
    BY <1>2, <1>7, <2>4
  <2>6. CASE cntValid # 0
    <3>1. ~head /\ ~head' /\ stateAccu' = "WAIT_TAIL" /\ cnt16' = cnt16 /\ ~wrenPkt'
      BY <2>1, <2>2, <2>6
    <3>2. Stream' = Stream /\ Latest' = Latest
      BY <3>1 DEF Latest
    <3>3. Stream # << >> /\ FrameOf(Latest) = Current /\ LastOf(Latest) = W * cnt16
      BY <1>7, <3>1 DEF LatestInv
    <3>4. FrameOf(Latest)' = FrameOf(Latest) /\ LastOf(Latest)' = LastOf(Latest)
      BY <3>2 DEF FrameOf, LastOf, FirstOf
    <3> QED
      BY <1>5, <2>5, <3>1, <3>2, <3>3, <3>4 DEF LatestInv
  <2>7. CASE cntValid = 0
    <3>1. PICK mark :
            /\ mark = IF c = T - 1 THEN "tail" ELSE IF c = 0 THEN "head" ELSE "body"
            /\ dinPkt' = G!Word(mark, W, pktTag)
      BY <2>1, <2>2, <2>4, <2>7
    <3>2. PICK m \in Nat, t \in Nat, n \in Nat : m = W * c /\ t = T * W /\ n = lens[f]
      BY <1>1, <1>4, <2>3, <2>4
    <3>3. \A i \in 0 .. W - 1 : pktTag[i] = <<f, m + i + 1>>
      BY <1>7, <2>4, <2>5, <2>7, <3>2 DEF TagInv
    <3>4. /\ m + W <= kept /\ kept > 0
          /\ m + W = kept <=> c = T - 1
      <4>1. Place = m + W + 1
        BY <2>2, <2>4, <2>7, <3>2
      <4>2. Place + 4 <= n
        BY <1>2, <1>7, <2>4, <3>2
      <4>3. n >= m + W + 5
        BY <1>1, <4>1, <4>2
      <4>4. /\ n > 4 + W /\ n <= 4 + t => kept = n - 4
            /\ n > 4 + W /\ n > 4 + t => kept = t
        BY <1>4, <2>4, <3>2
      <4>5. IF c = T - 1 THEN m + W = t ELSE m + W < t
        BY <2>3, <2>4, <3>2
      <4> QED
        BY <1>1, <4>3, <4>4, <4>5
    <3>5. m = 0 <=> c = 0
      <4>1. c >= 1 => W * c >= W
        BY Products
      <4>2. c = 0 => W * c = 0
        BY <1>1
      <4> QED
        BY <1>1, <3>2, <4>1, <4>2
    <3>6. mark = IF m = 0 THEN "head" ELSE IF m + W = kept THEN "tail" ELSE "body"
      <4>1. c = T - 1 => c # 0
        BY <1>1
      <4> QED
        BY <3>1, <3>4, <3>5, <4>1
    <3>7. PICK w \in PktWords : w = dinPkt'
      OBVIOUS
    <3>7a. IsPiece(w) /\ FrameOf(w) = f /\ FirstOf(w) = m + 1 /\ LastOf(w) = m + W
      <4>1. w.n = W /\ w.mark = mark /\ w.bytes = pktTag
        BY <3>1, <3>7 DEF G!Word
      <4>2. w.n \in 1 .. W /\ Kept(f) \in Nat /\ m + w.n <= Kept(f)
        BY <1>1, <2>4, <3>4, <4>1
      <4>3. \A i \in 0 .. w.n - 1 : w.bytes[i] = <<f, m + i + 1>>
        BY <3>3, <4>1
      <4>4. w.mark = IF m = 0 THEN "head" ELSE IF m + w.n = Kept(f) THEN "tail" ELSE "body"
        BY <2>4, <3>6, <4>1
      <4> QED
        BY <4>1, <4>2, <4>3, <4>4, PieceOf
    <3>8. wrenPkt' /\ Stream' = Append(Stream, w)
      BY <2>1, <2>7, <3>7
    <3>9. \/ FirstOf(w) = 1 /\ UpTo(FrameOf(w))
          \/ /\ Stream # << >> /\ FrameOf(Latest) = FrameOf(w)
             /\ FirstOf(w) = LastOf(Latest) + 1 /\ LastOf(Latest) < Kept(FrameOf(w))
      <4>1. CASE head
        <5>1. c = 0
          BY <2>2, <2>4, <4>1
        <5>2. FirstOf(w) = 1
          BY <3>5, <3>7a, <5>1
        <5>3. UpTo(Frame)
          BY <1>7, <4>1 DEF LatestInv
        <5>4. UpTo(FrameOf(w))
          BY <2>4, <3>7a, <5>3 DEF UpTo
        <5> QED
          BY <5>2, <5>4
      <4>2. CASE ~head
        <5>1. Stream # << >> /\ FrameOf(Latest) = f /\ LastOf(Latest) = m
          BY <1>7, <2>4, <2>5, <3>2, <4>2 DEF LatestInv
        <5>2. m < kept
          BY <1>1, <3>4
        <5> QED
          BY <2>4, <3>7a, <5>1, <5>2 DEF Kept
      <4> QED
        BY <4>1, <4>2
    <3>10. InOrder(Stream)' /\ Stream' # << >> /\ Latest' = w
      BY <3>7a, <3>8, <3>9, WordJoins
    <3>11. FrameOf(Latest)' = f /\ LastOf(Latest)' = m + W
      BY <3>7a, <3>10 DEF FrameOf, LastOf, FirstOf
    <3>12. CASE c = T - 1
      <4>1. stateAccu' = "OVERFLOW"
        BY <2>1, <2>4, <2>7, <3>12
      <4>2. Kept(Current)' = kept
        <5>1. Kept(f)' = kept
          BY <1>4, <2>4
        <5> QED
          BY <2>5, <5>1 DEF Kept
      <4>3. LastOf(Latest)' = kept
        BY <3>4, <3>11, <3>12
      <4> QED
        BY <2>5, <3>10, <3>11, <4>1, <4>2, <4>3 DEF LatestInv
    <3>13. CASE c # T - 1
      <4>1. stateAccu' = "WAIT_TAIL" /\ ~head'
        BY <2>1, <2>4, <2>7, <3>13
      <4>2. cnt16' = c + 1
        <5>1. (c + 1) % 256 = c + 1
          BY <1>1, <3>13
        <5> QED
          BY <2>1, <2>4, <2>7, <5>1
      <4>3. LastOf(Latest)' = W * cnt16'
        BY <2>3, <2>4, <3>2, <3>11, <4>2
      <4> QED
        BY <2>5, <3>10, <3>11, <4>1, <4>3 DEF LatestInv
    <3> QED
      BY <3>10, <3>12, <3>13
  <2> QED
    BY <2>6, <2>7
<1>8. CASE stateAccu = "WAIT_TAIL" /\ ~gmiiOut.en /\ G!EndOfFrame
  <2>1. ~head /\ cnt16 \in 1 .. T - 1 /\ Done > 0 /\ lens[Done] = Filled + 4
    BY <1>1, <1>8 DEF AccuInv
  <2>2. /\ wrenPkt' /\ stateAccu' = "IDLE"
        /\ dinPkt' = G!Word("tail", ((cntValid + W - 1) % W) + 1, pktTag)
    BY <1>8, <2>1 DEF G!EndOfFrame
  <2>3. PICK n \in 1 .. W : n = IF cntValid = 0 THEN W ELSE cntValid
    BY <1>1, <1>3
  <2>4. ((cntValid + W - 1) % W) + 1 = n
    <3>1. CASE cntValid = 0
      BY <1>1, <2>3, <3>1
    <3>2. CASE cntValid # 0
      <4>1. cntValid \in 1 .. W - 1
        BY <1>1, <1>3, <3>2
      <4>2. cntValid - 1 \in 0 .. W - 1 /\ cntValid + W - 1 = (cntValid - 1) + W
        BY <1>1, <4>1
      <4>3. ((cntValid - 1) + W) % W = cntValid - 1
        BY <1>1, <4>2, Wraps
      <4> QED
        BY <1>1, <2>3, <3>2, <4>1, <4>2, <4>3
    <3> QED
      BY <3>1, <3>2
  <2>5. PICK c \in 0 .. T - 1 : c = cnt16 /\ c >= 1
    BY <1>1, <2>1
  <2>6. /\ W * c \in Nat /\ W * c >= W /\ W * c + W <= T * W
    <3>1. /\ W * c \in Nat /\ W * c >= W
          /\ IF c = T - 1 THEN W * c + W = T * W ELSE W * c + W < T * W
      BY <2>5, Products
    <3> QED
      BY <1>1, <3>1
  <2>7. Done \in 1 .. Len(lens)
    <3>1. Done \in 0 .. Len(lens)
      BY DoneMoves
    <3> QED
      BY <2>1, <3>1
  <2>8. PICK f \in 1 .. Len(lens), kept \in Nat : f = Done /\ kept = Kept(f)
    BY <1>4, <2>7
  <2>20. PICK m \in Nat, t \in Nat, l \in Nat : m = W * c /\ t = T * W /\ l = lens[f]
    BY <1>1, <1>4, <2>6
  <2>9. kept = m + n /\ m >= W
    <3>1. Filled = m + n
      BY <1>8, <2>3, <2>5, <2>20 DEF Filled
    <3>2. l = m + n + 4 /\ m + W <= t /\ m >= W
      BY <2>1, <2>6, <2>8, <2>20, <3>1
    <3>3. l > 4 + W /\ l <= 4 + t
      BY <1>1, <3>2
    <3>4. kept = l - 4
      BY <1>4, <2>8, <2>20, <3>3
    <3> QED
      BY <1>1, <3>2, <3>4
  <2>10. Current = f /\ Current' = f /\ Coming' = f + 1 /\ ~gmiiOut'.en
    BY <1>2, <1>8, <2>8
  <2>11. \A i \in 0 .. n - 1 : pktTag[i] = <<f, m + i + 1>>
    <3>1. SUFFICES ASSUME NEW i \in 0 .. n - 1 PROVE pktTag[i] = <<f, m + i + 1>>
      OBVIOUS
    <3>2. i \in 0 .. W - 1 /\ (cntValid = 0 \/ i < cntValid)
      BY <1>1, <1>3, <2>3
    <3> QED
      BY <1>8, <2>5, <2>20, <2>10, <3>2 DEF TagInv
  <2>12. PICK w \in PktWords : w = dinPkt' /\ w = G!Word("tail", n, pktTag)
    BY <2>2, <2>4
  <2>13. IsPiece(w) /\ FrameOf(w) = f /\ FirstOf(w) = m + 1 /\ LastOf(w) = m + n
    <3>1. "tail" = IF m = 0 THEN "head" ELSE IF m + n = kept THEN "tail" ELSE "body"
      BY <1>1, <2>9
    <3>2. w.n = n /\ w.mark = "tail" /\ w.bytes = pktTag
      BY <2>12 DEF G!Word
    <3>3. w.n \in 1 .. W /\ Kept(f) \in Nat /\ m + w.n <= Kept(f) /\ m + w.n = Kept(f)
      BY <2>8, <2>9, <3>2
    <3>4. \A i \in 0 .. w.n - 1 : w.bytes[i] = <<f, m + i + 1>>
      BY <2>11, <3>2
    <3>5. w.mark = IF m = 0 THEN "head" ELSE IF m + w.n = Kept(f) THEN "tail" ELSE "body"
      BY <2>8, <3>1, <3>2
    <3> QED
      BY <3>2, <3>3, <3>4, <3>5, PieceOf
  <2>14. Stream' = Append(Stream, w)
    BY <2>2, <2>12
  <2>15. /\ Stream # << >> /\ FrameOf(Latest) = FrameOf(w)
         /\ FirstOf(w) = LastOf(Latest) + 1 /\ LastOf(Latest) < Kept(FrameOf(w))
    <3>1. Stream # << >> /\ FrameOf(Latest) = f /\ LastOf(Latest) = m
      BY <1>8, <2>1, <2>5, <2>20, <2>10 DEF LatestInv
    <3>2. m < kept
      BY <1>1, <2>9
    <3> QED
      BY <2>8, <2>13, <3>1, <3>2 DEF Kept
  <2>16. InOrder(Stream)' /\ Stream' # << >> /\ Latest' = w
    BY <2>13, <2>14, <2>15, WordJoins
  <2>17. FrameOf(Latest)' = f /\ LastOf(Latest)' = m + n
    BY <2>13, <2>16 DEF FrameOf, LastOf, FirstOf
  <2>18. Kept(FrameOf(Latest))' = m + n
    <3>1. Kept(f)' = m + n
      BY <1>4, <2>8, <2>9
    <3> QED
      BY <2>17, <3>1 DEF Kept
  <2>19. UpTo(Coming)'
    <3>1. f < f + 1 /\ f + 1 .. f + 1 - 1 = {}
      OBVIOUS
    <3> QED
      BY <2>10, <2>16, <2>17, <2>18, <3>1 DEF UpTo
  <2> QED
    BY <2>2, <2>16, <2>19 DEF LatestInv
<1>9. CASE stateAccu = "OVERFLOW" /\ G!RestOfFrame
  <2>1. wrenPkt' = FALSE /\ stateAccu' = IF gmiiOut.en THEN "OVERFLOW" ELSE "IDLE"
    BY <1>9 DEF G!RestOfFrame, G!DataValid
  <2>2. Stream' = Stream /\ Latest' = Latest
    BY <2>1 DEF Latest
  <2>3. Stream # << >> /\ FrameOf(Latest) = Current /\ LastOf(Latest) = Kept(Current)
    BY <1>9 DEF LatestInv
  <2>4. FrameOf(Latest)' = FrameOf(Latest) /\ LastOf(Latest)' = LastOf(Latest)
    BY <2>2 DEF FrameOf, LastOf, FirstOf
  <2>5. Current \in 1 .. Len(lens)
    <3>1. Len(Stream) \in 1 .. Len(Stream)
      BY <2>3
    <3>2. IsPiece(Latest)
      BY <3>1 DEF InOrder, Latest
    <3> QED
      BY <2>3, <3>2 DEF IsPiece
  <2>6. PICK f \in 1 .. Len(lens), kept \in Nat : f = Current /\ kept = Kept(f)
    BY <1>4, <2>5
  <2>7. Kept(Current) = kept
    BY <2>6 DEF Kept
  <2>8. Current' = f /\ Kept(f)' = kept
    BY <1>2, <1>4, <1>9, <2>6
  <2>9. Kept(Current)' = kept
    BY <2>8 DEF Kept
  <2>10. CASE gmiiOut.en
    BY <1>5, <2>1, <2>2, <2>3, <2>4, <2>6, <2>7, <2>8, <2>9, <2>10 DEF LatestInv
  <2>11. CASE ~gmiiOut.en
    <3>1. stateAccu' = "IDLE" /\ Coming' = f + 1
      BY <1>2, <1>9, <2>1, <2>6, <2>11
    <3>2. FrameOf(Latest)' = f /\ LastOf(Latest)' = kept
      BY <2>3, <2>4, <2>6, <2>7
    <3>3. Kept(FrameOf(Latest))' = kept
      BY <2>8, <3>2 DEF Kept
    <3>4. UpTo(Coming)'
      <4>1. f < f + 1 /\ f + 1 .. f + 1 - 1 = {}
        OBVIOUS
      <4> QED
        BY <2>2, <2>3, <3>1, <3>2, <3>3, <4>1 DEF UpTo
    <3> QED
      BY <1>5, <2>2, <3>1, <3>4 DEF LatestInv
  <2> QED
    BY <2>10, <2>11
<1> QED
  BY <1>6, <1>7, <1>8, <1>9 DEF G!Accumulate, G!DataValid
-----------------------------------------------------------------------------
(* What the registers of the first half hold: bytes of a preamble, or of    *)
(* one of the frames there may be.                                          *)
RangeInv ==
  /\ idle <= Gap /\ Len(lens) <= MaxFrames
  /\ dinRecv.data \in A!Data /\ stale.data \in A!Data
  /\ \A k \in 1 .. Len(asFifo) : asFifo[k].data \in A!Data
  /\ tx.data \in A!Data /\ gmiiOut.data \in A!Data
  /\ \A k \in 1 .. 4 : temp[k].data \in A!Data

PathInv ==
  /\ RecvInv /\ WordsInv /\ PipeType /\ PipeInv
  /\ AccuType /\ AccuInv
  /\ FifoType /\ FifoInv /\ ReadInv /\ RoomInv
  /\ RangeInv /\ StreamsInv

LEMMA RangeStep ==
  ASSUME Ranges, WriterInv, StreamInv, ReaderInv, PipeType, RangeInv,
         NEW start, A!Line(start), A!Write, A!Fifo, A!Read, A!Check
  PROVE  RangeInv'
<1>1. Gap \in Nat /\ MaxFrames \in Nat /\ Preamble \in Nat
  BY Sizes
<1>2. Len(lens) \in Nat /\ idle \in Nat /\ left \in Nat /\ idle <= Gap /\ Len(lens) <= MaxFrames
  BY DEF Ranges, RangeInv
<1>3. idle' <= Gap
  BY <1>1, <1>2 DEF A!Line
<1>4. Len(lens') <= MaxFrames
  <2>1. CASE lens' = lens
    BY <1>2, <2>1
  <2>2. CASE lens' # lens
    <3>1. Len(lens) < MaxFrames
      BY <2>2 DEF A!Line
    <3>2. Len(lens') = Len(lens) + 1
      BY <2>2, LensGrow
    <3> QED
      BY <1>1, <1>2, <3>1, <3>2
  <2> QED
    BY <2>1, <2>2
<1>5. dinRecv'.data \in A!Data
  <2>1. CASE left > 0
    <3>1. dinRecv' = A!Entry(TRUE, A!Rxd)
      BY <2>1 DEF A!Write, A!DataValid
    <3>2. Len(lens) \in 1 .. MaxFrames /\ lens[Len(lens)] \in Nat
      <4>1. lens # << >>
        BY <2>1 DEF Ranges
      <4>2. Len(lens) \in 1 .. Len(lens)
        BY <4>1 DEF Ranges
      <4>3. lens[Len(lens)] \in Nat
        BY <4>2, LensGrow
      <4> QED
        BY <1>1, <1>2, <4>2, <4>3
    <3>3. PICK k : k = Preamble + lens[Len(lens)] - left + 1
      OBVIOUS
    <3>4. k \in Int
      BY <1>1, <1>2, <3>2, <3>3
    <3>5. ~(k < Preamble) => k - Preamble \in Nat
      BY <1>1, <3>4
    <3>6. A!Rxd = IF k < Preamble THEN A!X55 ELSE IF k = Preamble THEN A!XD5
                  ELSE <<Len(lens), k - Preamble>>
      BY <3>3 DEF A!Rxd
    <3>7. A!Rxd \in A!Data
      BY <3>2, <3>5, <3>6 DEF A!Data
    <3> QED
      BY <3>1, <3>7 DEF A!Entry
  <2>2. CASE ~(left > 0)
    BY <2>2 DEF A!Write, A!DataValid, A!Separator, A!Entry, A!Data, RangeInv
  <2> QED
    BY <2>1, <2>2
<1>6. ASSUME NEW k \in 1 .. Len(asFifo')
      PROVE  asFifo'[k].data \in A!Data
  <2>1. \/ /\ (IF Pops THEN k + 1 ELSE k) \in 1 .. Len(asFifo)
           /\ asFifo'[k] = asFifo[IF Pops THEN k + 1 ELSE k]
        \/ asFifo'[k] = dinRecv
    BY WordMoves
  <2> QED
    BY <2>1 DEF RangeInv
<1>7. A!Dout.data \in A!Data
  <2>1. CASE A!IsEmpty
    BY <2>1 DEF A!Dout, RangeInv
  <2>2. CASE ~A!IsEmpty
    <3>1. A!Dout = asFifo[1] /\ asFifo # << >>
      BY <2>2, PopsMeans
    <3>2. 1 \in 1 .. Len(asFifo)
      BY <3>1 DEF Ranges
    <3> QED
      BY <3>1, <3>2 DEF RangeInv
  <2> QED
    BY <2>1, <2>2
<1>8. stale'.data \in A!Data
  BY <1>7 DEF A!Fifo
<1>9. tx'.data \in A!Data
  BY <1>7 DEF A!Read, A!Wire, RangeInv
<1>10. /\ temp'[1] = tx /\ temp'[2] = temp[1] /\ temp'[3] = temp[2] /\ temp'[4] = temp[3]
       /\ gmiiOut'.data = temp[4].data
  BY PipeShift
<1>11. gmiiOut'.data \in A!Data /\ \A k \in 1 .. 4 : temp'[k].data \in A!Data
  <2>1. tx.data \in A!Data /\ \A k \in 1 .. 4 : temp[k].data \in A!Data
    BY DEF RangeInv
  <2>2. \A k \in 1 .. 4 : k = 1 \/ k = 2 \/ k = 3 \/ k = 4
    OBVIOUS
  <2> QED
    BY <1>10, <2>1, <2>2
<1> QED
  BY <1>3, <1>4, <1>5, <1>6, <1>8, <1>9, <1>11 DEF RangeInv

(* All of it holds before the first clock. *)
LEMMA InitPath ==
  ASSUME Init
  PROVE  PathInv
<1>1. RecvInv
  BY InitRecv
<1>2. /\ lens = << >> /\ left = 0 /\ idle = Gap /\ tempDv = FALSE
      /\ dinRecv = A!Separator /\ wrenRecv = FALSE
      /\ asFifo = << >> /\ stale = A!Separator /\ stateRd = "IDLE" /\ tx = A!NoByte
      /\ temp = [k \in 1 .. 4 |-> A!NoByte] /\ gmiiOut = A!NoByte
  BY DEF Init, A!Init, A!CRC
<1>3. /\ stateAccu = "IDLE" /\ pktTag = [i \in 0 .. W - 1 |-> G!Pad]
      /\ cntValid = 0 /\ cnt16 = 0 /\ head = FALSE
      /\ wrenPkt = FALSE /\ dinPkt = G!NoWord /\ finish = FALSE
      /\ fifoPkt = << >> /\ dout = G!NoWord
      /\ cntPkt = 0 /\ rdenPkt = FALSE /\ rdenTemp = FALSE
      /\ stateRead = "IDLE" /\ pktValid = FALSE /\ pktData = G!NoWord
  BY DEF Init, G!Init
<1>4. W \in Nat /\ W > 2 /\ T \in Nat /\ T >= 2 /\ Gap \in Nat /\ MaxFrames \in Nat
  BY Sizes
<1>5. ~A!Separator.bit8 /\ A!Separator.data = A!Zero /\ A!Zero \in A!Data
  BY DEF A!Separator, A!Entry, A!Data
<1>6. A!NoByte \in Wires /\ ~A!NoByte.en /\ A!NoByte.data = A!Zero
  BY DEF A!NoByte, A!Wire, A!Zero, Wires
<1>7. WordsInv
  <2>1. Kind(dinRecv) = "sep" /\ ~SepIn(asFifo) /\ ~Busy
    BY <1>2, <1>5 DEF Kind, SepIn, Busy
  <2> QED
    BY <1>2, <2>1 DEF WordsInv
<1>8. PipeType
  <2>1. temp \in [1 .. 4 -> Wires]
    BY <1>2, <1>6
  <2>2. temp \in Seq(Wires)
    BY <2>1, 4 \in Nat, SeqDef
  <2>3. DOMAIN temp = 1 .. 4
    BY <2>1
  <2>4. Len(temp) = 4
    BY <2>2, <2>3, LenProperties
  <2> QED
    BY <1>2, <1>6, <2>2, <2>4 DEF PipeType
<1>9. PipeInv
  <2>1. ~tx.en /\ ~temp[1].en /\ ~gmiiOut.en
    BY <1>2, <1>6
  <2> QED
    BY <1>2, <2>1 DEF PipeInv, Between
<1>10. G!Pad \in Nat \X Nat
  BY DEF G!Pad
<1>11. G!NoWord \in PktWords
  <2>1. [i \in 0 .. W - 1 |-> G!Pad] \in [0 .. W - 1 -> Nat \X Nat]
    BY <1>10
  <2>2. "none" \in G!Marks /\ 0 \in 0 .. W
    BY <1>4 DEF G!Marks
  <2> QED
    BY <2>1, <2>2 DEF G!NoWord, G!Word, PktWords
<1>12. AccuType
  <2>1. pktTag \in [0 .. W - 1 -> Nat \X Nat]
    BY <1>3, <1>10
  <2> QED
    BY <1>3, <1>4, <1>11, <2>1 DEF AccuType
<1>13. AccuInv
  BY <1>2, <1>3, <1>4, <1>6 DEF AccuInv
<1>14. FifoType
  <2>1. fifoPkt \in Seq(PktWords)
    BY <1>3
  <2>2. cntPkt \in Nat
    BY <1>3
  <2> QED
    BY <1>3, <1>11, <2>1, <2>2 DEF FifoType
<1>15. Open = 0 /\ Closed = 0 /\ ~Reading /\ Len(fifoPkt) = 0
  BY <1>3 DEF Open, Closed, Reading
<1>16. FifoInv
  BY <1>3, <1>15 DEF FifoInv
<1>17. ReadInv
  <2>1. Tails(fifoPkt) = 0
    BY <1>14, <1>15, <1>16, TailsClosed
  <2> QED
    BY <1>3, <1>15, <2>1 DEF ReadInv
<1>18. RoomInv
  BY <1>3, <1>15 DEF RoomInv, Whole
<1>19. RangeInv
  BY <1>2, <1>4, <1>5, <1>6 DEF RangeInv
<1>20. StreamsInv
  <2>1. got = << >> /\ ~gmiiOut.en
    BY <1>2, <1>6 DEF Init, G!Init
  <2>2. Stream = << >>
    BY <1>3, <2>1 DEF Stream
  <2>3. InOrder(Stream)
    BY <2>2 DEF InOrder
  <2>4. Coming = 1
    <3>1. \A k \in 1 .. 0 : FALSE
      OBVIOUS
    <3>2. Done = 0
      BY <1>2, <1>5 DEF Done, Entered, Busy, SepIn
    <3> QED
      BY <2>1, <3>2 DEF Coming
  <2>5. UpTo(Coming)
    BY <2>2, <2>4 DEF UpTo
  <2>6. LatestInv
    BY <1>3, <2>5 DEF LatestInv
  <2>7. TagInv
    BY <1>3, <2>1 DEF TagInv
  <2>8. StreamType
    BY <2>1 DEF StreamType
  <2> QED
    BY <2>3, <2>6, <2>7, <2>8 DEF StreamsInv
<1> QED
  BY <1>1, <1>7, <1>8, <1>9, <1>12, <1>13, <1>14, <1>16, <1>17, <1>18, <1>19, <1>20 DEF PathInv

(* A clock keeps it. *)
LEMMA NextPath ==
  ASSUME PathInv, [Next]_vars
  PROVE  PathInv'
<1> USE DEF PathInv, RecvInv
<1>1. RecvInv'
  BY NextRecv
<1>2. CASE Next
  <2>1. PICK start \in BOOLEAN :
          /\ A!Line(start) /\ A!Write /\ A!Fifo /\ A!Read /\ A!Check
          /\ G!Accumulate /\ G!Fifo /\ G!PacketCount /\ G!ReadPacket
    BY <1>2 DEF Next, Clock, A!Clock, G!Clock
  <2>2. WordsInv'
    BY <1>1, <2>1, WordsStep
  <2>3. PipeType' /\ PipeInv'
    BY <1>1, <2>1, <2>2, PipeStep
  <2>4. AccuType'
    BY <2>1, AccuTypeStep
  <2>5. AccuInv'
    BY <2>1, AccuStep
  <2>6. FifoInv'
    BY <2>1, FifoStepPkt
  <2>7. ReadInv' /\ FifoType'
    BY <2>1, ReadStep
  <2>8. RoomInv'
    BY <2>1, <2>4, RoomStep
  <2>9. RangeInv'
    BY <2>1, RangeStep
  <2>10. G!Collect /\ StreamType /\ InOrder(Stream) /\ LatestInv /\ TagInv
    BY <1>2 DEF Next, Clock, G!Clock, StreamsInv
  <2>11. /\ Stream \in Seq(PktWords) /\ StreamType'
         /\ Stream' = IF wrenPkt' THEN Append(Stream, dinPkt') ELSE Stream
    BY <2>1, <2>4, <2>10, StreamGrows
  <2>12. TagInv'
    BY <2>1, <2>10, TagStep
  <2>13. dinPkt' \in PktWords
    BY <2>4 DEF AccuType
  <2>14. InOrder(Stream)' /\ LatestInv'
    BY <2>1, <2>10, <2>11, <2>13, DataStep
  <2>15. StreamsInv'
    BY <2>11, <2>12, <2>14 DEF StreamsInv
  <2> QED
    BY <1>1, <2>2, <2>3, <2>4, <2>5, <2>6, <2>7, <2>8, <2>9, <2>15
<1>3. CASE UNCHANGED vars
  <2>1. /\ UNCHANGED <<lens, left, idle, tempDv, dinRecv, wrenRecv, asFifo, late, stale, stateRd,
                       rdenRecv, tx, temp, gmiiOut>>
        /\ UNCHANGED <<stateAccu, pktTag, cntValid, cnt16, head, wrenPkt, dinPkt, finish>>
        /\ UNCHANGED <<fifoPkt, dout, cntPkt, rdenPkt, rdenTemp, stateRead, pktValid, pktData>>
    BY <1>3 DEF vars, A!vars, A!line, A!writer, A!reader, A!check, G!accu, G!read
  <2>2. WordsInv'
    BY <2>1 DEF WordsInv, Busy, SepIn, Done, Entered
  <2>3. PipeType' /\ PipeInv'
    BY <2>1 DEF PipeType, PipeInv, InFrame, FrameEnd, Between, Done, Entered, Busy, SepIn
  <2>4. AccuType' /\ AccuInv'
    BY <2>1 DEF AccuType, AccuInv, Place, Filled, Done, Entered, Busy, SepIn
  <2>5. Open' = Open /\ Closed' = Closed /\ Reading' = Reading /\ Filled' = Filled
    BY <2>1 DEF Open, Closed, Reading, Filled
  <2>6. FifoType' /\ FifoInv'
    BY <2>1, <2>5 DEF FifoType, FifoInv
  <2>7. ReadInv'
    BY <2>1, <2>5 DEF ReadInv
  <2>8. RoomInv'
    BY <2>1, <2>5 DEF RoomInv, Whole, Credit
  <2>9. RangeInv'
    BY <2>1 DEF RangeInv
  <2>10. Stream' = Stream /\ got' = got
    BY <1>3, <2>1 DEF vars, G!read, Stream
  <2>11. Latest' = Latest /\ Coming' = Coming /\ Current' = Current /\ Frame' = Frame
    BY <2>1, <2>10 DEF Latest, Coming, Current, Frame, Done, Entered, Busy, SepIn
  <2>12. InOrder(Stream)'
    BY <2>1, <2>10 DEF StreamsInv, InOrder, IsPiece, Opens, Continues, Kept, LastOf, FirstOf, FrameOf
  <2>13. LatestInv'
    BY <2>1, <2>10, <2>11 DEF StreamsInv, LatestInv, UpTo, Kept, LastOf, FirstOf, FrameOf
  <2>14. TagInv' /\ StreamType'
    BY <2>1, <2>10, <2>11 DEF StreamsInv, TagInv, StreamType
  <2>15. StreamsInv'
    BY <2>12, <2>13, <2>14 DEF StreamsInv
  <2> QED
    BY <1>1, <2>2, <2>3, <2>4, <2>6, <2>7, <2>8, <2>9, <2>15
<1> QED
  BY <1>2, <1>3

LEMMA PathTyped ==
  ASSUME PathInv
  PROVE  TypeOK
<1> USE DEF PathInv, RecvInv
<1>1. A!TypeOK
  <2>1. lens \in Seq(Lengths) /\ left \in Nat /\ idle \in 0 .. Gap
    BY Sizes DEF Ranges, RangeInv
  <2>2. {tempDv, wrenRecv, late, rdenRecv, tx.en, gmiiOut.en} \subseteq BOOLEAN
    <3>1. tx.en \in BOOLEAN /\ gmiiOut.en \in BOOLEAN
      BY DEF PipeType, Wires
    <3> QED
      BY <3>1 DEF Ranges
  <2>3. {dinRecv.data, stale.data, tx.data, gmiiOut.data} \subseteq A!Data
    BY DEF RangeInv
  <2>4. Len(asFifo) < RecvCap /\ (late => asFifo # << >>)
    BY Sizes DEF StreamInv, ReaderInv, Ranges
  <2>5. stateRd \in {"IDLE", "DISCARD_PKT_HEAD", "WAIT_TAIL"}
    BY DEF ReaderInv
  <2> QED
    BY <2>1, <2>2, <2>3, <2>4, <2>5 DEF A!TypeOK
<1>2. G!TypeOK
  <2>1. \A i \in 0 .. W - 1 : pktTag[i] \in G!Byte
    BY DEF AccuType, G!Byte
  <2>2. {head, wrenPkt, finish, rdenPkt, rdenTemp, pktValid} \subseteq BOOLEAN
    BY DEF AccuType, FifoType
  <2>3. \A w \in {dinPkt, dout, pktData} : w.mark \in G!Marks /\ w.n \in 0 .. W
    <3>1. \A w \in PktWords : w.mark \in G!Marks /\ w.n \in 0 .. W
      BY DEF PktWords
    <3> QED
      BY <3>1 DEF AccuType, FifoType
  <2>4. cntPkt \in 0 .. 255
    <3>1. Tails(fifoPkt) \in Nat /\ Tails(fifoPkt) <= Len(fifoPkt)
      BY TailsClosed
    <3>2. Len(fifoPkt) <= T + 1 /\ T \in Nat /\ T < 255 /\ Len(fifoPkt) \in Nat
      BY PktRoom, Sizes DEF FifoType
    <3>3. cntPkt \in Nat /\ cntPkt <= Tails(fifoPkt)
      BY <3>1 DEF FifoType, ReadInv
    <3> QED
      BY <3>1, <3>2, <3>3
  <2> QED
    BY <2>1, <2>2, <2>3, <2>4 DEF G!TypeOK, AccuType, FifoType
<1> QED
  BY <1>1, <1>2 DEF TypeOK

LEMMA PathFifos ==
  ASSUME PathInv
  PROVE  FifosSound
<1> USE DEF PathInv, RecvInv
<1>1. A!NeverReadsEmpty
  <2>1. stateRd = "WAIT_TAIL" => ~A!IsEmpty
    BY PopsMeans
  <2> QED
    BY <2>1 DEF A!NeverReadsEmpty
<1>2. G!NeverReadsEmpty
  <2>1. stateRead = "WAIT_TAIL" => Closed > 0
    BY DEF ReadInv, Reading
  <2>2. Len(fifoPkt) \in Nat /\ Open \in 0 .. Len(fifoPkt) /\ Closed = Len(fifoPkt) - Open
    BY DEF FifoType, FifoInv, Closed
  <2>3. stateRead = "WAIT_TAIL" => Len(fifoPkt) > 0
    BY <2>1, <2>2
  <2> QED
    BY <2>3 DEF G!NeverReadsEmpty
<1>3. G!NeverFull
  <2>1. T \in Nat /\ PktCap \in Nat /\ T <= PktCap /\ Len(fifoPkt) \in Nat
    BY Sizes DEF FifoType
  <2> QED
    BY <2>1, PktRoom DEF G!NeverFull
<1> QED
  BY <1>1, <1>2, <1>3 DEF FifosSound

(* The inductive invariant of the receive side. *)
THEOREM PathInvariant == Spec => []PathInv
<1>1. Init => PathInv
  BY InitPath
<1>2. PathInv /\ [Next]_vars => PathInv'
  BY NextPath
<1> QED
  BY <1>1, <1>2, PTL DEF Spec

(* Neither reader takes a word that is not there and no word is written to  *)
(* a full FIFO: the rate argument of RoomInv for fifo_pkt, the order of the *)
(* two clocks for asfifo_recv_data.                                         *)
THEOREM FifosNeverRunOver == Spec => []FifosSound
<1>1. PathInv => FifosSound
  BY PathFifos
<1> QED
  BY <1>1, PathInvariant, PTL

(* Every register holds a value it can hold. *)
THEOREM TypeCorrect == Spec => []TypeOK
<1>1. PathInv => TypeOK
  BY PathTyped
<1> QED
  BY <1>1, PathInvariant, PTL

(* The words that come out of the receive side are the bytes of the frames  *)
(* on the line, in their order, a packet whole and each byte once, whatever *)
(* the phase of the clocks (asyn_recv_packet.v, gmii_crc_check.v,           *)
(* gmii_to_134b_pkt.v).                                                     *)
THEOREM PacketsAreIntact == Spec => []PacketsIntact
<1>1. PathInv => PacketsIntact
  BY GotOfStream DEF PathInv, StreamsInv
<1> QED
  BY <1>1, PathInvariant, PTL
=============================================================================
