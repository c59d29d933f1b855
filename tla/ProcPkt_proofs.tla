--------------------------- MODULE ProcPkt_proofs ---------------------------
(***************************************************************************)
(* Proofs about ProcPkt for packets and mailboxes of any size that Sizes   *)
(* allows, any traffic, any pace of the driver and any restarts.           *)
(***************************************************************************)
EXTENDS ProcPkt, Integers, SequenceTheorems, FunctionTheorems, FiniteSetTheorems, TLAPS

Marks == {"none", "head", "body", "tail", "length"}
WordRec == [pkt : Nat, idx : Nat, mark : Marks, n : Nat]
CellRec == [pkt : Nat, val : Nat]
LeavingRec == [mark : {"head", "body", "tail"}, n : Nat, cells : [0 .. Q - 1 -> CellRec]]
Addresses == 0 .. 2 * Half - 1

HwRec == [state : HwStates, addr : Addresses, wren : BOOLEAN, din : CellRec,
          rden : BOOLEAN, count : 0 .. Q - 1, temp : WordRec, sendLength : Int,
          head : BOOLEAN, dinSend : LeavingRec, wrenSend : BOOLEAN]

TypeInv ==
  /\ pkt \in [id : Nat, len : Nat, mine : BOOLEAN] /\ left \in Nat /\ idle \in Nat
  /\ din \in WordRec /\ wren \in BOOLEAN /\ recvLength \in Nat
  /\ recvFifo \in Seq(WordRec)
  /\ hw \in HwRec
  /\ ram \in [Addresses -> CellRec] /\ ramQ \in CellRec /\ dout \in CellRec
  /\ pc \in {"app", "len", "copy", "release", "fill", "fire", "spin"}
  /\ i \in Nat /\ len \in Nat /\ made \in Nat

(* The words of a packet, and what may follow each of them. *)
Words == {"head", "body", "tail"}

WordOk(w) ==
  /\ w.mark \in Words \cup {"length"}
  /\ w.mark \in Words => (w.idx + 1) * Q + 2 <= Half /\ (w.mark = "head" <=> w.idx = 0)

Follows(w, x) ==
  /\ w.mark \in {"head", "body"} =>
       x.mark \in {"body", "tail"} /\ x.pkt = w.pkt /\ x.idx = w.idx + 1
  /\ w.mark = "tail" => x.mark = "length"
  /\ w.mark = "length" => x.mark = "head"

(* The line: the rest of a packet is in it, and while one is being taken    *)
(* its next word is the one after din and the FIFO has room for all of it.  *)
LineInv ==
  /\ left > 0 => pkt.len \in Lengths /\ left <= WordsOf(pkt.len)
  /\ wren =>
       /\ WordOk(din)
       /\ din.mark \in {"head", "body"} =>
            /\ left > 0 /\ din.pkt = pkt.id /\ din.idx + 1 + left = WordsOf(pkt.len)
            /\ Len(recvFifo) + left + 2 <= Cap
       /\ din.mark = "tail" => left = 0 /\ idle = 0 /\ Len(recvFifo) + 2 <= Cap
       /\ din.mark = "length" => left = 0 /\ Len(recvFifo) + 1 <= Cap

(* What waits is a sequence of packets, each with its length, but for the   *)
(* words still to come.                                                     *)
FifoInv ==
  /\ \A k \in 1 .. Len(recvFifo) : WordOk(recvFifo[k])
  /\ \A k \in 1 .. Len(recvFifo) - 1 : Follows(recvFifo[k], recvFifo[k + 1])
  /\ recvFifo # << >> =>
       LET w == recvFifo[Len(recvFifo)]
       IN  IF wren THEN Follows(w, din) ELSE w.mark = "length"

(* Hardware is between two packets, or writes the one whose words come next. *)
Between == hw.state \notin {"WRITE_RECV_PKT", "WRITE_RECV_LENGTH"}

CopyInv ==
  /\ Between =>
       /\ ~hw.rden
       /\ recvFifo # << >> => recvFifo[1].mark = "head"
       /\ recvFifo = << >> /\ wren => din.mark = "head"
  /\ hw.state \in {"WAIT_1", "WAIT_2"} /\ hw.addr < Half => recvFifo # << >>
  /\ hw.state = "CHECK_RECV" => recvFifo # << >>
  /\ hw.state = "WRITE_RECV_PKT" =>
       /\ recvFifo # << >> /\ (hw.rden <=> hw.count = 0)
       /\ hw.count = 0 => /\ recvFifo[1].mark \in Words
                          /\ hw.addr = RecvLen + recvFifo[1].idx * Q
                          /\ recvFifo[1].mark # "head" => hw.wren
       /\ hw.count > 0 => /\ WordOk(hw.temp) /\ hw.temp.mark \in Words /\ hw.wren
                          /\ Follows(hw.temp, recvFifo[1])
                          /\ hw.addr = RecvLen + hw.temp.idx * Q + hw.count
  /\ hw.state = "WRITE_RECV_LENGTH" =>
       /\ recvFifo # << >> /\ hw.rden /\ recvFifo[1].mark = "length"

(* Where hardware writes, and what it looks at. *)
AccessInv ==
  /\ hw.state \in {"WAIT_1"} => hw.addr \in {RecvTag, SendTag}
  /\ hw.state \in {"WAIT_2"} => hw.addr \in {RecvTag + 1, SendTag + 1}
  /\ hw.wren =>
       \/ hw.state \in {"WRITE_RECV_PKT", "WRITE_RECV_LENGTH"} /\ hw.addr \in RecvPkt .. Half - 1
       \/ hw.state = "WRITE_RECV_TAG" /\ hw.addr = RecvLen
       \/ hw.state = "IDLE" /\ hw.addr = RecvTag /\ hw.din = Number(1)
       \/ hw.state = "IDLE" /\ hw.addr = SendTag /\ hw.din = Number(0)

(* A mailbox belongs to the side its tag names, and a tag that was read is  *)
(* no older than what the other side has made of it since.                  *)
TagInv ==
  /\ ram[SendTag] \in {Number(0), Number(1)}
  /\ ram[RecvTag] = Number(1) =>
       /\ hw.state = "WAIT_2" /\ hw.addr < Half => ramQ = Number(1)
       /\ hw.state = "CHECK_RECV" => dout = Number(1)
       /\ hw.state \notin {"WRITE_RECV_PKT", "WRITE_RECV_LENGTH", "WRITE_RECV_TAG"}
       /\ ~(hw.wren /\ hw.addr = RecvTag)
  /\ hw.state = "WAIT_2" /\ hw.addr >= Half => ramQ \in {Number(0), ram[SendTag]}
  /\ hw.state = "CHECK_SEND" => dout \in {Number(0), ram[SendTag]}
  /\ hw.state \in {"READ_SEND_LENGTH", "READ_SEND_PKT"} => ram[SendTag] = Number(1)
  /\ pc \in {"len", "copy", "release"} => ram[RecvTag] = Number(1)
  /\ pc \in {"fill", "fire"} => ram[SendTag] # Number(1)

MInv == TypeInv /\ LineInv /\ FifoInv /\ CopyInv /\ AccessInv /\ TagInv

(* The packet hardware is writing, or will write next, counted in taken. *)
Full    == ram[RecvTag] = Number(1)
Current == Len(got) + (IF Full THEN 2 ELSE 1)

Delivers == hw.state = "IDLE" /\ hw.wren /\ hw.addr = RecvTag

(* Word w belongs to packet m of those taken. *)
WordIs(w, m) ==
  /\ m \in 1 .. Len(taken)
  /\ w.mark \in Words =>
       /\ w.pkt = taken[m][1] /\ w.idx < WordsOf(taken[m][2])
       /\ w.mark = "tail" <=> w.idx + 1 = WordsOf(taken[m][2])
  /\ w.mark = "length" => w.n = taken[m][2]

After(w) == IF w.mark = "length" THEN 1 ELSE 0

(* The packets of the word at the front of the FIFO and of the next one     *)
(* that is pushed; between the two the words of all packets, in order.      *)
First == Current + (IF hw.state = "WRITE_RECV_TAG" \/ Delivers THEN 1 ELSE 0)
End   == IF wren THEN Len(taken) ELSE Len(taken) + 1

Placed(pos) ==
  /\ pos[1] = First /\ pos[Len(recvFifo) + 1] = End
  /\ \A k \in 1 .. Len(recvFifo) :
       WordIs(recvFifo[k], pos[k]) /\ pos[k + 1] = pos[k] + After(recvFifo[k])

OrderInv == \E pos \in [1 .. Len(recvFifo) + 1 -> Nat] : Placed(pos)

(* recv_length and the word that is pushed agree with the packet on the line. *)
LengthInv ==
  wren =>
    /\ WordIs(din, Len(taken))
    /\ din.mark \in Words => recvLength = din.idx * Q
    /\ din.mark = "tail" => recvLength + din.n = taken[Len(taken)][2]
    /\ din.mark \in {"head", "body"} => taken[Len(taken)] = <<pkt.id, pkt.len>>

(* The first n RAM words of packet m are in the mailbox. *)
Holds(m, n) == \A j \in 0 .. n - 1 : ram[RecvPkt + j] = Cell(taken[m][1], j)

Whole(m) == /\ m \in 1 .. Len(taken) /\ ram[RecvLen] = Number(taken[m][2])
            /\ Holds(m, taken[m][2])

MailInv ==
  /\ Full => Whole(Len(got) + 1)
  /\ hw.state \in {"WRITE_RECV_PKT", "WRITE_RECV_LENGTH"} =>
       /\ hw.addr \in RecvLen .. Half - 1
       /\ Holds(Current, hw.addr - RecvPkt)
       /\ hw.wren => hw.din = Cell(taken[Current][1], hw.addr - RecvPkt)
  /\ hw.state = "WRITE_RECV_PKT" /\ hw.count > 0 => WordIs(hw.temp, Current)
  /\ hw.state = "WRITE_RECV_LENGTH" =>
       hw.wren /\ hw.addr = RecvLen + WordsOf(taken[Current][2]) * Q
  /\ hw.state = "WRITE_RECV_TAG" =>
       /\ hw.wren /\ hw.din = Number(taken[Current][2])
       /\ Current \in 1 .. Len(taken) /\ Holds(Current, taken[Current][2])
  /\ Delivers => Whole(Current)

(* The first n RAM words of packet m, as the driver reads them. *)
Content(m, n) == [j \in 1 .. n |-> Cell(taken[m][1], j - 1)]

ReadInv ==
  /\ pc = "copy" => /\ len = taken[Len(got) + 1][2] /\ i < len
                    /\ buf = Content(Len(got) + 1, i)
  /\ pc = "release" =>
       buf = << >> \/ buf = Content(Len(got) + 1, taken[Len(got) + 1][2])

RInv ==
  /\ taken \in Seq(Nat \X Lengths) /\ got \in Seq(Seq(CellRec))
  /\ OrderInv /\ LengthInv /\ MailInv /\ ReadInv /\ ReceivedIntact
-----------------------------------------------------------------------------
(* The words of a packet of n RAM words. *)
LEMMA WordsOfOk ==
  ASSUME NEW n \in Lengths \cup SendLengths
  PROVE  /\ n \in Nat /\ n > Q
         /\ WordsOf(n) \in Nat /\ WordsOf(n) >= 2
         /\ WordsOf(n) * Q >= n /\ (WordsOf(n) - 1) * Q < n
         /\ WordsOf(n) * Q + 2 <= Half /\ Thr + WordsOf(n) <= Cap
<1> DEFINE w == (n + Q - 1) \div Q
<1>1. /\ n \in Nat /\ n > Q /\ Q \in Nat /\ Q > 1
      /\ WordsOf(n) * Q + 2 <= Half /\ Thr + WordsOf(n) <= Cap
  BY Sizes
<1>2. w \in Nat /\ w * Q <= n + Q - 1 /\ n + Q - 1 < w * Q + Q
  BY <1>1
<1>3. WordsOf(n) = w
  BY DEF WordsOf
<1> HIDE DEF w
<1>4. w >= 2 /\ w * Q >= n /\ (w - 1) * Q < n
  BY <1>1, <1>2
<1> QED
  BY <1>1, <1>2, <1>3, <1>4

(* Where a word that is not the last one of its packet lies. *)
LEMMA IndexOk ==
  ASSUME NEW k \in Nat, NEW w \in Nat, k < w
  PROVE  /\ k * Q \in Nat /\ (k + 1) * Q = k * Q + Q /\ (k + 1) * Q <= w * Q
BY Sizes

LEMMA SumOfWord ==
  ASSUME NEW k \in Nat
  PROVE  k * Q \in Nat /\ (k + 1) * Q = k * Q + Q
BY Sizes

-----------------------------------------------------------------------------
(* The line and the word that is pushed. *)
LEMMA DataInOk ==
  ASSUME TypeInv, LineInv, left > 0
  PROVE  LET W == WordsOf(pkt.len)
         IN /\ W \in Nat /\ W >= 2 /\ Thr + W <= Cap /\ pkt.len \in Lengths
            /\ DataIn \in WordRec /\ DataIn.pkt = pkt.id /\ DataIn.idx + left = W
            /\ WordOk(DataIn) /\ DataIn.mark \in Words
            /\ DataIn.mark = "head" <=> left = W
            /\ DataIn.mark = "tail" <=> left = 1
            /\ DataIn.mark = "tail" => DataIn.idx * Q + DataIn.n = pkt.len
<1> DEFINE W == WordsOf(pkt.len)
           k == W - left
           n == IF left = 1 THEN pkt.len - k * Q ELSE Q
           m == IF k = 0 THEN "head" ELSE IF left = 1 THEN "tail" ELSE "body"
<1>1. pkt.len \in Lengths /\ left <= W /\ left \in Nat
  BY DEF LineInv, TypeInv
<1>2. /\ pkt.len \in Nat /\ W \in Nat /\ W >= 2 /\ (W - 1) * Q < pkt.len
      /\ W * Q + 2 <= Half /\ Thr + W <= Cap
  BY <1>1, WordsOfOk
<1>3. DataIn = Arriving(pkt.id, k, m, n)
  BY DEF DataIn, DataValid
<1> HIDE DEF W
<1>4. k \in Nat /\ k < W /\ k + left = W
  BY <1>1, <1>2
<1>5. k * Q \in Nat /\ (k + 1) * Q <= W * Q
  BY <1>2, <1>4, IndexOk
<1>6. left = 1 => k = W - 1
  BY <1>4
<1> HIDE DEF k
<1>7. n \in Nat /\ (left = 1 => k * Q + n = pkt.len)
  <2>1. CASE left = 1
    <3>1. k * Q < pkt.len
      BY <1>2, <1>6, <2>1
    <3> DEFINE x == k * Q
    <3> HIDE DEF x
    <3>2. x \in Nat /\ pkt.len \in Nat /\ x < pkt.len
      BY <1>2, <1>5, <3>1 DEF x
    <3>3. pkt.len - x \in Nat /\ x + (pkt.len - x) = pkt.len
      BY <3>2
    <3> QED
      BY <2>1, <3>3 DEF x
  <2>2. CASE left # 1
    BY <2>2, Sizes
  <2> QED
    BY <2>1, <2>2
<1>8. /\ m \in Words /\ (m = "head" <=> k = 0) /\ (m = "head" <=> left = W)
      /\ (m = "tail" <=> left = 1)
  <2>1. (k = 0 <=> left = W) /\ ~(k = 0 /\ left = 1)
    BY <1>1, <1>2, <1>4
  <2> HIDE DEF n
  <2>2. CASE k = 0
    BY <2>1, <2>2 DEF Words
  <2>3. CASE k # 0
    BY <2>1, <2>3 DEF Words
  <2> QED
    BY <2>2, <2>3
<1> HIDE DEF n, m
<1>9. pkt.id \in Nat
  BY DEF TypeInv
<1>10. (k + 1) * Q + 2 <= Half
  <2> DEFINE x == (k + 1) * Q
             y == W * Q
  <2>1. x \in Nat /\ y \in Nat
    BY <1>2, <1>4, SumOfWord, Sizes
  <2> HIDE DEF x, y
  <2> QED
    BY <1>2, <1>5, <2>1, Sizes DEF x, y
<1> QED
  BY <1>1, <1>2, <1>3, <1>4, <1>7, <1>8, <1>9, <1>10
     DEF Arriving, WordRec, WordOk, Marks, Words, W

(* A FIFO that has room when it is written loses nothing. *)
LEMMA FifoStep ==
  ASSUME TypeInv, LineInv, ReceiveFifo
  PROVE  /\ recvFifo' \in Seq(WordRec)
         /\ wren => Len(recvFifo) < Cap
         /\ \E s \in {0, 1} :
              /\ s <= Len(recvFifo) /\ (s = 1 <=> hw.rden /\ recvFifo # << >>)
              /\ Len(recvFifo') = Len(recvFifo) - s + (IF wren THEN 1 ELSE 0)
              /\ \A k \in 1 .. Len(recvFifo) - s : recvFifo'[k] = recvFifo[k + s]
              /\ wren => recvFifo'[Len(recvFifo')] = din
<1> DEFINE s == IF hw.rden /\ recvFifo # << >> THEN 1 ELSE 0
           p == IF hw.rden /\ recvFifo # << >> THEN Tail(recvFifo) ELSE recvFifo
<1>1. /\ recvFifo \in Seq(WordRec) /\ din \in WordRec /\ Len(recvFifo) \in Nat
      /\ hw.rden \in BOOLEAN /\ wren \in BOOLEAN
  BY DEF TypeInv, HwRec
<1>2. wren => Len(recvFifo) < Cap
  BY <1>1, Sizes DEF LineInv, WordOk, Words, TypeInv
<1>3. /\ p \in Seq(WordRec) /\ s \in {0, 1} /\ s <= Len(recvFifo)
      /\ Len(p) = Len(recvFifo) - s
      /\ \A k \in 1 .. Len(recvFifo) - s : p[k] = recvFifo[k + s]
  BY <1>1
<1>4. s = 1 <=> hw.rden /\ recvFifo # << >>
  BY <1>1
<1>5. recvFifo' = IF wren THEN Append(p, din) ELSE p
  BY <1>1, <1>2 DEF ReceiveFifo, FifoAfter
<1> HIDE DEF p, s
<1>6. /\ recvFifo' \in Seq(WordRec)
      /\ Len(recvFifo') = Len(recvFifo) - s + (IF wren THEN 1 ELSE 0)
      /\ \A k \in 1 .. Len(recvFifo) - s : recvFifo'[k] = recvFifo[k + s]
      /\ wren => recvFifo'[Len(recvFifo')] = din
  <2>1. CASE wren
    BY <1>1, <1>3, <1>5, <2>1
  <2>2. CASE ~wren
    BY <1>1, <1>3, <1>5, <2>2
  <2> QED
    BY <2>1, <2>2
<1> QED
  BY <1>2, <1>3, <1>4, <1>6

(* The line moves on by a word; what is pushed next goes on where the word  *)
(* that is pushed now ends.                                                 *)
LEMMA LineStep ==
  ASSUME TypeInv, LineInv, NEW start \in BOOLEAN, Line(start), Receive, ReceiveFifo
  PROVE  /\ pkt' \in [id : Nat, len : Nat, mine : BOOLEAN] /\ left' \in Nat /\ idle' \in Nat
         /\ din' \in WordRec /\ wren' \in BOOLEAN /\ recvLength' \in Nat
         /\ LineInv'
         /\ wren /\ wren' => Follows(din, din')
         /\ wren /\ ~wren' => din.mark = "length"
         /\ ~wren /\ wren' => din'.mark = "head"
<1> DEFINE W == WordsOf(pkt.len)
           complete == ~TakesHead /\ wren /\ din.mark = "tail"
<1>1. /\ left \in Nat /\ idle \in Nat /\ wren \in BOOLEAN /\ Len(recvFifo) \in Nat
      /\ din.idx \in Nat /\ din.n \in Nat /\ recvLength \in Nat /\ Q \in Nat /\ Gap > 1
      /\ Len(recvFifo') \in Nat /\ Cap \in Nat /\ Thr \in Nat /\ Gap \in Nat
      /\ pkt.id \in Nat /\ pkt.len \in Nat
  BY FifoStep, Sizes DEF TypeInv, WordRec
<1>2. Len(recvFifo') <= Len(recvFifo) + (IF wren THEN 1 ELSE 0)
  BY <1>1, FifoStep
<1>3. /\ wren' = (TakesHead \/ complete \/ (wren /\ DataValid))
      /\ din' = IF complete THEN Arriving(0, 0, "length", recvLength + din.n) ELSE DataIn
      /\ recvLength' = IF TakesHead THEN 0 ELSE IF wren THEN recvLength + Q ELSE recvLength
  BY DEF Receive
<1>4. recvLength' \in Nat /\ wren' \in BOOLEAN
  BY <1>1, <1>3 DEF TakesHead, DataValid
<1>5. wren => /\ WordOk(din)
              /\ din.mark \in {"head", "body"} =>
                   /\ left > 0 /\ din.pkt = pkt.id /\ din.idx + 1 + left = W
                   /\ Len(recvFifo) + left + 2 <= Cap
              /\ din.mark = "tail" => left = 0 /\ idle = 0 /\ Len(recvFifo) + 2 <= Cap
              /\ din.mark = "length" => left = 0 /\ Len(recvFifo) + 1 <= Cap
              /\ din.mark \in {"head", "body", "tail", "length"}
  BY DEF LineInv, WordOk, Words
<1> DEFINE c == recvLength + din.n
<1>6. c \in Nat
  BY <1>1
<1> HIDE DEF c
<1>7. Arriving(0, 0, "length", c) \in WordRec
  BY <1>6 DEF Arriving, WordRec, Marks
<1>8. CASE left > 0
  <2>1. left' = left - 1 /\ idle' = 0 /\ pkt' = pkt /\ DataValid
    BY <1>8 DEF Line, DataValid
  <2>2. /\ W \in Nat /\ W >= 2 /\ Thr + W <= Cap /\ pkt.len \in Lengths
        /\ DataIn \in WordRec /\ DataIn.pkt = pkt.id /\ DataIn.idx + left = W
        /\ WordOk(DataIn) /\ DataIn.mark \in Words
        /\ (DataIn.mark = "head" <=> left = W) /\ (DataIn.mark = "tail" <=> left = 1)
    BY <1>8, DataInOk
  <2>3. left' \in Nat /\ left' = left - 1 /\ left' <= W /\ left <= W
        /\ (left > 0 => pkt.len \in Lengths /\ left <= W)
    BY <1>1, <1>8, <2>1, <2>2 DEF LineInv
  <2> DEFINE d == DataIn
  <2>4. WordsOf(pkt.len)' = W
    BY <2>1
  <2>5. d.idx \in Nat
    BY <2>2 DEF WordRec
  <2> HIDE DEF W, d
  <2>6. CASE TakesHead
    <3>1. d.mark = "head" /\ left = W /\ Len(recvFifo) < Thr
      BY <2>2, <2>6 DEF TakesHead, d
    <3>2. ~wren
      BY <1>1, <1>5, <2>2, <3>1, <1>8
    <3>3. wren' = TRUE /\ din' = d
      BY <1>3, <2>6 DEF d
    <3>4. d.pkt = pkt.id /\ d.idx + 1 + left' = W /\ left' > 0 /\ WordOk(d)
          /\ Len(recvFifo') + left' + 2 <= Cap
      BY <1>1, <1>2, <2>2, <2>3, <2>5, <3>1, <3>2 DEF d
    <3>5. LineInv'
      BY <2>1, <2>2, <2>3, <2>4, <3>1, <3>3, <3>4 DEF LineInv, WordOk
    <3> QED
      BY <1>1, <1>4, <2>1, <2>2, <2>3, <3>1, <3>2, <3>3, <3>5 DEF d, TypeInv
  <2>7. CASE ~TakesHead /\ wren
    <3>1. din.mark \in {"head", "body"} /\ din.pkt = pkt.id /\ din.idx + 1 + left = W
          /\ Len(recvFifo) + left + 2 <= Cap
      BY <1>1, <1>5, <1>8, <2>7
    <3>2. wren' = TRUE /\ din' = d
      BY <1>3, <2>1, <2>7, <3>1 DEF d
    <3>3. d.idx = din.idx + 1 /\ left # W /\ d.pkt = din.pkt
      BY <1>1, <2>2, <2>5, <3>1 DEF d
    <3>4. d.mark \in {"body", "tail"} /\ (d.mark = "tail" <=> left = 1) /\ WordOk(d)
      BY <2>2, <3>3 DEF d, Words
    <3>5. d.idx + 1 + left' = W /\ Len(recvFifo') + left' + 2 <= Cap
          /\ (left # 1 => left' > 0) /\ (left = 1 => left' = 0)
      <4>1. d.idx = din.idx + 1 /\ left' = left - 1 /\ left > 0
        BY <1>8, <2>3, <3>3
      <4>2. Len(recvFifo') <= Len(recvFifo) + 1
        BY <1>2, <2>7
      <4>3. /\ W \in Nat /\ din.idx \in Nat /\ left \in Nat /\ Len(recvFifo) \in Nat
            /\ Len(recvFifo') \in Nat /\ Cap \in Nat
        BY <1>1, <2>2
      <4>4. d.idx + 1 + left' = W
        BY <3>1, <4>1, <4>3
      <4>5. Len(recvFifo') + left' + 2 <= Cap
        BY <3>1, <4>1, <4>2, <4>3
      <4> QED
        BY <4>1, <4>3, <4>4, <4>5
    <3>6. d.mark = "tail" => Len(recvFifo') + 2 <= Cap
      BY <1>1, <2>3, <3>5
    <3>7. LineInv'
      BY <2>1, <2>2, <2>3, <2>4, <3>1, <3>2, <3>3, <3>4, <3>5, <3>6 DEF LineInv
    <3>8. Follows(din, din')
      BY <3>1, <3>2, <3>3, <3>4 DEF Follows
    <3> QED
      BY <1>1, <1>4, <2>1, <2>2, <2>3, <2>7, <3>2, <3>7, <3>8 DEF d, TypeInv
  <2>8. CASE ~TakesHead /\ ~wren
    <3>1. wren' = FALSE /\ din' = d
      BY <1>3, <2>8 DEF d
    <3>2. LineInv'
      BY <2>1, <2>2, <2>3, <2>4, <3>1 DEF LineInv
    <3> QED
      BY <1>1, <1>4, <2>1, <2>2, <2>3, <2>8, <3>1, <3>2 DEF d, TypeInv
  <2> QED
    BY <1>1, <2>6, <2>7, <2>8
<1>9. CASE left = 0
  <2>1. DataIn = NoWord /\ NoWord \in WordRec /\ ~DataValid /\ ~TakesHead
    BY <1>9 DEF DataIn, NoWord, Arriving, WordRec, Marks, TakesHead, DataValid
  <2>2. /\ pkt' \in [id : Nat, len : Nat, mine : BOOLEAN] /\ left' \in Nat /\ idle' \in Nat
        /\ left' > 0 => pkt'.len \in Lengths /\ left' <= WordsOf(pkt'.len)
        /\ idle = 0 => left' = 0
    <3>1. CASE ~start
      BY <1>1, <1>9, <2>1, <3>1 DEF Line, TypeInv
    <3>2. CASE start
      <4>1. /\ idle' = idle /\ idle + 1 >= Gap
            /\ \E n \in Lengths, mine \in BOOLEAN :
                 pkt' = [id |-> pkt.id + 1, len |-> n, mine |-> mine] /\ left' = WordsOf(n)
        BY <2>1, <3>2 DEF Line
      <4>2. PICK n \in Lengths, mine \in BOOLEAN :
                 pkt' = [id |-> pkt.id + 1, len |-> n, mine |-> mine] /\ left' = WordsOf(n)
        BY <4>1
      <4>3. n \in Nat /\ WordsOf(n) \in Nat
        BY WordsOfOk
      <4>4. idle # 0
        BY <1>1, <4>1
      <4> DEFINE j == pkt.id + 1
      <4>5. j \in Nat
        BY <1>1
      <4> HIDE DEF j
      <4>6. pkt' = [id |-> j, len |-> n, mine |-> mine]
        BY <4>2 DEF j
      <4> QED
        BY <1>1, <4>1, <4>2, <4>3, <4>4, <4>5, <4>6
    <3> QED
      BY <3>1, <3>2
  <2>3. CASE wren /\ din.mark = "tail"
    <3>1. wren' = TRUE /\ din' = Arriving(0, 0, "length", c)
      BY <1>3, <2>1, <2>3 DEF c
    <3>2. left' = 0 /\ Len(recvFifo') + 1 <= Cap
      BY <1>1, <1>2, <1>5, <2>2, <2>3
    <3>3. din'.mark = "length"
      BY <3>1 DEF Arriving
    <3>4. LineInv'
      BY <3>1, <3>2, <3>3 DEF LineInv, WordOk, Words
    <3> QED
      BY <1>4, <1>7, <2>2, <2>3, <3>1, <3>3, <3>4 DEF Follows
  <2>4. CASE ~(wren /\ din.mark = "tail")
    <3>1. wren' = FALSE /\ din' = NoWord
      BY <1>3, <2>1, <2>4
    <3>2. wren => din.mark = "length"
      BY <1>5, <1>9, <2>4
    <3>3. LineInv'
      BY <2>2, <3>1 DEF LineInv
    <3> QED
      BY <1>4, <2>1, <2>2, <3>1, <3>2, <3>3
  <2> QED
    BY <2>3, <2>4
<1> QED
  BY <1>1, <1>8, <1>9

(* The FIFO keeps whole packets, and a new front comes after the old one.   *)
LEMMA FifoShape ==
  ASSUME TypeInv, LineInv, FifoInv, NEW start \in BOOLEAN, Line(start), Receive, ReceiveFifo
  PROVE  /\ FifoInv'
         /\ ~hw.rden /\ recvFifo # << >> => recvFifo' # << >> /\ recvFifo'[1] = recvFifo[1]
         /\ ~hw.rden /\ recvFifo = << >> /\ wren => recvFifo' # << >> /\ recvFifo'[1] = din
         /\ ~hw.rden /\ recvFifo = << >> /\ ~wren => recvFifo' = << >>
         /\ recvFifo # << >> /\ recvFifo' # << >> /\ hw.rden => Follows(recvFifo[1], recvFifo'[1])
         /\ recvFifo' = << >> => ~wren /\ (recvFifo # << >> => recvFifo[1].mark = "length")
<1>1. /\ recvFifo \in Seq(WordRec) /\ recvFifo' \in Seq(WordRec) /\ wren \in BOOLEAN
      /\ Len(recvFifo) \in Nat /\ Len(recvFifo') \in Nat /\ hw.rden \in BOOLEAN
      /\ (recvFifo = << >> <=> Len(recvFifo) = 0) /\ (recvFifo' = << >> <=> Len(recvFifo') = 0)
  BY FifoStep DEF TypeInv, HwRec
<1>2. PICK s \in {0, 1} :
              /\ s <= Len(recvFifo) /\ (s = 1 <=> hw.rden /\ recvFifo # << >>)
              /\ Len(recvFifo') = Len(recvFifo) - s + (IF wren THEN 1 ELSE 0)
              /\ \A k \in 1 .. Len(recvFifo) - s : recvFifo'[k] = recvFifo[k + s]
              /\ wren => recvFifo'[Len(recvFifo')] = din
  BY FifoStep
<1> DEFINE L == Len(recvFifo)
           M == Len(recvFifo')
<1>3. /\ wren' \in BOOLEAN
      /\ wren /\ wren' => Follows(din, din')
      /\ wren /\ ~wren' => din.mark = "length"
      /\ ~wren /\ wren' => din'.mark = "head"
  BY LineStep
<1>4. /\ \A k \in 1 .. L : WordOk(recvFifo[k])
      /\ \A k \in 1 .. L - 1 : Follows(recvFifo[k], recvFifo[k + 1])
      /\ L > 0 /\ wren => Follows(recvFifo[L], din)
      /\ L > 0 /\ ~wren => recvFifo[L].mark = "length"
      /\ wren => WordOk(din)
  BY <1>1 DEF FifoInv, LineInv
<1>5. L \in Nat /\ M \in Nat /\ s <= L /\ M = L - s + (IF wren THEN 1 ELSE 0)
  BY <1>1, <1>2
<1>6. /\ \A k \in 1 .. L - s : recvFifo'[k] = recvFifo[k + s]
      /\ wren => recvFifo'[M] = din
  BY <1>2
<1>13. recvFifo = << >> <=> L = 0
  BY <1>1
<1>14. recvFifo' = << >> <=> M = 0
  BY <1>1
<1> HIDE DEF L, M
<1>7. \A k \in 1 .. M : WordOk(recvFifo'[k])
  <2> TAKE k \in 1 .. M
  <2>1. CASE k <= L - s
    BY <1>4, <1>5, <1>6, <2>1
  <2>2. CASE k > L - s
    <3>1. wren /\ k = M
      BY <1>1, <1>5, <2>2
    <3> QED
      BY <1>4, <1>6, <3>1
  <2> QED
    BY <1>5, <2>1, <2>2
<1>8. \A k \in 1 .. M - 1 : Follows(recvFifo'[k], recvFifo'[k + 1])
  <2> TAKE k \in 1 .. M - 1
  <2>1. CASE k + 1 <= L - s
    BY <1>4, <1>5, <1>6, <2>1
  <2>2. CASE k + 1 > L - s
    <3>1. wren /\ k = L - s /\ k + 1 = M /\ k + s = L /\ L > 0
      BY <1>1, <1>5, <2>2
    <3> QED
      BY <1>4, <1>5, <1>6, <3>1
  <2> QED
    BY <1>5, <2>1, <2>2
<1>9. M > 0 => IF wren' THEN Follows(recvFifo'[M], din') ELSE recvFifo'[M].mark = "length"
  <2>1. CASE wren
    BY <1>3, <1>6, <2>1
  <2>2. CASE ~wren /\ M > 0
    <3>1. M = L - s /\ L > 0 /\ recvFifo'[M] = recvFifo[L]
      BY <1>5, <1>6, <2>2
    <3>2. recvFifo'[M].mark = "length"
      BY <1>4, <2>2, <3>1
    <3> QED
      BY <1>3, <2>2, <3>2 DEF Follows
  <2> QED
    BY <1>1, <2>1, <2>2
<1>10. FifoInv'
  BY <1>7, <1>8, <1>9, <1>14, <1>5 DEF FifoInv, M
<1>11. /\ s = 0 /\ L > 0 => M > 0 /\ recvFifo'[1] = recvFifo[1]
       /\ s = 0 /\ L = 0 /\ wren => M > 0 /\ recvFifo'[1] = din
       /\ s = 0 /\ L = 0 /\ ~wren => M = 0
  BY <1>1, <1>5, <1>6
<1>12. /\ s = 1 /\ M > 0 => Follows(recvFifo[1], recvFifo'[1])
       /\ s = 1 /\ M = 0 => recvFifo[1].mark = "length"
  BY <1>1, <1>4, <1>5, <1>6
<1>15. s = 0 <=> ~(hw.rden /\ L # 0)
  BY <1>1, <1>2, <1>13
<1>16. M = 0 => ~wren /\ (L > 0 => s = 1)
  BY <1>1, <1>5
<1> QED
  BY <1>1, <1>5, <1>10, <1>11, <1>12, <1>13, <1>14, <1>15, <1>16
-----------------------------------------------------------------------------
(* The next address, where it does not run over. *)
LEMMA NextAddrOk ==
  ASSUME hw.addr \in Nat, hw.addr + 1 < 2 * Half
  PROVE  NextAddr = hw.addr + 1
BY Sizes DEF NextAddr

(* What the driver may do in a clock, as far as the tags are concerned. *)
Quiet ==
  \/ pc' = pc
  \/ pc = "app" /\ pc' = "len" /\ Number(1) \in SeesAt(RecvTag)
  \/ pc = "len" /\ pc' \in {"copy", "release"}
  \/ pc = "copy" /\ pc' = "release"
  \/ pc = "spin" /\ pc' = "app"

LEMMA DriverStep ==
  ASSUME TypeInv, NEW go \in BOOLEAN, Driver(go)
  PROVE  /\ pc' \in {"app", "len", "copy", "release", "fill", "fire", "spin"}
         /\ i' \in Nat /\ len' \in Nat /\ made' \in Nat
         /\ \/ Quiet /\ Memory({})
            \/ pc = "release" /\ pc' = "app" /\ Memory({<<RecvTag, Number(2)>>})
            \/ pc = "fire" /\ pc' = "spin" /\ Memory({<<SendTag, Number(1)>>})
            \/ /\ \/ pc = "app" /\ pc' = "fill" /\ ram[SendTag] # Number(1)
                  \/ pc = "fill" /\ pc' \in {"fill", "fire"}
               /\ \E a \in Nat, v \in CellRec : a > SendTag /\ Memory({<<a, v>>})
<1>1. /\ pc \in {"app", "len", "copy", "release", "fill", "fire", "spin"}
      /\ i \in Nat /\ len \in Nat /\ made \in Nat
      /\ hw.din \in CellRec /\ Half \in Nat /\ MaxIn \in Nat
      /\ ram \in [Addresses -> CellRec]
  BY Sizes DEF TypeInv, HwRec
<1>2. \A n \in Nat : Number(n) \in CellRec
  BY DEF Number, Cell, CellRec
<1>3. \A p, n \in Nat : Cell(p, n) \in CellRec
  BY DEF Cell, CellRec
<1>4. CASE Memory({}) /\ UNCHANGED driver
  BY <1>1, <1>4 DEF driver, Quiet
<1>5. CASE Read
  <2>1. CASE /\ pc = "app" /\ \E v \in SeesAt(RecvTag) : pc' = IF v = Number(1) THEN "len" ELSE "app"
             /\ Memory({}) /\ UNCHANGED <<i, len, buf, made, got, sends>>
    BY <1>1, <2>1 DEF Quiet
  <2>2. CASE /\ pc = "len" /\ \E v \in SeesAt(RecvLen) : len' = v.val
             /\ i' = 0 /\ buf' = << >> /\ pc' \in {"copy", "release"}
             /\ Memory({}) /\ UNCHANGED <<made, got, sends>>
    <3>1. ram[RecvLen] \in CellRec
      BY <1>1, Sizes DEF Addresses, RecvLen
    <3> QED
      BY <1>1, <2>2, <3>1 DEF Quiet, SeesAt, CellRec
  <2>3. CASE /\ pc = "copy" /\ \E v \in SeesAt(RecvPkt + i) : buf' = Append(buf, v)
             /\ i' = i + 1 /\ pc' = IF i + 1 = len THEN "release" ELSE "copy"
             /\ Memory({}) /\ UNCHANGED <<len, made, got, sends>>
    BY <1>1, <2>3 DEF Quiet
  <2>4. CASE /\ pc = "release" /\ Memory({<<RecvTag, Number(2)>>})
             /\ got' = Append(got, buf) /\ buf' = << >> /\ pc' = "app"
             /\ UNCHANGED <<i, len, made, sends>>
    BY <1>1, <2>4
  <2> QED
    BY <1>5, <2>1, <2>2, <2>3, <2>4 DEF Read
<1>6. CASE Send
  <2>1. CASE /\ pc = "app" /\ made < MaxOut + restarts /\ ram[SendTag] # Number(1)
             /\ \E n \in SendLengths : len' = n /\ Memory({<<SendLen, Number(n)>>})
             /\ made' = made + 1
             /\ i' = 0 /\ pc' = "fill" /\ UNCHANGED <<buf, got, sends>>
    <3>1. PICK n \in SendLengths : len' = n /\ Memory({<<SendLen, Number(n)>>})
      BY <2>1
    <3>2. n \in Nat /\ SendLen \in Nat /\ SendLen > SendTag /\ Number(n) \in CellRec
      BY <1>1, <1>2, Sizes DEF SendLen, SendTag
    <3> DEFINE a == SendLen
               v == Number(n)
    <3>3. a \in Nat /\ a > SendTag /\ v \in CellRec /\ Memory({<<a, v>>})
      BY <3>1, <3>2
    <3> HIDE DEF a, v
    <3>4. /\ pc = "app" /\ pc' = "fill" /\ ram[SendTag] # Number(1)
          /\ i' \in Nat /\ len' \in Nat /\ made' \in Nat
      BY <1>1, <2>1, <3>1, <3>2
    <3> QED
      BY <3>3, <3>4
  <2>2. CASE /\ pc = "fill" /\ Memory({<<SendPkt + i, Cell(MaxIn + made, i)>>})
             /\ i' = i + 1 /\ pc' = IF i + 1 = len THEN "fire" ELSE "fill"
             /\ UNCHANGED <<len, buf, made, got, sends>>
    <3>1. SendPkt + i \in Nat /\ SendPkt + i > SendTag /\ MaxIn + made \in Nat
      BY <1>1 DEF SendPkt, SendTag
    <3>2. Cell(MaxIn + made, i) \in CellRec
      BY <1>1, <1>3, <3>1
    <3> DEFINE a == SendPkt + i
               v == Cell(MaxIn + made, i)
    <3>3. a \in Nat /\ a > SendTag /\ v \in CellRec /\ Memory({<<a, v>>})
      BY <2>2, <3>1, <3>2
    <3> HIDE DEF a, v
    <3>4. pc' \in {"fill", "fire"} /\ i' \in Nat
      BY <1>1, <2>2
    <3> QED
      BY <1>1, <2>2, <3>3, <3>4
  <2>3. CASE /\ pc = "fire" /\ Memory({<<SendTag, Number(1)>>})
             /\ sends' = Append(sends, <<made, len>>) /\ pc' = "spin"
             /\ UNCHANGED <<i, len, buf, made, got>>
    BY <1>1, <2>3
  <2>4. CASE /\ pc = "spin" /\ \E v \in SeesAt(SendTag) : pc' = IF v = Number(1) THEN "spin" ELSE "app"
             /\ Memory({}) /\ UNCHANGED <<i, len, buf, made, got, sends>>
    BY <1>1, <2>4 DEF Quiet
  <2> QED
    BY <1>6, <2>1, <2>2, <2>3, <2>4 DEF Send
<1> QED
  BY <1>4, <1>5, <1>6 DEF Driver

LEMMA MemoryNone ==
  ASSUME TypeInv, Memory({})
  PROVE  /\ ram' \in [Addresses -> CellRec] /\ ramQ' \in CellRec
         /\ dout' \in CellRec /\ dout' = ramQ
         /\ \A b \in Addresses : ram'[b] = IF hw.wren /\ hw.addr = b THEN hw.din ELSE ram[b]
         /\ ramQ' = ram[hw.addr]
<1>1. /\ ram \in [Addresses -> CellRec] /\ hw.addr \in Addresses /\ hw.din \in CellRec
      /\ ramQ \in CellRec
  BY DEF TypeInv, HwRec
<1>2. ram' = [b \in Addresses |-> IF hw.wren /\ hw.addr = b THEN hw.din ELSE ram[b]]
  BY <1>1 DEF Memory
<1>3. ramQ' = ram[hw.addr] /\ dout' = ramQ
  BY DEF Memory
<1> QED
  BY <1>1, <1>2, <1>3

LEMMA MemoryOne ==
  ASSUME TypeInv, NEW a \in Nat, NEW v \in CellRec, Memory({<<a, v>>})
  PROVE  /\ ram' \in [Addresses -> CellRec] /\ ramQ' \in CellRec
         /\ dout' \in CellRec /\ dout' = ramQ
         /\ \A b \in Addresses :
              ram'[b] = IF hw.wren /\ hw.addr = b THEN hw.din ELSE IF b = a THEN v ELSE ram[b]
         /\ ramQ' = ram[hw.addr] \/ (hw.addr = a /\ ramQ' = v)
<1>1. /\ ram \in [Addresses -> CellRec] /\ hw.addr \in Addresses /\ hw.din \in CellRec
      /\ ramQ \in CellRec
  BY DEF TypeInv, HwRec
<1> DEFINE writes == {<<a, v>>}
<1>2. \A b : (\E w \in writes : w[1] = b) <=> b = a
  OBVIOUS
<1>3. (CHOOSE w \in writes : TRUE) = <<a, v>>
  OBVIOUS
<1>4. \A z : z \in {w[2] : w \in {u \in writes : u[1] = hw.addr}} => z = v /\ hw.addr = a
  OBVIOUS
<1>5. /\ ram' = [b \in DOMAIN ram |->
               IF hw.wren /\ hw.addr = b THEN hw.din
               ELSE IF \E w \in writes : w[1] = b THEN (CHOOSE w \in writes : TRUE)[2]
               ELSE ram[b]]
      /\ ramQ' \in {ram[hw.addr]} \cup {w[2] : w \in {u \in writes : u[1] = hw.addr}}
      /\ dout' = ramQ
  BY DEF Memory
<1> HIDE DEF writes
<1>6. ram' = [b \in Addresses |-> IF hw.wren /\ hw.addr = b THEN hw.din
                                   ELSE IF b = a THEN v ELSE ram[b]]
  BY <1>1, <1>2, <1>3, <1>5
<1>7. ramQ' = ram[hw.addr] \/ (hw.addr = a /\ ramQ' = v)
  BY <1>4, <1>5
<1> QED
  BY <1>1, <1>5, <1>6, <1>7

(* What becomes of the two tags. *)
LEMMA TagStep ==
  ASSUME TypeInv, NEW go \in BOOLEAN, Driver(go)
  PROVE  /\ ram' \in [Addresses -> CellRec] /\ ramQ' \in CellRec
         /\ dout' \in CellRec /\ dout' = ramQ
         /\ ram'[SendTag] = IF hw.wren /\ hw.addr = SendTag THEN hw.din
                            ELSE IF pc = "fire" /\ pc' = "spin" THEN Number(1) ELSE ram[SendTag]
         /\ ram'[RecvTag] = IF hw.wren /\ hw.addr = RecvTag THEN hw.din
                            ELSE IF pc = "release" /\ pc' = "app" THEN Number(2) ELSE ram[RecvTag]
         /\ hw.addr = RecvTag => ramQ' = ram[RecvTag] \/ (pc = "release" /\ pc' = "app")
         /\ hw.addr = SendTag =>
              ramQ' = ram[SendTag] \/ (pc = "fire" /\ pc' = "spin" /\ ramQ' = Number(1))
         /\ pc' \in {"len", "copy", "release"} =>
              pc \in {"len", "copy", "release"} \/ Number(1) \in SeesAt(RecvTag)
         /\ pc' \in {"fill", "fire"} => pc \in {"fill", "fire"} \/ ram[SendTag] # Number(1)
<1>1. /\ RecvTag \in Addresses /\ SendTag \in Addresses /\ RecvTag \in Nat /\ SendTag \in Nat
      /\ RecvTag < SendTag
      /\ Number(1) \in CellRec /\ Number(2) \in CellRec
  BY Sizes DEF RecvTag, SendTag, Addresses, Number, Cell, CellRec
<1> HIDE DEF RecvTag, SendTag
<1>2. CASE Quiet /\ Memory({})
  <2>1. /\ ram' \in [Addresses -> CellRec] /\ ramQ' \in CellRec
        /\ dout' \in CellRec /\ dout' = ramQ
        /\ \A b \in Addresses : ram'[b] = IF hw.wren /\ hw.addr = b THEN hw.din ELSE ram[b]
        /\ ramQ' = ram[hw.addr]
    BY <1>2, MemoryNone
  <2>2. /\ ram'[SendTag] = IF hw.wren /\ hw.addr = SendTag THEN hw.din ELSE ram[SendTag]
        /\ ram'[RecvTag] = IF hw.wren /\ hw.addr = RecvTag THEN hw.din ELSE ram[RecvTag]
    BY <1>1, <2>1
  <2>3. /\ ~(pc = "fire" /\ pc' = "spin") /\ ~(pc = "release" /\ pc' = "app")
        /\ pc' \in {"len", "copy", "release"} =>
              pc \in {"len", "copy", "release"} \/ Number(1) \in SeesAt(RecvTag)
        /\ pc' \in {"fill", "fire"} => pc \in {"fill", "fire"} \/ ram[SendTag] # Number(1)
    BY <1>2 DEF Quiet
  <2> QED
    BY <2>1, <2>2, <2>3
<1>3. CASE pc = "release" /\ pc' = "app" /\ Memory({<<RecvTag, Number(2)>>})
  <2> DEFINE v == Number(2)
             a == RecvTag
  <2>1. a \in Nat /\ v \in CellRec /\ Memory({<<a, v>>})
    BY <1>1, <1>3
  <2> HIDE DEF a, v
  <2>2. /\ ram' \in [Addresses -> CellRec] /\ ramQ' \in CellRec
        /\ dout' \in CellRec /\ dout' = ramQ
        /\ \A b \in Addresses :
              ram'[b] = IF hw.wren /\ hw.addr = b THEN hw.din ELSE IF b = a THEN v ELSE ram[b]
        /\ ramQ' = ram[hw.addr] \/ (hw.addr = a /\ ramQ' = v)
    BY <2>1, MemoryOne
  <2>3. /\ ram'[SendTag] = IF hw.wren /\ hw.addr = SendTag THEN hw.din ELSE ram[SendTag]
        /\ ram'[RecvTag] = IF hw.wren /\ hw.addr = RecvTag THEN hw.din ELSE v
    BY <1>1, <2>2 DEF a
  <2>4. hw.addr = SendTag => ramQ' = ram[SendTag]
    BY <1>1, <2>2 DEF a
  <2> QED
    BY <1>3, <2>2, <2>3, <2>4 DEF v
<1>4. CASE pc = "fire" /\ pc' = "spin" /\ Memory({<<SendTag, Number(1)>>})
  <2> DEFINE v == Number(1)
             a == SendTag
  <2>1. a \in Nat /\ v \in CellRec /\ Memory({<<a, v>>})
    BY <1>1, <1>4
  <2> HIDE DEF a, v
  <2>2. /\ ram' \in [Addresses -> CellRec] /\ ramQ' \in CellRec
        /\ dout' \in CellRec /\ dout' = ramQ
        /\ \A b \in Addresses :
              ram'[b] = IF hw.wren /\ hw.addr = b THEN hw.din ELSE IF b = a THEN v ELSE ram[b]
        /\ ramQ' = ram[hw.addr] \/ (hw.addr = a /\ ramQ' = v)
    BY <2>1, MemoryOne
  <2>3. /\ ram'[SendTag] = IF hw.wren /\ hw.addr = SendTag THEN hw.din ELSE v
        /\ ram'[RecvTag] = IF hw.wren /\ hw.addr = RecvTag THEN hw.din ELSE ram[RecvTag]
    BY <1>1, <2>2 DEF a
  <2>4. /\ hw.addr = RecvTag => ramQ' = ram[RecvTag]
        /\ hw.addr = SendTag => ramQ' = ram[SendTag] \/ ramQ' = v
    BY <1>1, <2>2 DEF a
  <2> QED
    BY <1>4, <2>2, <2>3, <2>4 DEF v
<1>5. CASE /\ \/ pc = "app" /\ pc' = "fill" /\ ram[SendTag] # Number(1)
              \/ pc = "fill" /\ pc' \in {"fill", "fire"}
           /\ \E a \in Nat, v \in CellRec : a > SendTag /\ Memory({<<a, v>>})
  <2>1. PICK a \in Nat, v \in CellRec : a > SendTag /\ Memory({<<a, v>>})
    BY <1>5
  <2>2. /\ ram' \in [Addresses -> CellRec] /\ ramQ' \in CellRec
        /\ dout' \in CellRec /\ dout' = ramQ
        /\ \A b \in Addresses :
              ram'[b] = IF hw.wren /\ hw.addr = b THEN hw.din ELSE IF b = a THEN v ELSE ram[b]
        /\ ramQ' = ram[hw.addr] \/ (hw.addr = a /\ ramQ' = v)
    BY <2>1, MemoryOne
  <2>3. a # RecvTag /\ a # SendTag
    BY <1>1, <2>1
  <2>4. /\ ram'[SendTag] = IF hw.wren /\ hw.addr = SendTag THEN hw.din ELSE ram[SendTag]
        /\ ram'[RecvTag] = IF hw.wren /\ hw.addr = RecvTag THEN hw.din ELSE ram[RecvTag]
    BY <1>1, <2>2, <2>3
  <2>5. /\ hw.addr = RecvTag => ramQ' = ram[RecvTag]
        /\ hw.addr = SendTag => ramQ' = ram[SendTag]
    BY <2>2, <2>3
  <2>6. /\ ~(pc = "fire" /\ pc' = "spin") /\ ~(pc = "release" /\ pc' = "app")
        /\ pc' \notin {"len", "copy", "release"}
        /\ pc \in {"fill", "fire"} \/ ram[SendTag] # Number(1)
    BY <1>5
  <2> QED
    BY <2>2, <2>4, <2>5, <2>6
<1> QED
  BY <1>2, <1>3, <1>4, <1>5, DriverStep
-----------------------------------------------------------------------------
(* The registers keep their types. *)
LEMMA HwType ==
  ASSUME TypeInv, CheckPkt
  PROVE  hw' \in HwRec
<1>1. /\ hw \in HwRec /\ dout \in CellRec /\ recvFifo \in Seq(WordRec) /\ Q \in Nat /\ Q > 1
      /\ Half \in Nat /\ Half > 2
  BY Sizes DEF TypeInv
<1>2. /\ NextAddr \in Addresses /\ RecvTag \in Addresses /\ SendTag \in Addresses
      /\ RecvLen \in Addresses
  BY <1>1, Sizes DEF NextAddr, Addresses, RecvTag, SendTag, RecvLen, HwRec
<1>3. \A n \in Nat : Number(n) \in CellRec
  BY DEF Number, Cell, CellRec
<1>4. Shown \in WordRec /\ Shown.n \in Nat
  <2>1. NoWord \in WordRec
    BY DEF NoWord, Arriving, WordRec, Marks
  <2>2. recvFifo # << >> => Head(recvFifo) \in WordRec
    BY <1>1
  <2>3. Shown \in WordRec
    BY <2>1, <2>2 DEF Shown
  <2> QED
    BY <2>3 DEF WordRec
<1>5. \A w \in WordRec, k \in Nat : UnitOf(w, k) \in CellRec
  <2> TAKE w \in WordRec, k \in Nat
  <2> DEFINE x == w.idx * Q + k
  <2>1. w.pkt \in Nat /\ w.idx \in Nat
    BY DEF WordRec
  <2>2. x \in Nat
    BY <1>1, <2>1
  <2> HIDE DEF x
  <2> QED
    BY <2>1, <2>2 DEF UnitOf, Cell, CellRec, x
<1>6. HwStates # {} /\ {"IDLE", "WAIT_1", "WAIT_2", "CHECK_RECV", "WRITE_RECV_PKT",
                        "WRITE_RECV_LENGTH", "WRITE_RECV_TAG", "CHECK_SEND",
                        "READ_SEND_LENGTH", "READ_SEND_PKT"} \subseteq HwStates
  BY DEF HwStates
<1> DEFINE nc == (hw.count + 1) % Q
           na == NextAddr
<1>7. nc \in 0 .. Q - 1 /\ 0 \in 0 .. Q - 1 /\ hw.count \in Nat /\ hw.count \in 0 .. Q - 1
  BY <1>1 DEF HwRec
<1>8. na \in Addresses
  BY <1>2
<1> HIDE DEF nc, na
<1>9. CASE Idle
  BY <1>1, <1>2, <1>6, <1>9 DEF Idle, HwRec
<1>10. CASE Wait
  BY <1>1, <1>6, <1>8, <1>10 DEF Wait, HwRec, na
<1>11. CASE CheckRecv
  <2>1. \/ hw' = [hw EXCEPT !.rden = TRUE, !.count = 0, !.addr = RecvLen, !.state = "WRITE_RECV_PKT"]
        \/ hw' = [hw EXCEPT !.addr = SendTag, !.state = "WAIT_1"]
    BY <1>11 DEF CheckRecv
  <2> QED
    BY <1>1, <1>2, <1>6, <1>7, <2>1 DEF HwRec
<1>12. CASE WriteRecvPkt
  <2> DEFINE last == hw.count = Q - 1
             c == UnitOf(IF hw.count = 0 THEN Shown ELSE hw.temp, hw.count)
             t == IF hw.rden THEN Shown ELSE hw.temp
             st == IF last /\ hw.temp.mark = "tail" THEN "WRITE_RECV_LENGTH" ELSE "WRITE_RECV_PKT"
  <2>1. /\ last \in BOOLEAN /\ st \in HwStates /\ t \in WordRec /\ c \in CellRec
    BY <1>1, <1>4, <1>5, <1>6, <1>7 DEF HwRec
  <2>2. hw' = [hw EXCEPT !.rden = last, !.wren = TRUE, !.addr = na, !.count = nc,
                 !.din = c, !.temp = t, !.state = st]
    BY <1>12 DEF WriteRecvPkt, na, nc
  <2> HIDE DEF last, c, t, st
  <2> QED
    BY <1>1, <1>7, <1>8, <2>1, <2>2 DEF HwRec
<1>13. CASE WriteRecvLength
  <2> DEFINE c == Number(Shown.n)
  <2>1. c \in CellRec
    BY <1>3, <1>4
  <2>2. hw' = [hw EXCEPT !.rden = FALSE, !.wren = TRUE, !.addr = RecvLen,
                      !.din = c, !.state = "WRITE_RECV_TAG"]
    BY <1>13 DEF WriteRecvLength
  <2> HIDE DEF c
  <2> QED
    BY <1>1, <1>2, <1>6, <2>1, <2>2 DEF HwRec
<1>14. CASE WriteRecvTag
  <2> DEFINE c == Number(1)
  <2>1. c \in CellRec
    BY <1>3
  <2>2. hw' = [hw EXCEPT !.wren = TRUE, !.addr = RecvTag, !.din = c, !.state = "IDLE"]
    BY <1>14 DEF WriteRecvTag
  <2> HIDE DEF c
  <2> QED
    BY <1>1, <1>2, <1>6, <2>1, <2>2 DEF HwRec
<1>15. CASE CheckSend
  BY <1>1, <1>6, <1>8, <1>15 DEF CheckSend, HwRec, na
<1>16. CASE ReadSendLength
  <2> DEFINE x == dout.val - 1
  <2>1. x \in Int
    BY <1>1 DEF CellRec
  <2>2. hw' = [hw EXCEPT !.addr = na, !.count = 0, !.head = TRUE, !.sendLength = x,
                         !.state = "READ_SEND_PKT"]
    BY <1>16 DEF ReadSendLength, na
  <2> HIDE DEF x
  <2> QED
    BY <1>1, <1>6, <1>7, <1>8, <2>1, <2>2 DEF HwRec
<1>17. CASE ReadSendPkt
  <2> DEFINE cells == [hw.dinSend.cells EXCEPT ![hw.count] = dout]
             x == hw.sendLength - 1
             n == hw.count + 1
             d == [hw.dinSend EXCEPT !.cells = cells]
             l == Leaving("tail", n, cells)
             b == Leaving(IF hw.head THEN "head" ELSE "body", Q, cells)
             base == [hw EXCEPT !.wrenSend = FALSE, !.addr = na, !.count = nc, !.sendLength = x,
                                !.dinSend = d]
             z == Number(0)
  <2>1. cells \in [0 .. Q - 1 -> CellRec] /\ hw.dinSend \in LeavingRec
    BY <1>1, <1>7 DEF HwRec, LeavingRec
  <2>2. x \in Int /\ n \in Nat /\ z \in CellRec
    BY <1>1, <1>3, <1>7 DEF HwRec
  <2> HIDE DEF cells, x, n, z
  <2>3. d \in LeavingRec /\ l \in LeavingRec /\ b \in LeavingRec
    BY <1>1, <2>1, <2>2 DEF LeavingRec, Leaving
  <2>4. \/ hw' = [base EXCEPT !.wrenSend = TRUE, !.sendLength = 0, !.dinSend = l, !.wren = TRUE,
                             !.din = z, !.addr = SendTag, !.state = "IDLE"]
        \/ hw' = [base EXCEPT !.wrenSend = TRUE, !.head = FALSE, !.dinSend = b]
        \/ hw' = base
    BY <1>17 DEF ReadSendPkt, na, nc, cells, x, n, z
  <2> HIDE DEF d, l, b
  <2>5. base \in HwRec
    BY <1>1, <1>7, <1>8, <2>2, <2>3 DEF HwRec
  <2> HIDE DEF base
  <2>6. [base EXCEPT !.wrenSend = TRUE, !.sendLength = 0, !.dinSend = l, !.wren = TRUE,
                     !.din = z, !.addr = SendTag, !.state = "IDLE"] \in HwRec
    <3>1. "IDLE" \in HwStates /\ 0 \in Int /\ SendTag \in Addresses
      BY <1>2, <1>6
    <3> QED
      BY <2>2, <2>3, <2>5, <3>1 DEF HwRec
  <2>7. [base EXCEPT !.wrenSend = TRUE, !.head = FALSE, !.dinSend = b] \in HwRec
    BY <2>3, <2>5 DEF HwRec
  <2> QED
    BY <2>4, <2>5, <2>6, <2>7
<1> QED
  BY <1>9, <1>10, <1>11, <1>12, <1>13, <1>14, <1>15, <1>16, <1>17 DEF CheckPkt

(* The copy goes on from word to word, in step with the FIFO, and writes    *)
(* nowhere else.                                                            *)
LEMMA CopyStep ==
  ASSUME TypeInv, LineInv, FifoInv, CopyInv, AccessInv,
         NEW start \in BOOLEAN, Line(start), Receive, ReceiveFifo, CheckPkt
  PROVE  CopyInv' /\ AccessInv'
<1>1. /\ hw \in HwRec /\ hw' \in HwRec /\ recvFifo \in Seq(WordRec) /\ Q \in Nat /\ Q > 1
      /\ Half \in Nat /\ Half > 2 /\ hw.addr \in Nat /\ hw.count \in 0 .. Q - 1
      /\ hw.addr < 2 * Half /\ hw.rden \in BOOLEAN /\ hw.wren \in BOOLEAN
  BY HwType, Sizes DEF TypeInv, HwRec, Addresses
<1>2. /\ ~hw.rden /\ recvFifo # << >> => recvFifo' # << >> /\ recvFifo'[1] = recvFifo[1]
      /\ ~hw.rden /\ recvFifo = << >> /\ wren => recvFifo' # << >> /\ recvFifo'[1] = din
      /\ ~hw.rden /\ recvFifo = << >> /\ ~wren => recvFifo' = << >>
      /\ recvFifo # << >> /\ recvFifo' # << >> /\ hw.rden => Follows(recvFifo[1], recvFifo'[1])
      /\ recvFifo' = << >> => ~wren /\ (recvFifo # << >> => recvFifo[1].mark = "length")
  BY FifoShape
<1>3. ~wren /\ wren' => din'.mark = "head"
  BY LineStep
<1>4. recvFifo # << >> => /\ WordOk(recvFifo[1]) /\ recvFifo[1] \in WordRec
                          /\ recvFifo[1].idx \in Nat /\ Shown = recvFifo[1]
  <2>1. recvFifo # << >> => /\ 1 \in 1 .. Len(recvFifo) /\ recvFifo[1] \in WordRec
                            /\ Head(recvFifo) = recvFifo[1]
    BY <1>1
  <2> QED
    BY <2>1 DEF FifoInv, Shown, WordRec
<1>5. /\ RecvTag = 0 /\ RecvLen = 1 /\ RecvPkt = 2 /\ SendTag = Half
  BY DEF RecvTag, RecvLen, RecvPkt, SendTag
<1>6. /\ hw.state = "WAIT_1" => hw.addr \in {RecvTag, SendTag}
      /\ hw.state = "WAIT_2" => hw.addr \in {RecvTag + 1, SendTag + 1}
      /\ hw.wren =>
           \/ /\ hw.state \in {"WRITE_RECV_PKT", "WRITE_RECV_LENGTH"}
              /\ hw.addr \in RecvPkt .. Half - 1
           \/ hw.state = "WRITE_RECV_TAG" /\ hw.addr = RecvLen
           \/ hw.state = "IDLE" /\ hw.addr = RecvTag /\ hw.din = Number(1)
           \/ hw.state = "IDLE" /\ hw.addr = SendTag /\ hw.din = Number(0)
  BY DEF AccessInv
(* Where no packet is being written before nor after, the FIFO is left alone. *)
<1>17. /\ hw.count # Q - 1 => (hw.count + 1) % Q = hw.count + 1
       /\ hw.count = Q - 1 => (hw.count + 1) % Q = 0
  <2> DEFINE n == hw.count
  <2>1. n \in 0 .. Q - 1
    BY <1>1
  <2> HIDE DEF n
  <2> QED
    BY <1>1, <2>1 DEF n
<1> DEFINE Apart(st) == st \notin {"WRITE_RECV_PKT", "WRITE_RECV_LENGTH"}
<1>7. ASSUME Apart(hw.state), Apart(hw'.state), hw'.rden = hw.rden,
             hw'.state \in {"WAIT_1", "WAIT_2"} /\ hw'.addr < Half => recvFifo # << >>,
             hw'.state = "CHECK_RECV" => recvFifo # << >>
      PROVE  CopyInv'
  <2>1. /\ ~hw.rden
        /\ recvFifo # << >> => recvFifo[1].mark = "head"
        /\ recvFifo = << >> /\ wren => din.mark = "head"
    BY <1>7 DEF CopyInv, Between
  <2>2. recvFifo' # << >> => recvFifo'[1].mark = "head"
    BY <1>2, <2>1
  <2>3. recvFifo' = << >> /\ wren' => din'.mark = "head"
    BY <1>2, <1>3, <2>1
  <2> QED
    BY <1>2, <1>7, <2>1, <2>2, <2>3 DEF CopyInv, Between
<1>8. CASE Idle
  <2>1. /\ hw.state = "IDLE" /\ hw'.state = "WAIT_1" /\ hw'.rden = hw.rden /\ ~hw'.wren
        /\ hw'.addr = IF recvFifo # << >> THEN RecvTag ELSE SendTag
    BY <1>1, <1>8 DEF Idle, HwRec
  <2>2. CopyInv'
    BY <1>1, <1>5, <1>7, <2>1
  <2> QED
    BY <2>1, <2>2 DEF AccessInv
<1>9. CASE Wait
  <2>1. /\ hw.state \in {"WAIT_1", "WAIT_2"} /\ hw'.rden = hw.rden /\ hw'.wren = hw.wren
        /\ hw'.addr = NextAddr
        /\ hw.state = "WAIT_1" => hw'.state = "WAIT_2"
        /\ hw.state = "WAIT_2" => hw'.state = IF hw.addr < Half THEN "CHECK_RECV" ELSE "CHECK_SEND"
    BY <1>1, <1>9 DEF Wait, HwRec
  <2>2. ~hw.wren
    BY <1>6, <2>1
  <2>3. hw.addr + 1 < 2 * Half /\ hw'.addr = hw.addr + 1
    <3>1. hw.addr + 1 < 2 * Half
      BY <1>1, <1>5, <1>6, <2>1
    <3> QED
      BY <1>1, <2>1, <3>1, NextAddrOk
  <2>4. hw.addr < Half => recvFifo # << >>
    BY <2>1 DEF CopyInv
  <2>5. CopyInv'
    BY <1>1, <1>5, <1>6, <1>7, <2>1, <2>3, <2>4
  <2>6. hw'.state \notin {"WAIT_1"} /\ (hw'.state = "WAIT_2" => hw.state = "WAIT_1")
    BY <2>1
  <2> QED
    BY <1>5, <1>6, <2>1, <2>2, <2>3, <2>5, <2>6 DEF AccessInv
<1>10. CASE CheckRecv
  <2>1. hw.state = "CHECK_RECV" /\ ~hw.wren /\ recvFifo # << >> /\ ~hw.rden
        /\ recvFifo[1].mark = "head"
    BY <1>1, <1>6, <1>10 DEF CheckRecv, CopyInv, Between
  <2>2. CASE hw' = [hw EXCEPT !.addr = SendTag, !.state = "WAIT_1"]
    <3>1. /\ hw'.state = "WAIT_1" /\ hw'.addr = SendTag /\ hw'.rden = hw.rden /\ hw'.wren = hw.wren
      BY <1>1, <2>2 DEF HwRec
    <3>2. CopyInv'
      BY <1>1, <1>5, <1>7, <2>1, <3>1
    <3> QED
      BY <2>1, <3>1, <3>2 DEF AccessInv
  <2>3. CASE hw' = [hw EXCEPT !.rden = TRUE, !.count = 0, !.addr = RecvLen, !.state = "WRITE_RECV_PKT"]
    <3>1. /\ hw'.state = "WRITE_RECV_PKT" /\ hw'.addr = RecvLen /\ hw'.rden = TRUE /\ hw'.wren = hw.wren
          /\ hw'.count = 0
      BY <1>1, <2>3 DEF HwRec
    <3>2. recvFifo' # << >> /\ recvFifo'[1] = recvFifo[1]
      BY <1>2, <2>1
    <3>3. recvFifo[1].idx = 0 /\ recvFifo[1].mark \in Words /\ recvFifo[1].idx * Q = 0
      BY <1>1, <1>4, <2>1 DEF WordOk, Words
    <3>4. CopyInv'
      BY <1>5, <2>1, <3>1, <3>2, <3>3 DEF CopyInv, Between, RecvLen
    <3> QED
      BY <2>1, <3>1, <3>4 DEF AccessInv
  <2> QED
    BY <1>10, <2>2, <2>3 DEF CheckRecv
<1>11. CASE WriteRecvPkt
  <2> DEFINE w == IF hw.count = 0 THEN recvFifo[1] ELSE hw.temp
             last == hw.count = Q - 1
             x == w.idx * Q
  <2>1. /\ hw.state = "WRITE_RECV_PKT" /\ recvFifo # << >> /\ (hw.rden <=> hw.count = 0)
        /\ hw.count = 0 => /\ recvFifo[1].mark \in Words
                           /\ hw.addr = RecvLen + recvFifo[1].idx * Q
                           /\ recvFifo[1].mark # "head" => hw.wren
        /\ hw.count > 0 => /\ WordOk(hw.temp) /\ hw.temp.mark \in Words /\ hw.wren
                           /\ Follows(hw.temp, recvFifo[1])
                           /\ hw.addr = RecvLen + hw.temp.idx * Q + hw.count
    BY <1>11 DEF CopyInv, WriteRecvPkt
  <2>2. /\ w \in WordRec /\ w.idx \in Nat /\ w.mark \in Words /\ WordOk(w)
        /\ hw.addr = RecvLen + w.idx * Q + hw.count
    <3>1. CASE hw.count = 0
      <4>1. recvFifo[1].idx * Q \in Nat
        BY <1>1, <1>4, <2>1, SumOfWord
      <4> QED
        BY <1>1, <1>4, <1>5, <2>1, <3>1, <4>1
    <3>2. CASE hw.count > 0
      <4>1. hw.temp \in WordRec /\ hw.temp.idx \in Nat
        BY <1>1 DEF HwRec, WordRec
      <4> QED
        BY <1>1, <2>1, <3>2, <4>1
    <3> QED
      BY <1>1, <3>1, <3>2
  <2>3. x \in Nat /\ (w.idx + 1) * Q = x + Q /\ x + Q + 2 <= Half
    BY <1>1, <2>2, SumOfWord DEF WordOk
  <2>4. hw.addr = 1 + x + hw.count
    BY <1>5, <2>2
  <2> HIDE DEF x
  <2>5. hw.addr + 1 < Half /\ NextAddr = hw.addr + 1 /\ hw.addr >= 1
    <3>1. hw.addr + 1 < Half /\ hw.addr >= 1
      BY <1>1, <2>3, <2>4
    <3> QED
      BY <1>1, <3>1, NextAddrOk
  <2>6. /\ (hw'.rden <=> last) /\ hw'.wren = TRUE /\ hw'.addr = NextAddr
        /\ hw'.count = (hw.count + 1) % Q /\ hw'.temp = IF hw.rden THEN Shown ELSE hw.temp
        /\ hw'.state = IF last /\ hw.temp.mark = "tail" THEN "WRITE_RECV_LENGTH" ELSE "WRITE_RECV_PKT"
    BY <1>1, <1>11 DEF WriteRecvPkt, HwRec
  <2>7. hw'.temp = w
    BY <1>4, <2>1, <2>6
  <2>8. AccessInv'
    <3>1. hw'.addr \in RecvPkt .. Half - 1 /\ hw'.state \in {"WRITE_RECV_PKT", "WRITE_RECV_LENGTH"}
      BY <1>1, <1>5, <2>5, <2>6
    <3> QED
      BY <3>1 DEF AccessInv, RecvPkt
  <2>9. recvFifo' # << >> /\ Follows(w, recvFifo'[1])
    <3>1. CASE hw.count = 0
      <4>1. recvFifo[1].mark # "length"
        BY <2>1, <3>1 DEF Words
      <4> QED
        BY <1>2, <2>1, <3>1, <4>1
    <3>2. CASE hw.count # 0
      BY <1>1, <1>2, <2>1, <3>2
    <3> QED
      BY <3>1, <3>2
  <2> HIDE DEF w
  <2>10. CASE ~last
    <3>1. hw'.count = hw.count + 1 /\ hw'.count > 0 /\ ~hw'.rden
      <4>1. hw'.count = hw.count + 1 /\ hw.count \in Nat
        BY <1>1, <1>17, <2>6, <2>10
      <4>2. hw'.rden <=> last
        BY <2>6
      <4> QED
        BY <2>10, <4>1, <4>2
    <3>2. hw'.addr = RecvLen + w.idx * Q + hw'.count
      <4>1. hw'.addr = 1 + x + hw.count + 1 /\ hw.count \in Nat
        BY <1>1, <2>4, <2>5, <2>6
      <4> QED
        BY <1>5, <2>3, <3>1, <4>1 DEF x
    <3>3. hw'.state = "WRITE_RECV_PKT"
      BY <2>6, <2>10
    <3>4. CopyInv'
      BY <2>2, <2>6, <2>7, <2>9, <3>1, <3>2, <3>3 DEF CopyInv, Between, RecvLen
    <3> QED
      BY <2>8, <3>4
  <2>11. CASE last
    <3>1. hw'.count = 0 /\ hw'.rden /\ hw.count > 0 /\ w = hw.temp
      <4>1. hw.count = Q - 1 /\ hw.count > 0 /\ (hw'.rden <=> last)
        BY <1>1, <2>6, <2>11
      <4>2. hw'.count = 0
        BY <1>17, <2>6, <4>1
      <4> QED
        BY <1>1, <2>11, <4>1, <4>2 DEF w
    <3>2. CASE w.mark = "tail"
      <4>1. hw'.state = "WRITE_RECV_LENGTH" /\ recvFifo'[1].mark = "length"
        BY <2>6, <2>9, <2>11, <3>1, <3>2 DEF Follows
      <4> QED
        BY <2>8, <2>9, <3>1, <4>1 DEF CopyInv, Between
    <3>3. CASE w.mark # "tail"
      <4>1. hw'.state = "WRITE_RECV_PKT" /\ recvFifo'[1].mark \in Words /\ recvFifo'[1].idx = w.idx + 1
            /\ recvFifo'[1].mark # "head"
        BY <2>2, <2>6, <2>9, <2>11, <3>1, <3>3 DEF Follows, Words
      <4>2. hw'.addr = RecvLen + x + Q
        BY <1>1, <1>5, <2>3, <2>4, <2>5, <2>6, <2>11
      <4>3. hw'.addr = RecvLen + recvFifo'[1].idx * Q
        BY <1>5, <1>1, <2>3, <4>1, <4>2
      <4>4. CopyInv'
        BY <2>6, <2>9, <3>1, <4>1, <4>3 DEF CopyInv, Between, RecvLen
      <4> QED
        BY <2>8, <4>4
    <3> QED
      BY <3>2, <3>3
  <2> QED
    BY <2>10, <2>11
<1>12. CASE WriteRecvLength
  <2>1. hw.state = "WRITE_RECV_LENGTH" /\ recvFifo # << >> /\ hw.rden /\ recvFifo[1].mark = "length"
    BY <1>12 DEF CopyInv, WriteRecvLength
  <2>2. hw'.rden = FALSE /\ hw'.wren /\ hw'.addr = RecvLen /\ hw'.state = "WRITE_RECV_TAG"
    BY <1>1, <1>12 DEF WriteRecvLength, HwRec
  <2>3. /\ recvFifo' # << >> => recvFifo'[1].mark = "head"
        /\ recvFifo' = << >> /\ wren' => din'.mark = "head"
    BY <1>2, <1>3, <2>1 DEF Follows
  <2> QED
    BY <2>2, <2>3 DEF CopyInv, Between, AccessInv, RecvLen
<1>13. CASE WriteRecvTag
  <2>1. /\ hw.state = "WRITE_RECV_TAG" /\ hw'.wren /\ hw'.addr = RecvTag /\ hw'.state = "IDLE"
        /\ hw'.din = Number(1) /\ hw'.rden = hw.rden
    BY <1>1, <1>13 DEF WriteRecvTag, HwRec
  <2>2. CopyInv'
    BY <1>7, <2>1
  <2> QED
    BY <2>1, <2>2 DEF AccessInv, RecvTag, Number, Cell
<1>14. CASE CheckSend
  <2>1. /\ hw.state = "CHECK_SEND" /\ hw'.rden = hw.rden /\ hw'.wren = hw.wren
        /\ hw'.state \in {"READ_SEND_LENGTH", "IDLE"}
    BY <1>1, <1>14 DEF CheckSend, HwRec
  <2>2. CopyInv' /\ ~hw.wren
    BY <1>6, <1>7, <2>1
  <2> QED
    BY <2>1, <2>2 DEF AccessInv
<1>15. CASE ReadSendLength
  <2>1. /\ hw.state = "READ_SEND_LENGTH" /\ hw'.rden = hw.rden /\ hw'.wren = hw.wren
        /\ hw'.state = "READ_SEND_PKT"
    BY <1>1, <1>15 DEF ReadSendLength, HwRec
  <2>2. CopyInv' /\ ~hw.wren
    BY <1>6, <1>7, <2>1
  <2> QED
    BY <2>1, <2>2 DEF AccessInv
<1>16. CASE ReadSendPkt
  <2>1. hw.state = "READ_SEND_PKT" /\ ~hw.wren
    BY <1>6, <1>16 DEF ReadSendPkt
  <2>2. /\ hw'.rden = hw.rden
        /\ \/ hw'.state = "IDLE" /\ hw'.wren /\ hw'.addr = SendTag /\ hw'.din = Number(0)
           \/ hw'.state = "READ_SEND_PKT" /\ hw'.wren = hw.wren
    BY <1>1, <1>16 DEF ReadSendPkt, HwRec
  <2>3. CopyInv'
    BY <1>7, <2>1, <2>2
  <2> QED
    BY <2>1, <2>2, <2>3 DEF AccessInv, SendTag, Number, Cell
<1> QED
  BY <1>8, <1>9, <1>10, <1>11, <1>12, <1>13, <1>14, <1>15, <1>16 DEF CheckPkt

(* How the states of the hardware follow one another. *)
LEMMA HwMoves ==
  ASSUME TypeInv, AccessInv, CheckPkt, AccessInv'
  PROVE  /\ hw'.state = "WAIT_2" => /\ hw.state = "WAIT_1" /\ hw'.addr = hw.addr + 1
                                    /\ hw.addr \in {RecvTag, SendTag}
         /\ hw'.state = "CHECK_RECV" => hw.state = "WAIT_2" /\ hw.addr < Half
         /\ hw'.state = "CHECK_SEND" => hw.state = "WAIT_2" /\ hw.addr >= Half
         /\ hw'.state \in {"WRITE_RECV_PKT", "WRITE_RECV_LENGTH", "WRITE_RECV_TAG"} =>
              \/ hw.state \in {"WRITE_RECV_PKT", "WRITE_RECV_LENGTH", "WRITE_RECV_TAG"}
              \/ hw.state = "CHECK_RECV" /\ dout.val % 2 = 0
         /\ hw'.state \in {"READ_SEND_LENGTH", "READ_SEND_PKT"} =>
              \/ hw.state \in {"READ_SEND_LENGTH", "READ_SEND_PKT"}
              \/ hw.state = "CHECK_SEND" /\ dout.val % 2 = 1
         /\ hw'.wren /\ hw'.addr = RecvTag => hw.state = "WRITE_RECV_TAG"
         /\ hw.wren => hw.state \in {"IDLE", "WRITE_RECV_PKT", "WRITE_RECV_LENGTH", "WRITE_RECV_TAG"}
<1>1. /\ hw \in HwRec /\ hw' \in HwRec /\ Half \in Nat /\ Half > 2
      /\ hw.addr \in Nat /\ hw.addr < 2 * Half /\ Q \in Nat /\ Q > 1 /\ hw.count \in 0 .. Q - 1
  BY HwType, Sizes DEF TypeInv, HwRec, Addresses
<1>2. hw.wren => hw.state \in {"IDLE", "WRITE_RECV_PKT", "WRITE_RECV_LENGTH", "WRITE_RECV_TAG"}
  BY DEF AccessInv
<1>3. CASE Idle
  BY <1>1, <1>2, <1>3 DEF Idle, HwRec
<1>4. CASE Wait
  <2>1. /\ hw.state \in {"WAIT_1", "WAIT_2"} /\ hw'.wren = hw.wren /\ hw'.addr = NextAddr
        /\ hw.state = "WAIT_1" => hw'.state = "WAIT_2"
        /\ hw.state = "WAIT_2" => hw'.state = IF hw.addr < Half THEN "CHECK_RECV" ELSE "CHECK_SEND"
    BY <1>1, <1>4 DEF Wait, HwRec
  <2>2. hw.state = "WAIT_1" =>
          /\ hw.addr \in {RecvTag, SendTag} /\ hw.addr + 1 < 2 * Half
    BY <1>1 DEF AccessInv, RecvTag, SendTag
  <2>3. hw.state = "WAIT_1" => hw'.addr = hw.addr + 1
    BY <1>1, <2>1, <2>2, NextAddrOk
  <2> QED
    BY <1>1, <1>2, <2>1, <2>2, <2>3
<1>5. CASE CheckRecv
  BY <1>1, <1>2, <1>5 DEF CheckRecv, HwRec
<1>6. CASE WriteRecvPkt
  <2>1. /\ hw.state = "WRITE_RECV_PKT" /\ hw'.addr = NextAddr
        /\ hw'.state \in {"WRITE_RECV_PKT", "WRITE_RECV_LENGTH"}
    BY <1>1, <1>6 DEF WriteRecvPkt, HwRec
  <2>2. ~(hw'.wren /\ hw'.addr = RecvTag)
    BY <1>1, <2>1 DEF AccessInv, RecvTag, RecvPkt
  <2> QED
    BY <1>2, <2>1, <2>2
<1>7. CASE WriteRecvLength
  BY <1>1, <1>2, <1>7 DEF WriteRecvLength, HwRec, RecvLen, RecvTag
<1>8. CASE WriteRecvTag
  BY <1>1, <1>2, <1>8 DEF WriteRecvTag, HwRec
<1>9. CASE CheckSend
  BY <1>1, <1>2, <1>9 DEF CheckSend, HwRec
<1>10. CASE ReadSendLength
  BY <1>1, <1>2, <1>10 DEF ReadSendLength, HwRec
<1>11. CASE ReadSendPkt
  <2>1. hw.state = "READ_SEND_PKT" /\ ~hw.wren
    BY <1>2, <1>11 DEF ReadSendPkt
  <2>2. \/ hw'.state = "IDLE" /\ hw'.wren /\ hw'.addr = SendTag
        \/ hw'.state = "READ_SEND_PKT" /\ hw'.wren = hw.wren
    BY <1>1, <1>11 DEF ReadSendPkt, HwRec
  <2> QED
    BY <1>1, <2>1, <2>2 DEF SendTag, RecvTag
<1> QED
  BY <1>3, <1>4, <1>5, <1>6, <1>7, <1>8, <1>9, <1>10, <1>11 DEF CheckPkt

(* A tag is changed by the side the mailbox belongs to, and neither side    *)
(* acts on a tag that is out of date.                                       *)
LEMMA TagInvStep ==
  ASSUME TypeInv, AccessInv, TagInv, NEW go \in BOOLEAN, CheckPkt, Driver(go), AccessInv'
  PROVE  TagInv'
<1>1. /\ RecvTag = 0 /\ RecvLen = 1 /\ RecvPkt = 2 /\ SendTag = Half /\ Half \in Nat /\ Half > 2
      /\ hw.addr \in Nat
  BY Sizes DEF RecvTag, RecvLen, RecvPkt, SendTag, TypeInv, HwRec, Addresses
<1>2. /\ Number(0).val % 2 = 0 /\ Number(1).val % 2 = 1 /\ Number(0) # Number(1) /\ Number(2) # Number(1)
  BY DEF Number, Cell
<1>3. /\ hw.wren /\ hw.addr = SendTag => hw.din = Number(0) /\ hw.state = "IDLE"
      /\ hw.wren /\ hw.addr = RecvTag => hw.din = Number(1) /\ hw.state = "IDLE"
  BY <1>1 DEF AccessInv
<1>4. /\ dout' = ramQ
      /\ ram'[SendTag] = IF hw.wren /\ hw.addr = SendTag THEN hw.din
                            ELSE IF pc = "fire" /\ pc' = "spin" THEN Number(1) ELSE ram[SendTag]
      /\ ram'[RecvTag] = IF hw.wren /\ hw.addr = RecvTag THEN hw.din
                            ELSE IF pc = "release" /\ pc' = "app" THEN Number(2) ELSE ram[RecvTag]
      /\ hw.addr = RecvTag => ramQ' = ram[RecvTag] \/ (pc = "release" /\ pc' = "app")
      /\ hw.addr = SendTag =>
           ramQ' = ram[SendTag] \/ (pc = "fire" /\ pc' = "spin" /\ ramQ' = Number(1))
      /\ pc' \in {"len", "copy", "release"} =>
           pc \in {"len", "copy", "release"} \/ Number(1) \in SeesAt(RecvTag)
      /\ pc' \in {"fill", "fire"} => pc \in {"fill", "fire"} \/ ram[SendTag] # Number(1)
  BY TagStep
<1>5. /\ ram[SendTag] \in {Number(0), Number(1)}
      /\ ram[RecvTag] = Number(1) =>
           /\ hw.state = "WAIT_2" /\ hw.addr < Half => ramQ = Number(1)
           /\ hw.state = "CHECK_RECV" => dout = Number(1)
           /\ hw.state \notin {"WRITE_RECV_PKT", "WRITE_RECV_LENGTH", "WRITE_RECV_TAG"}
           /\ ~(hw.wren /\ hw.addr = RecvTag)
      /\ hw.state = "WAIT_2" /\ hw.addr >= Half => ramQ \in {Number(0), ram[SendTag]}
      /\ hw.state = "CHECK_SEND" => dout \in {Number(0), ram[SendTag]}
      /\ hw.state \in {"READ_SEND_LENGTH", "READ_SEND_PKT"} => ram[SendTag] = Number(1)
      /\ pc \in {"len", "copy", "release"} => ram[RecvTag] = Number(1)
      /\ pc \in {"fill", "fire"} => ram[SendTag] # Number(1)
  BY DEF TagInv
<1> HIDE DEF RecvTag, SendTag
<1>6. ram'[SendTag] \in {Number(0), Number(1)}
  BY <1>3, <1>4, <1>5
<1>7. ASSUME ram'[RecvTag] = Number(1)
      PROVE  /\ hw'.state = "WAIT_2" /\ hw'.addr < Half => ramQ' = Number(1)
             /\ hw'.state = "CHECK_RECV" => dout' = Number(1)
             /\ hw'.state \notin {"WRITE_RECV_PKT", "WRITE_RECV_LENGTH", "WRITE_RECV_TAG"}
             /\ ~(hw'.wren /\ hw'.addr = RecvTag)
  <2>1. CASE hw.wren /\ hw.addr = RecvTag
    BY <1>3, <2>1, HwMoves
  <2>2. CASE ~(hw.wren /\ hw.addr = RecvTag)
    <3>1. ram[RecvTag] = Number(1) /\ ~(pc = "release" /\ pc' = "app")
      BY <1>2, <1>4, <1>7, <2>2
    <3>2. hw'.state = "WAIT_2" /\ hw'.addr < Half => ramQ' = Number(1)
      <4>1. hw'.state = "WAIT_2" /\ hw'.addr < Half => hw.addr = RecvTag
        BY <1>1, HwMoves
      <4> QED
        BY <1>4, <3>1, <4>1
    <3>3. hw'.state = "CHECK_RECV" => dout' = Number(1)
      BY <1>4, <1>5, <3>1, HwMoves
    <3>4. hw'.state \notin {"WRITE_RECV_PKT", "WRITE_RECV_LENGTH", "WRITE_RECV_TAG"}
      <4>1. hw.state = "CHECK_RECV" => dout.val % 2 = 1
        BY <1>2, <1>5, <3>1
      <4>2. hw.state = "CHECK_RECV" => ~(dout.val % 2 = 0)
        BY <4>1
      <4> QED
        BY <1>5, <3>1, <4>2, HwMoves
    <3>5. ~(hw'.wren /\ hw'.addr = RecvTag)
      BY <1>5, <3>1, HwMoves
    <3> QED
      BY <3>2, <3>3, <3>4, <3>5
  <2> QED
    BY <2>1, <2>2
<1>8. hw'.state = "WAIT_2" /\ hw'.addr >= Half => ramQ' \in {Number(0), ram'[SendTag]}
  <2> SUFFICES ASSUME hw'.state = "WAIT_2", hw'.addr >= Half
               PROVE  ramQ' \in {Number(0), ram'[SendTag]}
    OBVIOUS
  <2>1. hw.state = "WAIT_1" /\ hw.addr = SendTag /\ ~hw.wren
    BY <1>1, HwMoves
  <2>2. CASE pc = "fire" /\ pc' = "spin"
    BY <1>4, <1>5, <2>1, <2>2
  <2>3. CASE ~(pc = "fire" /\ pc' = "spin")
    BY <1>4, <2>1, <2>3
  <2> QED
    BY <2>2, <2>3
<1>9. hw'.state = "CHECK_SEND" => dout' \in {Number(0), ram'[SendTag]}
  <2> SUFFICES ASSUME hw'.state = "CHECK_SEND"
               PROVE  dout' \in {Number(0), ram'[SendTag]}
    OBVIOUS
  <2>1. hw.state = "WAIT_2" /\ hw.addr >= Half /\ ~hw.wren
    BY HwMoves
  <2>2. dout' \in {Number(0), ram[SendTag]}
    BY <1>4, <1>5, <2>1
  <2> QED
    BY <1>4, <1>5, <2>1, <2>2
<1>10. hw'.state \in {"READ_SEND_LENGTH", "READ_SEND_PKT"} => ram'[SendTag] = Number(1)
  <2> SUFFICES ASSUME hw'.state \in {"READ_SEND_LENGTH", "READ_SEND_PKT"}
               PROVE  ram'[SendTag] = Number(1)
    OBVIOUS
  <2>1. ~hw.wren /\ ram[SendTag] = Number(1)
    <3>1. CASE hw.state \in {"READ_SEND_LENGTH", "READ_SEND_PKT"}
      BY <1>5, <3>1, HwMoves
    <3>2. CASE hw.state = "CHECK_SEND" /\ dout.val % 2 = 1
      <4>1. dout # Number(0)
        BY <1>2, <3>2
      <4> QED
        BY <1>2, <1>5, <3>2, <4>1, HwMoves
    <3> QED
      BY <3>1, <3>2, HwMoves
  <2> QED
    BY <1>4, <2>1
<1>11. pc' \in {"len", "copy", "release"} => ram'[RecvTag] = Number(1)
  <2> SUFFICES ASSUME pc' \in {"len", "copy", "release"}
               PROVE  ram'[RecvTag] = Number(1)
    OBVIOUS
  <2>1. CASE hw.wren /\ hw.addr = RecvTag
    BY <1>3, <1>4, <2>1
  <2>2. CASE ~(hw.wren /\ hw.addr = RecvTag)
    <3>1. ram[RecvTag] = Number(1)
      BY <1>4, <1>5, <2>2 DEF SeesAt
    <3> QED
      BY <1>4, <2>2, <3>1
  <2> QED
    BY <2>1, <2>2
<1>12. pc' \in {"fill", "fire"} => ram'[SendTag] # Number(1)
  BY <1>2, <1>3, <1>4, <1>5
<1>13. /\ RecvTag' = RecvTag /\ SendTag' = SendTag /\ Number(0)' = Number(0) /\ Number(1)' = Number(1)
  BY DEF RecvTag, SendTag, Number, Cell
<1> QED
  BY <1>6, <1>7, <1>8, <1>9, <1>10, <1>11, <1>12, <1>13 DEF TagInv
-----------------------------------------------------------------------------
LEMMA MInvInit ==
  ASSUME Init
  PROVE  MInv
<1>1. /\ Q \in Nat /\ Q > 1 /\ Half \in Nat /\ Half > 2 /\ Gap \in Nat
  BY Sizes
<1>2. Number(0) \in CellRec /\ Number(0) # Number(1) /\ NoWord \in WordRec
  BY DEF Number, Cell, CellRec, NoWord, Arriving, WordRec, Marks
<1>3. NoCells \in [0 .. Q - 1 -> CellRec]
  BY <1>2 DEF NoCells
<1>4. Leaving("tail", 0, NoCells) \in LeavingRec
  BY <1>3 DEF Leaving, LeavingRec
<1>5. HwReset \in HwRec
  BY <1>1, <1>2, <1>4 DEF HwReset, HwRec, HwStates, Addresses
<1>6. HwReset.state = "IDLE" /\ HwReset.rden = FALSE /\ HwReset.wren = FALSE
  BY DEF HwReset
<1>7. /\ ram = [a \in Addresses |-> Number(0)] /\ ram \in [Addresses -> CellRec]
      /\ ramQ = Number(0) /\ dout = Number(0)
  BY <1>2 DEF Init, Addresses
<1>8. TypeInv
  <2>1. /\ pkt \in [id : Nat, len : Nat, mine : BOOLEAN] /\ left \in Nat /\ idle \in Nat
        /\ wren \in BOOLEAN /\ recvLength \in Nat /\ recvFifo \in Seq(WordRec)
        /\ pc = "app" /\ i \in Nat /\ len \in Nat /\ made \in Nat
    <3>1. /\ pkt = [id |-> 0, len |-> 0, mine |-> FALSE] /\ left = 0 /\ idle = Gap
          /\ wren = FALSE /\ recvLength = 0 /\ recvFifo = << >>
          /\ pc = "app" /\ i = 0 /\ len = 0 /\ made = 0
      BY DEF Init
    <3>2. recvFifo \in Seq(WordRec)
      BY <3>1
    <3> QED
      BY <1>1, <3>1, <3>2
  <2>2. din = NoWord /\ hw = HwReset
    BY DEF Init
  <2> QED
    BY <1>2, <1>5, <1>7, <2>1, <2>2 DEF TypeInv
<1>9. recvFifo = << >> /\ Len(recvFifo) = 0 /\ wren = FALSE /\ left = 0 /\ hw = HwReset /\ pc = "app"
  BY DEF Init
<1>10. LineInv /\ FifoInv
  BY <1>9 DEF LineInv, FifoInv
<1>11. CopyInv /\ AccessInv
  BY <1>6, <1>9 DEF CopyInv, AccessInv, Between
<1>12. ram[SendTag] = Number(0) /\ ram[RecvTag] = Number(0)
  BY <1>1, <1>7 DEF SendTag, RecvTag, Addresses
<1>13. TagInv
  BY <1>2, <1>6, <1>9, <1>12 DEF TagInv
<1> QED
  BY <1>8, <1>10, <1>11, <1>13 DEF MInv

LEMMA MInvRestart ==
  ASSUME MInv, Restart
  PROVE  MInv'
<1>1. /\ Q \in Nat /\ Q > 1 /\ Half \in Nat /\ Half > 2 /\ Gap \in Nat
  BY Sizes
<1>2. Number(0) \in CellRec /\ NoWord \in WordRec
  BY DEF Number, Cell, CellRec, NoWord, Arriving, WordRec, Marks
<1>3. NoCells \in [0 .. Q - 1 -> CellRec]
  BY <1>2 DEF NoCells
<1>4. Leaving("tail", 0, NoCells) \in LeavingRec
  BY <1>3 DEF Leaving, LeavingRec
<1>5. HwReset \in HwRec
  BY <1>1, <1>2, <1>4 DEF HwReset, HwRec, HwStates, Addresses
<1>6. HwReset.state = "IDLE" /\ HwReset.rden = FALSE /\ HwReset.wren = FALSE
  BY DEF HwReset
<1>7. /\ TypeInv /\ ram \in [Addresses -> CellRec] /\ ram[RecvTag] \in CellRec
  BY <1>1 DEF MInv, TypeInv, RecvTag, Addresses
<1>8. /\ din' = NoWord /\ wren' = FALSE /\ recvLength' = 0 /\ recvFifo' = << >> /\ hw' = HwReset
      /\ pc' = "app" /\ i' = 0 /\ len' = 0 /\ ramQ' = ram[RecvTag] /\ dout' = ram[RecvTag]
      /\ idle' = (IF left = 0 THEN Gap ELSE idle)
      /\ pkt' = pkt /\ left' = left /\ ram' = ram /\ made' = made
  BY DEF Restart
<1>9. TypeInv'
  <2>1. /\ pkt \in [id : Nat, len : Nat, mine : BOOLEAN] /\ left \in Nat /\ idle \in Nat /\ made \in Nat
    BY <1>7 DEF TypeInv
  <2>2. recvFifo' \in Seq(WordRec) /\ idle' \in Nat /\ wren' \in BOOLEAN /\ recvLength' \in Nat
    <3>1. recvFifo' \in Seq(WordRec)
      BY <1>8
    <3>2. idle' \in Nat
      BY <1>1, <1>8, <2>1
    <3> QED
      BY <1>8, <3>1, <3>2
  <2>3. din' \in WordRec /\ hw' \in HwRec /\ ram' \in [Addresses -> CellRec]
        /\ ramQ' \in CellRec /\ dout' \in CellRec
    BY <1>2, <1>5, <1>7, <1>8
  <2>4. pkt' \in [id : Nat, len : Nat, mine : BOOLEAN] /\ left' \in Nat /\ made' \in Nat
        /\ i' \in Nat /\ len' \in Nat /\ pc' = "app"
    BY <1>8, <2>1
  <2> QED
    BY <2>2, <2>3, <2>4 DEF TypeInv
<1>10. LineInv' /\ FifoInv'
  BY <1>8 DEF MInv, LineInv, FifoInv
<1>11. CopyInv' /\ AccessInv'
  BY <1>6, <1>8 DEF CopyInv, AccessInv, Between
<1>12. TagInv'
  <2>1. ram[SendTag] \in {Number(0), Number(1)}
    BY DEF MInv, TagInv
  <2> QED
    BY <1>6, <1>8, <2>1 DEF TagInv, SendTag, RecvTag, Number, Cell
<1> QED
  BY <1>9, <1>10, <1>11, <1>12 DEF MInv

LEMMA MInvClock ==
  ASSUME MInv, NEW start \in BOOLEAN, NEW go \in BOOLEAN, Clock(start, go)
  PROVE  MInv'
<1>1. /\ Line(start) /\ Receive /\ ReceiveFifo /\ CheckPkt /\ Driver(go)
      /\ TypeInv /\ LineInv /\ FifoInv /\ CopyInv /\ AccessInv /\ TagInv
  BY DEF Clock, MInv
<1>2. LineInv' /\ FifoInv'
  BY <1>1, LineStep, FifoShape
<1>3. CopyInv' /\ AccessInv'
  BY <1>1, CopyStep
<1>4. TagInv'
  BY <1>1, <1>3, TagInvStep
<1>5. TypeInv'
  <2>1. /\ pkt' \in [id : Nat, len : Nat, mine : BOOLEAN] /\ left' \in Nat /\ idle' \in Nat
        /\ din' \in WordRec /\ wren' \in BOOLEAN /\ recvLength' \in Nat
    BY <1>1, LineStep
  <2>2. recvFifo' \in Seq(WordRec) /\ hw' \in HwRec
    BY <1>1, FifoStep, HwType
  <2>3. /\ ram' \in [Addresses -> CellRec] /\ ramQ' \in CellRec /\ dout' \in CellRec
    BY <1>1, TagStep
  <2>4. /\ pc' \in {"app", "len", "copy", "release", "fill", "fire", "spin"}
        /\ i' \in Nat /\ len' \in Nat /\ made' \in Nat
    BY <1>1, DriverStep
  <2> QED
    BY <2>1, <2>2, <2>3, <2>4 DEF TypeInv
<1> QED
  BY <1>2, <1>3, <1>4, <1>5 DEF MInv

(* What arrives, waits and is copied keeps its place, and the tags keep     *)
(* their word: the inductive invariant of the theorems below.               *)
THEOREM Invariant == Spec => []MInv
<1>1. Init => MInv
  BY MInvInit
<1>2. MInv /\ [Next]_vars => MInv'
  <2> SUFFICES ASSUME MInv, [Next]_vars
               PROVE  MInv'
    OBVIOUS
  <2>1. CASE UNCHANGED vars
    BY <2>1 DEF vars, input, memory, driver, MInv, TypeInv, LineInv, WordOk, FifoInv, Follows,
                CopyInv, Between, AccessInv, TagInv, Number, Cell, RecvTag, SendTag
  <2>2. CASE Next
    BY <2>2, MInvRestart, MInvClock DEF Next
  <2> QED
    BY <2>1, <2>2
<1> QED
  BY <1>1, <1>2, PTL DEF Spec

(* Neither side writes into a mailbox that belongs to the other, for        *)
(* mailboxes of any size, whatever the pace of the driver and however often *)
(* conf_sel starts all of it anew while the RAM keeps its tags.             *)
THEOREM TheMailboxIsOwned == Spec => []MailboxOwned
<1>1. MInv => MailboxOwned
  <2> SUFFICES ASSUME MInv
               PROVE  MailboxOwned
    OBVIOUS
  <2>1. RecvTag = 0 /\ SendTag = Half /\ Half \in Nat
    BY Sizes DEF RecvTag, SendTag
  <2>2. AccessInv /\ TagInv
    BY DEF MInv
  <2>3. pc \in {"len", "copy", "release"} => ~(hw.wren /\ hw.addr < Half)
    BY <2>1, <2>2 DEF AccessInv, TagInv
  <2>4. pc \in {"fill", "fire"} => hw.state \notin {"READ_SEND_LENGTH", "READ_SEND_PKT"}
    BY <2>2 DEF TagInv
  <2> QED
    BY <2>3, <2>4 DEF MailboxOwned
<1> QED
  BY <1>1, Invariant, PTL

(* fifo_pktRecv, whose full is not connected, has room for every word that  *)
(* is written into it, and is read only when it has a word to show, though  *)
(* the copy starts before its packet is complete.                           *)
THEOREM ReceiveFifoIsSound == Spec => []ReceiveFifoSound
<1>1. MInv => ReceiveFifoSound
  <2> SUFFICES ASSUME MInv
               PROVE  ReceiveFifoSound
    OBVIOUS
  <2>1. hw.rden => recvFifo # << >>
    BY DEF MInv, CopyInv, Between
  <2>2. Len(recvFifo) \in Nat /\ Cap \in Nat /\ left \in Nat
    BY Sizes DEF MInv, TypeInv
  <2>3. wren => Len(recvFifo) < Cap
    BY <2>2 DEF MInv, LineInv, WordOk, Words
  <2> QED
    BY <2>1, <2>3 DEF ReceiveFifoSound
<1> QED
  BY <1>1, Invariant, PTL
-----------------------------------------------------------------------------
LEMMA TakenStep ==
  ASSUME MInv, taken \in Seq(Nat \X Lengths), NEW start \in BOOLEAN, Line(start), Receive
  PROVE  /\ taken' \in Seq(Nat \X Lengths) /\ Len(taken) <= Len(taken')
         /\ \A m \in 1 .. Len(taken) : taken'[m] = taken[m]
         /\ TakesHead => /\ left > 0 /\ Len(taken') = Len(taken) + 1
                         /\ taken'[Len(taken')] = <<pkt.id, pkt.len>>
         /\ ~TakesHead => taken' = taken
<1>1. left \in Nat /\ pkt.id \in Nat /\ Len(taken) \in Nat
  BY DEF MInv, TypeInv
<1>2. TakesHead => left > 0 /\ pkt.len \in Lengths
  <2>1. left = 0 => ~TakesHead
    BY DEF TakesHead, DataIn, DataValid, NoWord, Arriving
  <2> QED
    BY <1>1, <2>1 DEF MInv, LineInv
<1> DEFINE p == <<pkt.id, pkt.len>>
<1>3. taken' = IF TakesHead THEN Append(taken, p) ELSE taken
  BY DEF Receive
<1>4. TakesHead => p \in Nat \X Lengths
  BY <1>1, <1>2
<1> HIDE DEF p
<1>5. CASE TakesHead
  <2>1. taken' = Append(taken, p) /\ p \in Nat \X Lengths
    BY <1>3, <1>4, <1>5
  <2> QED
    BY <1>1, <1>2, <1>5, <2>1 DEF p
<1>6. CASE ~TakesHead
  BY <1>1, <1>3, <1>6
<1> QED
  BY <1>5, <1>6

(* A word keeps its packet when more are taken. *)
LEMMA WordIsKept ==
  ASSUME MInv, taken \in Seq(Nat \X Lengths), NEW start \in BOOLEAN, Line(start), Receive,
         NEW w, NEW m, WordIs(w, m)
  PROVE  /\ m \in 1 .. Len(taken')
         /\ w.mark \in Words =>
              /\ w.pkt = taken'[m][1] /\ w.idx < WordsOf(taken'[m][2])
              /\ w.mark = "tail" <=> w.idx + 1 = WordsOf(taken'[m][2])
         /\ w.mark = "length" => w.n = taken'[m][2]
<1>1. m \in 1 .. Len(taken) /\ Len(taken) \in Nat /\ Len(taken') \in Nat
  BY TakenStep DEF WordIs
<1>2. m \in 1 .. Len(taken') /\ taken'[m] = taken[m]
  BY <1>1, TakenStep
<1> QED
  BY <1>2 DEF WordIs

(* The word that is pushed next and the packet it is of. *)
LEMMA LengthStep ==
  ASSUME MInv, taken \in Seq(Nat \X Lengths), LengthInv,
         NEW start \in BOOLEAN, Line(start), Receive, ReceiveFifo
  PROVE  LengthInv' /\ End' = End + (IF wren THEN After(din) ELSE 0)
<1>1. /\ TypeInv /\ LineInv /\ left \in Nat /\ wren \in BOOLEAN /\ Len(taken) \in Nat
      /\ Len(taken') \in Nat /\ Q \in Nat /\ din.idx \in Nat
  BY Sizes, TakenStep DEF MInv, TypeInv, WordRec
<1>2. /\ wren' = (TakesHead \/ (~TakesHead /\ wren /\ din.mark = "tail") \/ (wren /\ DataValid))
      /\ din' = IF ~TakesHead /\ wren /\ din.mark = "tail"
                THEN Arriving(0, 0, "length", recvLength + din.n) ELSE DataIn
      /\ recvLength' = IF TakesHead THEN 0 ELSE IF wren THEN recvLength + Q ELSE recvLength
  BY DEF Receive
<1>3. left > 0 => LET W == WordsOf(pkt.len)
         IN /\ W \in Nat /\ W >= 2 /\ Thr + W <= Cap /\ pkt.len \in Lengths
            /\ DataIn \in WordRec /\ DataIn.pkt = pkt.id /\ DataIn.idx + left = W
            /\ WordOk(DataIn) /\ DataIn.mark \in Words
            /\ DataIn.mark = "head" <=> left = W
            /\ DataIn.mark = "tail" <=> left = 1
            /\ DataIn.mark = "tail" => DataIn.idx * Q + DataIn.n = pkt.len
  BY <1>1, DataInOk
<1>4. CASE TakesHead
  <2>1. left > 0 /\ DataIn.mark = "head" /\ Len(taken') = Len(taken) + 1
        /\ taken'[Len(taken')] = <<pkt.id, pkt.len>>
    BY <1>4, TakenStep DEF TakesHead
  <2>2. pkt' = pkt /\ ~wren /\ wren' /\ din' = DataIn /\ recvLength' = 0
    <3>1. pkt' = pkt
      BY <2>1 DEF Line, DataValid
    <3>2. ~wren
      BY <1>1, <1>3, <2>1 DEF LineInv, WordOk, Words
    <3> QED
      BY <1>2, <1>4, <3>1, <3>2
  <2>3. /\ DataIn.idx \in Nat /\ DataIn.idx = 0 /\ DataIn.idx < WordsOf(pkt.len) /\ DataIn.pkt = pkt.id
        /\ DataIn.idx + 1 # WordsOf(pkt.len) /\ DataIn.idx * Q = 0
    BY <1>1, <1>3, <2>1 DEF WordRec
  <2>4. WordIs(din, Len(taken))'
    BY <1>1, <2>1, <2>2, <2>3 DEF WordIs
  <2>5. LengthInv'
    BY <2>1, <2>2, <2>3, <2>4 DEF LengthInv
  <2> QED
    BY <1>1, <2>1, <2>2, <2>5 DEF End
<1>5. CASE ~TakesHead /\ left > 0 /\ wren
  <2>1. /\ din.mark \in {"head", "body"} /\ din.pkt = pkt.id
        /\ din.idx + 1 + left = WordsOf(pkt.len)
    BY <1>1, <1>5 DEF LineInv, WordOk, Words
  <2>2. taken' = taken /\ pkt' = pkt /\ wren' /\ din' = DataIn /\ recvLength' = recvLength + Q
    BY <1>2, <1>5, <2>1, TakenStep DEF Line, DataValid
  <2>3. /\ Len(taken) \in 1 .. Len(taken) /\ taken[Len(taken)] = <<pkt.id, pkt.len>>
        /\ recvLength = din.idx * Q
    BY <1>5, <2>1 DEF LengthInv, WordIs, Words
  <2>4. DataIn.idx \in Nat /\ DataIn.idx = din.idx + 1
    <3>1. DataIn.idx \in Nat
      BY <1>3, <1>5 DEF WordRec
    <3> QED
      BY <1>1, <1>3, <1>5, <2>1, <3>1
  <2>5. recvLength' = DataIn.idx * Q
    BY <1>1, <2>2, <2>3, <2>4, SumOfWord
  <2>6. DataIn.idx < WordsOf(pkt.len) /\ (DataIn.mark = "tail" <=> DataIn.idx + 1 = WordsOf(pkt.len))
        /\ DataIn.mark \in Words /\ DataIn.pkt = pkt.id
        /\ (DataIn.mark = "tail" => DataIn.idx * Q + DataIn.n = pkt.len)
    BY <1>1, <1>3, <1>5, <2>4
  <2>7. WordIs(din, Len(taken))'
    BY <2>2, <2>3, <2>6 DEF WordIs, Words
  <2>8. LengthInv'
    BY <2>2, <2>3, <2>5, <2>6, <2>7 DEF LengthInv
  <2> QED
    BY <1>1, <1>5, <2>1, <2>2, <2>8 DEF End, After
<1>6. CASE ~TakesHead /\ left = 0 /\ wren /\ din.mark = "tail"
  <2>1. /\ taken' = taken /\ wren' /\ din' = Arriving(0, 0, "length", recvLength + din.n)
        /\ din'.mark = "length" /\ din'.n = recvLength + din.n
    BY <1>2, <1>6, TakenStep DEF Arriving
  <2>2. recvLength + din.n = taken[Len(taken)][2] /\ Len(taken) \in 1 .. Len(taken)
    BY <1>6 DEF LengthInv, WordIs
  <2>3. LengthInv'
    BY <2>1, <2>2 DEF LengthInv, WordIs, Words
  <2> QED
    BY <1>1, <1>6, <2>1, <2>3 DEF End, After
<1>7. CASE ~TakesHead /\ (wren => left = 0 /\ din.mark # "tail")
  <2>1. taken' = taken /\ ~wren'
    <3>1. ~(wren /\ din.mark = "tail") /\ ~(wren /\ left > 0)
      BY <1>1, <1>7
    <3>2. wren' = FALSE
      BY <1>2, <1>7, <3>1 DEF DataValid
    <3> QED
      BY <1>7, <3>2, TakenStep
  <2>2. wren => din.mark = "length"
    BY <1>1, <1>7 DEF LineInv, WordOk, Words
  <2> QED
    BY <1>1, <2>1, <2>2 DEF LengthInv, End, After
<1> QED
  BY <1>1, <1>4, <1>5, <1>6, <1>7

(* Whose packet is in the mailbox, and which one comes next. *)
LEMMA TurnStep ==
  ASSUME MInv, MInv', got \in Seq(Seq(CellRec)), NEW go \in BOOLEAN, CheckPkt, Driver(go),
         pc = "release" => buf \in Seq(CellRec)
  PROVE  /\ got' \in Seq(Seq(CellRec))
         /\ IF pc = "release" /\ pc' = "app" THEN got' = Append(got, buf) ELSE got' = got
         /\ Full' <=> (Delivers \/ (Full /\ ~(pc = "release" /\ pc' = "app")))
         /\ Full => ~Delivers /\ hw.state # "WRITE_RECV_TAG"
         /\ pc = "release" => Full
         /\ First' = First + (IF hw.state = "WRITE_RECV_LENGTH" THEN 1 ELSE 0)
         /\ ~Full /\ ~Delivers => Current' = Current /\ Current = Len(got) + 1
         /\ Delivers' <=> hw.state = "WRITE_RECV_TAG"
         /\ hw'.state = "WRITE_RECV_TAG" <=> hw.state = "WRITE_RECV_LENGTH"
<1>1. /\ TypeInv /\ AccessInv /\ TagInv /\ CopyInv /\ AccessInv'
      /\ hw \in HwRec /\ hw' \in HwRec /\ Half \in Nat /\ Half > 2 /\ RecvTag = 0 /\ RecvLen = 1
      /\ RecvPkt = 2 /\ SendTag = Half /\ Len(got) \in Nat
  BY Sizes DEF MInv, TypeInv, RecvTag, RecvLen, RecvPkt, SendTag
<1>2. Number(1) # Number(2)
  BY DEF Number, Cell
<1>3. IF pc = "release" /\ pc' = "app" THEN got' = Append(got, buf) ELSE got' = got
  BY DEF Driver, Read, Send, driver
<1>4. got' \in Seq(Seq(CellRec)) /\ Len(got') = Len(got) + (IF pc = "release" /\ pc' = "app" THEN 1 ELSE 0)
  <2> DEFINE S == Seq(CellRec)
  <2>1. got \in Seq(S) /\ (pc = "release" => buf \in S)
    OBVIOUS
  <2> HIDE DEF S
  <2>2. CASE pc = "release" /\ pc' = "app"
    <3>1. got' = Append(got, buf) /\ buf \in S
      BY <1>3, <2>1, <2>2
    <3>2. Append(got, buf) \in Seq(S) /\ Len(Append(got, buf)) = Len(got) + 1
      BY <2>1, <3>1
    <3> QED
      BY <2>2, <3>1, <3>2 DEF S
  <2>3. CASE ~(pc = "release" /\ pc' = "app")
    BY <1>1, <1>3, <2>1, <2>3 DEF S
  <2> QED
    BY <2>2, <2>3
<1>5. hw.wren /\ hw.addr = RecvTag => hw.state = "IDLE" /\ hw.din = Number(1)
  BY <1>1 DEF AccessInv
<1>6. ram'[RecvTag] = IF hw.wren /\ hw.addr = RecvTag THEN hw.din
                      ELSE IF pc = "release" /\ pc' = "app" THEN Number(2) ELSE ram[RecvTag]
  BY <1>1, TagStep
<1>7. Delivers <=> hw.wren /\ hw.addr = RecvTag
  BY <1>5 DEF Delivers
<1>8. Full' <=> ram'[RecvTag] = Number(1)
  BY DEF Full, RecvTag, Number, Cell
<1>9. Full' <=> (Delivers \/ (Full /\ ~(pc = "release" /\ pc' = "app")))
  BY <1>2, <1>5, <1>6, <1>7, <1>8 DEF Full
<1>10. /\ Full => ~Delivers /\ hw.state # "WRITE_RECV_TAG"
       /\ Full => hw.state \notin {"WRITE_RECV_PKT", "WRITE_RECV_LENGTH"}
       /\ pc = "release" => Full
  BY <1>1, <1>7 DEF TagInv, Full
<1>11. hw'.wren /\ hw'.addr = RecvTag <=> hw.state = "WRITE_RECV_TAG"
  <2>1. hw'.wren /\ hw'.addr = RecvTag => hw.state = "WRITE_RECV_TAG"
    BY <1>1, HwMoves
  <2>2. hw.state = "WRITE_RECV_TAG" => hw'.wren /\ hw'.addr = RecvTag /\ hw'.state = "IDLE"
    BY <1>1 DEF CheckPkt, Idle, Wait, CheckRecv, WriteRecvPkt, WriteRecvLength, WriteRecvTag,
                CheckSend, ReadSendLength, ReadSendPkt, HwRec
  <2> QED
    BY <2>1, <2>2
<1>12. Delivers' <=> hw.state = "WRITE_RECV_TAG"
  <2>1. hw'.wren /\ hw'.addr = RecvTag => hw'.state = "IDLE"
    BY <1>1 DEF AccessInv, RecvTag, RecvLen, RecvPkt
  <2>2. Delivers' <=> hw'.state = "IDLE" /\ hw'.wren /\ hw'.addr = RecvTag
    BY DEF Delivers, RecvTag
  <2> QED
    BY <1>11, <2>1, <2>2
<1>13. hw'.state = "WRITE_RECV_TAG" <=> hw.state = "WRITE_RECV_LENGTH"
  <2>1. CASE ReadSendPkt
    <3>1. hw.state = "READ_SEND_PKT" /\ hw'.state \in {"IDLE", "READ_SEND_PKT"}
      BY <1>1, <2>1 DEF ReadSendPkt, HwRec
    <3> QED
      BY <3>1
  <2>2. CASE WriteRecvPkt
    <3>1. hw.state = "WRITE_RECV_PKT" /\ hw'.state \in {"WRITE_RECV_PKT", "WRITE_RECV_LENGTH"}
      BY <1>1, <2>2 DEF WriteRecvPkt, HwRec
    <3> QED
      BY <3>1
  <2>3. CASE Idle \/ Wait \/ CheckRecv
    BY <1>1, <2>3 DEF Idle, Wait, CheckRecv, HwRec
  <2>4. CASE WriteRecvLength \/ WriteRecvTag \/ CheckSend \/ ReadSendLength
    BY <1>1, <2>4 DEF WriteRecvLength, WriteRecvTag, CheckSend, ReadSendLength, HwRec
  <2> QED
    BY <2>1, <2>2, <2>3, <2>4 DEF CheckPkt
<1>14. Current = Len(got) + (IF Full THEN 2 ELSE 1) /\ Current' = Len(got') + (IF Full' THEN 2 ELSE 1)
  BY DEF Current
<1>15. Current' = Current + (IF Delivers THEN 1 ELSE 0)
  <2>1. CASE pc = "release" /\ pc' = "app"
    BY <1>1, <1>4, <1>9, <1>10, <1>14, <2>1
  <2>2. CASE ~(pc = "release" /\ pc' = "app")
    <3>1. Len(got') = Len(got) /\ (Full' <=> Delivers \/ Full) /\ ~(Full /\ Delivers)
      BY <1>1, <1>4, <1>9, <1>10, <2>2
    <3>2. CASE Full
      BY <1>1, <1>14, <3>1, <3>2
    <3>3. CASE Delivers
      BY <1>1, <1>14, <3>1, <3>3
    <3>4. CASE ~Full /\ ~Delivers
      BY <1>1, <1>14, <3>1, <3>4
    <3> QED
      BY <3>2, <3>3, <3>4
  <2> QED
    BY <2>1, <2>2
<1>16. First' = Current' + (IF hw'.state = "WRITE_RECV_TAG" \/ Delivers' THEN 1 ELSE 0)
  BY DEF First
<1>17. First' = First + (IF hw.state = "WRITE_RECV_LENGTH" THEN 1 ELSE 0)
  <2>1. Current \in Nat
    BY <1>1, <1>14
  <2>2. Delivers => hw.state = "IDLE"
    BY DEF Delivers
  <2> QED
    BY <1>12, <1>13, <1>15, <1>16, <2>1, <2>2 DEF First
<1> QED
  BY <1>3, <1>4, <1>9, <1>10, <1>12, <1>13, <1>14, <1>15, <1>17

(* What waits are the packets taken and not copied yet, in their order. *)
LEMMA OrderStep ==
  ASSUME MInv, MInv', taken \in Seq(Nat \X Lengths), got \in Seq(Seq(CellRec)),
         pc = "release" => buf \in Seq(CellRec), OrderInv, LengthInv,
         NEW start \in BOOLEAN, NEW go \in BOOLEAN,
         Line(start), Receive, ReceiveFifo, CheckPkt, Driver(go)
  PROVE  OrderInv'
<1>1. /\ TypeInv /\ LineInv /\ FifoInv /\ CopyInv /\ wren \in BOOLEAN /\ Len(recvFifo) \in Nat
      /\ Len(recvFifo') \in Nat /\ Len(taken) \in Nat /\ Len(taken') \in Nat /\ Len(got) \in Nat
      /\ hw.rden \in BOOLEAN /\ recvFifo \in Seq(WordRec)
  <2>1. /\ TypeInv /\ LineInv /\ FifoInv /\ CopyInv /\ wren \in BOOLEAN
        /\ recvFifo \in Seq(WordRec) /\ recvFifo' \in Seq(WordRec) /\ hw.rden \in BOOLEAN
    BY DEF MInv, TypeInv, HwRec
  <2>2. taken' \in Seq(Nat \X Lengths)
    BY TakenStep
  <2>3. Len(taken) \in Nat /\ Len(got) \in Nat
    OBVIOUS
  <2> QED
    BY <2>1, <2>2, <2>3
<1>2. PICK s \in {0, 1} :
              /\ s <= Len(recvFifo) /\ (s = 1 <=> hw.rden /\ recvFifo # << >>)
              /\ Len(recvFifo') = Len(recvFifo) - s + (IF wren THEN 1 ELSE 0)
              /\ \A k \in 1 .. Len(recvFifo) - s : recvFifo'[k] = recvFifo[k + s]
              /\ wren => recvFifo'[Len(recvFifo')] = din
  BY <1>1, FifoStep
<1>3. PICK pos \in [1 .. Len(recvFifo) + 1 -> Nat] : Placed(pos)
  BY DEF OrderInv
<1> DEFINE L == Len(recvFifo)
           M == Len(recvFifo')
           q == [k \in 1 .. M + 1 |-> IF k + s <= L + 1 THEN pos[k + s] ELSE End']
           Is(w, m) == /\ m \in 1 .. Len(taken')
                       /\ w.mark \in Words =>
                            /\ w.pkt = taken'[m][1] /\ w.idx < WordsOf(taken'[m][2])
                            /\ w.mark = "tail" <=> w.idx + 1 = WordsOf(taken'[m][2])
                       /\ w.mark = "length" => w.n = taken'[m][2]
<1>4. /\ L \in Nat /\ M \in Nat /\ s <= L /\ M = L - s + (IF wren THEN 1 ELSE 0)
      /\ s = 1 => L > 0
      /\ \A k \in 1 .. L - s : recvFifo'[k] = recvFifo[k + s]
      /\ wren => recvFifo'[M] = din
  BY <1>1, <1>2
<1>5. /\ pos[1] = First /\ pos[L + 1] = End /\ pos \in [1 .. L + 1 -> Nat]
      /\ \A k \in 1 .. L : WordIs(recvFifo[k], pos[k]) /\ pos[k + 1] = pos[k] + After(recvFifo[k])
  BY <1>3 DEF Placed
<1>6. \A w, m : WordIs(w, m) => Is(w, m)
  BY WordIsKept
<1>7. /\ End \in Nat /\ End' \in Nat
      /\ wren => End = Len(taken) /\ WordIs(din, Len(taken)) /\ End' = End + After(din)
      /\ ~wren => End' = End
  <2>1. End \in Nat /\ End' \in Nat
    BY <1>1 DEF End
  <2>2. End' = End + (IF wren THEN After(din) ELSE 0)
    BY LengthStep
  <2> QED
    BY <1>1, <2>1, <2>2 DEF End, LengthInv
<1>8. /\ s = 0 => First' = First
      /\ s = 1 => First' = First + After(recvFifo[1])
  <2>1. First' = First + (IF hw.state = "WRITE_RECV_LENGTH" THEN 1 ELSE 0)
    BY TurnStep
  <2>2. hw.state = "WRITE_RECV_LENGTH" => s = 1 /\ recvFifo[1].mark = "length"
    BY <1>1, <1>2 DEF CopyInv
  <2>3. s = 1 /\ hw.state # "WRITE_RECV_LENGTH" => recvFifo[1].mark # "length"
    BY <1>1, <1>2 DEF CopyInv, Between, Words
  <2>4. First \in Nat
    <3>1. Current \in Nat
      BY <1>1 DEF Current
    <3> QED
      BY <3>1 DEF First
  <2> QED
    BY <2>1, <2>2, <2>3, <2>4 DEF After
<1>9. 1 .. Len(recvFifo)' + 1 = 1 .. M + 1
  OBVIOUS
<1> HIDE DEF L, M, Is
<1>10. q \in [1 .. M + 1 -> Nat]
  <2>1. \A k \in 1 .. M + 1 : k + s <= L + 1 => pos[k + s] \in Nat
    <3> TAKE k \in 1 .. M + 1
    <3> DEFINE n == k + s
    <3>1. n <= L + 1 => n \in 1 .. L + 1
      BY <1>4
    <3> HIDE DEF n
    <3>2. n <= L + 1 => pos[n] \in Nat
      BY <1>5, <3>1
    <3> QED
      BY <3>2 DEF n
  <2> QED
    BY <1>7, <2>1
<1>11. q[1] = First'
  <2>1. q[1] = pos[1 + s]
    BY <1>4
  <2>2. CASE s = 0
    BY <1>5, <1>8, <2>1, <2>2
  <2>3. CASE s = 1
    BY <1>4, <1>5, <1>8, <2>1, <2>3
  <2> QED
    BY <2>2, <2>3
<1>12. q[M + 1] = End'
  <2>1. CASE wren
    BY <1>4, <2>1
  <2>2. CASE ~wren
    BY <1>4, <1>5, <1>7, <2>2
  <2> QED
    BY <2>1, <2>2
<1>13. \A k \in 1 .. M : Is(recvFifo'[k], q[k]) /\ q[k + 1] = q[k] + After(recvFifo'[k])
  <2> TAKE k \in 1 .. M
  <2>1. q[k] = (IF k + s <= L + 1 THEN pos[k + s] ELSE End')
        /\ q[k + 1] = (IF k + 1 + s <= L + 1 THEN pos[k + 1 + s] ELSE End')
    BY <1>4
  <2> HIDE DEF q
  <2>2. CASE k <= L - s
    <3> DEFINE n == k + s
    <3>1. n \in 1 .. L /\ recvFifo'[k] = recvFifo[n] /\ q[k] = pos[n] /\ q[k + 1] = pos[n + 1]
      BY <1>4, <2>1, <2>2
    <3> HIDE DEF n
    <3> QED
      BY <1>5, <1>6, <3>1
  <2>3. CASE ~(k <= L - s)
    <3>1. wren /\ k = M /\ k + s = L + 1
      BY <1>1, <1>4, <2>3
    <3>2. recvFifo'[k] = din /\ q[k] = End /\ q[k + 1] = End'
      BY <1>4, <1>5, <2>1, <3>1
    <3> QED
      BY <1>6, <1>7, <3>1, <3>2
  <2> QED
    BY <2>2, <2>3
<1> HIDE DEF q
<1>14. \E p \in [1 .. M + 1 -> Nat] :
         /\ p[1] = First' /\ p[M + 1] = End'
         /\ \A k \in 1 .. M : Is(recvFifo'[k], p[k]) /\ p[k + 1] = p[k] + After(recvFifo'[k])
  BY <1>10, <1>11, <1>12, <1>13
<1> QED
  BY <1>14 DEF OrderInv, Placed, WordIs, Is, M, After

(* The driver writes nothing into the receive mailbox but its tag. *)
LEMMA MailRam ==
  ASSUME TypeInv, NEW go \in BOOLEAN, Driver(go), NEW b \in 1 .. Half - 1
  PROVE  ram'[b] = IF hw.wren /\ hw.addr = b THEN hw.din ELSE ram[b]
<1>1. /\ Half \in Nat /\ Half > 2 /\ RecvTag = 0 /\ SendTag = Half /\ b \in Addresses
      /\ b # RecvTag /\ b < SendTag
  BY Sizes DEF RecvTag, SendTag, Addresses
<1>2. CASE Memory({})
  BY <1>1, <1>2, MemoryNone
<1>3. ASSUME NEW a \in Nat, NEW v \in CellRec, a # b, Memory({<<a, v>>})
      PROVE  ram'[b] = IF hw.wren /\ hw.addr = b THEN hw.din ELSE ram[b]
  BY <1>1, <1>3, MemoryOne
<1>4. CASE Memory({<<RecvTag, Number(2)>>})
  <2>1. RecvTag \in Nat /\ RecvTag # b /\ Number(2) \in CellRec
    BY <1>1 DEF Number, Cell, CellRec
  <2> QED
    BY <1>3, <1>4, <2>1
<1>5. CASE Memory({<<SendTag, Number(1)>>})
  <2>1. SendTag \in Nat /\ SendTag # b /\ Number(1) \in CellRec
    BY <1>1 DEF Number, Cell, CellRec
  <2> QED
    BY <1>3, <1>5, <2>1
<1>6. CASE \E a \in Nat, v \in CellRec : a > SendTag /\ Memory({<<a, v>>})
  <2>1. PICK a \in Nat, v \in CellRec : a > SendTag /\ Memory({<<a, v>>})
    BY <1>6
  <2>2. a # b
    BY <1>1, <2>1
  <2> QED
    BY <1>3, <2>1, <2>2
<1> QED
  BY <1>2, <1>4, <1>5, <1>6, DriverStep

(* What is in the mailbox stays, where hardware does not write. *)
LEMMA KeepHolds ==
  ASSUME MInv, taken \in Seq(Nat \X Lengths), NEW start \in BOOLEAN, NEW go \in BOOLEAN,
         Line(start), Receive, Driver(go),
         NEW m \in 1 .. Len(taken), NEW n \in Int, n + 2 <= Half, Holds(m, n),
         hw.wren => hw.addr \notin 2 .. n + 1
  PROVE  /\ taken'[m] = taken[m] /\ m \in 1 .. Len(taken')
         /\ \A j \in 0 .. n - 1 : ram'[RecvPkt + j] = Cell(taken'[m][1], j)
<1>1. taken'[m] = taken[m] /\ Len(taken) <= Len(taken') /\ Len(taken') \in Nat /\ Len(taken) \in Nat
  <2>1. /\ taken' \in Seq(Nat \X Lengths) /\ Len(taken) <= Len(taken')
        /\ \A k \in 1 .. Len(taken) : taken'[k] = taken[k]
    BY TakenStep
  <2>2. Len(taken') \in Nat /\ Len(taken) \in Nat
    BY <2>1
  <2> QED
    BY <2>1, <2>2
<1>2. ASSUME NEW j \in 0 .. n - 1
      PROVE  ram'[RecvPkt + j] = Cell(taken'[m][1], j)
  <2> DEFINE b == RecvPkt + j
  <2>1. b \in 1 .. Half - 1 /\ b \in 2 .. n + 1
    BY Sizes DEF RecvPkt
  <2>2. ram[b] = Cell(taken[m][1], j)
    BY DEF Holds
  <2> HIDE DEF b
  <2>3. ram'[b] = IF hw.wren /\ hw.addr = b THEN hw.din ELSE ram[b]
    BY <2>1, MailRam DEF MInv
  <2> QED
    BY <1>1, <2>1, <2>2, <2>3 DEF b
<1>3. m \in 1 .. Len(taken')
  BY <1>1
<1>4. \A j \in 0 .. n - 1 : ram'[RecvPkt + j] = Cell(taken'[m][1], j)
  BY <1>2
<1> QED
  BY <1>1, <1>3, <1>4

(* The words of a packet taken, and its length, fit into the mailbox. *)
LEMMA TakenFits ==
  ASSUME taken \in Seq(Nat \X Lengths), NEW m \in 1 .. Len(taken)
  PROVE  LET n == taken[m][2]
         IN /\ taken[m][1] \in Nat /\ n \in Lengths /\ n \in Nat /\ n > Q /\ n + 2 <= Half
            /\ WordsOf(n) \in Nat /\ n <= WordsOf(n) * Q /\ WordsOf(n) * Q + 2 <= Half
            /\ WordsOf(n) * Q \in Nat
<1> DEFINE n == taken[m][2]
<1>1. taken[m] \in Nat \X Lengths
  OBVIOUS
<1>2. taken[m][1] \in Nat /\ n \in Lengths
  BY <1>1
<1> HIDE DEF n
<1>3. /\ n \in Nat /\ n > Q /\ WordsOf(n) \in Nat
      /\ WordsOf(n) * Q >= n /\ WordsOf(n) * Q + 2 <= Half
  BY <1>2, WordsOfOk
<1>4. WordsOf(n) * Q \in Nat
  BY <1>3, SumOfWord
<1> DEFINE x == WordsOf(n) * Q
<1> HIDE DEF x
<1>5. n + 2 <= Half
  BY <1>3, <1>4, Sizes DEF x
<1> QED
  BY <1>2, <1>3, <1>4, <1>5 DEF n

LEMMA FrontIs ==
  ASSUME OrderInv, recvFifo # << >>, recvFifo \in Seq(WordRec)
  PROVE  WordIs(recvFifo[1], First)
<1>1. PICK pos \in [1 .. Len(recvFifo) + 1 -> Nat] : Placed(pos)
  BY DEF OrderInv
<1>2. 1 \in 1 .. Len(recvFifo)
  OBVIOUS
<1> QED
  BY <1>1, <1>2 DEF Placed

(* The copy of a packet grows by a RAM word a clock, and is whole when its  *)
(* tag is set.                                                              *)
LEMMA MailStep ==
  ASSUME MInv, MInv', taken \in Seq(Nat \X Lengths), got \in Seq(Seq(CellRec)),
         pc = "release" => buf \in Seq(CellRec), OrderInv, MailInv,
         NEW start \in BOOLEAN, NEW go \in BOOLEAN,
         Line(start), Receive, ReceiveFifo, CheckPkt, Driver(go)
  PROVE  MailInv'
<1>1. /\ TypeInv /\ CopyInv /\ AccessInv /\ TagInv /\ AccessInv' /\ CopyInv'
      /\ hw \in HwRec /\ hw' \in HwRec /\ recvFifo \in Seq(WordRec)
      /\ Len(taken) \in Nat /\ Len(got) \in Nat /\ Q \in Nat /\ Q > 1 /\ Half \in Nat /\ Half > 2
      /\ hw.addr \in Nat /\ hw.count \in 0 .. Q - 1
  <2>1. /\ TypeInv /\ CopyInv /\ AccessInv /\ TagInv /\ AccessInv' /\ CopyInv'
        /\ hw \in HwRec /\ hw' \in HwRec /\ recvFifo \in Seq(WordRec)
    BY DEF MInv, TypeInv
  <2>2. Len(taken) \in Nat /\ Len(got) \in Nat
    OBVIOUS
  <2> QED
    BY <2>1, <2>2, Sizes DEF HwRec, Addresses
<1>2. RecvTag = 0 /\ RecvLen = 1 /\ RecvPkt = 2 /\ SendTag = Half
  BY DEF RecvTag, RecvLen, RecvPkt, SendTag
<1>3. /\ IF pc = "release" /\ pc' = "app" THEN got' = Append(got, buf) ELSE got' = got
      /\ Full' <=> (Delivers \/ (Full /\ ~(pc = "release" /\ pc' = "app")))
      /\ Full => ~Delivers /\ hw.state # "WRITE_RECV_TAG"
      /\ pc = "release" => Full
      /\ ~Full /\ ~Delivers => Current' = Current /\ Current = Len(got) + 1
      /\ Delivers' <=> hw.state = "WRITE_RECV_TAG"
      /\ hw'.state = "WRITE_RECV_TAG" <=> hw.state = "WRITE_RECV_LENGTH"
  BY TurnStep
<1>4. Full => (hw.wren => hw.addr = SendTag)
  BY <1>1, <1>2 DEF TagInv, AccessInv, Full
<1>5. Delivers => hw.wren /\ hw.addr = RecvTag /\ hw.state = "IDLE"
  BY DEF Delivers
<1>6. \A b \in 1 .. Half - 1 : ram'[b] = IF hw.wren /\ hw.addr = b THEN hw.din ELSE ram[b]
  BY <1>1, MailRam
<1>7. /\ hw.state \in {"CHECK_RECV", "WRITE_RECV_PKT", "WRITE_RECV_LENGTH", "WRITE_RECV_TAG"} => ~Delivers
      /\ hw.state \in {"WRITE_RECV_PKT", "WRITE_RECV_LENGTH", "WRITE_RECV_TAG"} => ~Full
  BY <1>1 DEF TagInv, Full, Delivers
(* A packet that is whole and that hardware does not write on stays whole. *)
<1>8. ASSUME NEW m, Whole(m), hw.wren => hw.addr \notin 1 .. Half - 1
      PROVE  /\ m \in 1 .. Len(taken') /\ ram'[RecvLen] = Number(taken'[m][2])
             /\ \A j \in 0 .. taken'[m][2] - 1 : ram'[RecvPkt + j] = Cell(taken'[m][1], j)
  <2> DEFINE n == taken[m][2]
  <2>1. m \in 1 .. Len(taken) /\ ram[RecvLen] = Number(n) /\ Holds(m, n)
    BY <1>8 DEF Whole
  <2>2. n \in Nat /\ n + 2 <= Half
    BY <2>1, TakenFits
  <2> HIDE DEF n
  <2>3. hw.wren => hw.addr \notin 2 .. n + 1
    <3>1. Half \in Nat
      BY <1>1
    <3>2. 2 .. n + 1 \subseteq 1 .. Half - 1
      BY <2>2, <3>1
    <3> QED
      BY <1>8, <3>2
  <2>4. /\ taken'[m] = taken[m] /\ m \in 1 .. Len(taken')
        /\ \A j \in 0 .. n - 1 : ram'[RecvPkt + j] = Cell(taken'[m][1], j)
    BY <2>1, <2>2, <2>3, KeepHolds
  <2>5. ram'[RecvLen] = ram[RecvLen]
    BY <1>1, <1>2, <1>6, <1>8
  <2> QED
    BY <2>1, <2>4, <2>5 DEF n
<1>9. ASSUME Full'
      PROVE  Whole(Len(got) + 1)'
  <2>1. CASE Delivers
    <3>1. Whole(Current) /\ Current = Len(got) + 1 /\ got' = got
      BY <1>3, <2>1 DEF MailInv, Current
    <3>2. hw.wren => hw.addr \notin 1 .. Half - 1
      BY <1>2, <1>5, <2>1
    <3> QED
      BY <1>8, <3>1, <3>2 DEF Whole, Holds, RecvLen, RecvPkt, Number, Cell
  <2>2. CASE ~Delivers
    <3>1. Whole(Len(got) + 1) /\ got' = got
      BY <1>3, <1>9, <2>2 DEF MailInv
    <3>2. hw.wren => hw.addr \notin 1 .. Half - 1
      BY <1>1, <1>2, <1>3, <1>4, <1>9, <2>2
    <3> QED
      BY <1>8, <3>1, <3>2 DEF Whole, Holds, RecvLen, RecvPkt, Number, Cell
  <2> QED
    BY <2>1, <2>2
<1>10. ASSUME Delivers'
       PROVE  Whole(Current)'
  <2>1. hw.state = "WRITE_RECV_TAG" /\ ~Full /\ ~Delivers
    BY <1>3, <1>7, <1>10
  <2>2. Current' = Current
    BY <1>3, <2>1
  <2>3. /\ hw.wren /\ hw.din = Number(taken[Current][2]) /\ hw.addr = 1
        /\ Current \in 1 .. Len(taken) /\ Holds(Current, taken[Current][2])
    BY <1>1, <1>2, <2>1 DEF MailInv, AccessInv
  <2> DEFINE n == taken[Current][2]
             m == Current
  <2>4. n \in Nat /\ n + 2 <= Half /\ m \in 1 .. Len(taken) /\ Holds(m, n)
    BY <2>3, TakenFits
  <2>5. hw.wren => hw.addr \notin 2 .. n + 1
    BY <2>3, <2>4
  <2>6. ram'[RecvLen] = Number(n)
    BY <1>1, <1>2, <1>6, <2>3
  <2> HIDE DEF n, m
  <2>7. /\ taken'[m] = taken[m] /\ m \in 1 .. Len(taken')
        /\ \A j \in 0 .. n - 1 : ram'[RecvPkt + j] = Cell(taken'[m][1], j)
    BY <2>4, <2>5, KeepHolds
  <2>8. m = Current' /\ taken'[m][2] = n
    BY <2>2, <2>7 DEF m, n
  <2> QED
    BY <2>6, <2>7, <2>8 DEF Whole, Holds, RecvLen, RecvPkt, Number, Cell
<1>11. CASE CheckRecv /\ hw'.state = "WRITE_RECV_PKT"
  <2>1. /\ hw.state = "CHECK_RECV" /\ hw'.addr = RecvLen /\ hw'.count = 0 /\ hw'.wren = hw.wren
    BY <1>1, <1>11 DEF CheckRecv, HwRec
  <2>2. ~hw.wren
    BY <1>1, <2>1 DEF AccessInv
  <2>3. Holds(Current, hw.addr - RecvPkt)'
    <3>1. 0 .. (hw'.addr - 2) - 1 = {}
      BY <1>2, <2>1
    <3> QED
      BY <3>1 DEF Holds, RecvPkt
  <2>4. hw'.addr \in 1 .. Half - 1
    BY <1>1, <1>2, <2>1
  <2> QED
    BY <1>9, <1>10, <1>11, <2>1, <2>2, <2>3, <2>4 DEF MailInv, RecvLen
<1>12. CASE WriteRecvPkt
  <2>1. hw.state = "WRITE_RECV_PKT" /\ ~Full /\ ~Delivers /\ recvFifo # << >>
    BY <1>1, <1>7, <1>12 DEF WriteRecvPkt, CopyInv
  <2>2. First = Current /\ Current' = Current /\ WordIs(recvFifo[1], Current)
    BY <1>1, <1>3, <2>1, FrontIs DEF First
  <2> DEFINE w == IF hw.count = 0 THEN recvFifo[1] ELSE hw.temp
             m == Current
             last == hw.count = Q - 1
             x == w.idx * Q
  <2>3. WordIs(w, m) /\ w.mark \in Words /\ WordOk(w)
    <3>1. WordOk(recvFifo[1])
      BY <1>1, <2>1 DEF MInv, FifoInv
    <3> QED
      BY <1>1, <2>1, <2>2, <3>1 DEF MailInv, CopyInv
  <2>4. /\ m \in 1 .. Len(taken) /\ w.pkt = taken[m][1]
        /\ w.mark = "tail" => w.idx + 1 = WordsOf(taken[m][2])
    BY <2>3 DEF WordIs
  <2>5. w.idx \in Nat
    <3>1. recvFifo[1] \in WordRec /\ hw.temp \in WordRec
      BY <1>1, <2>1 DEF HwRec
    <3> QED
      BY <3>1 DEF WordRec
  <2>6. x \in Nat /\ (w.idx + 1) * Q = x + Q /\ x + Q + 2 <= Half
    BY <1>1, <2>3, <2>5, SumOfWord DEF WordOk
  <2>7. /\ hw.addr = 1 + x + hw.count /\ hw.count \in Nat
        /\ hw.count > 0 => hw.wren
        /\ hw.count = 0 /\ w.mark # "head" => hw.wren
        /\ hw.rden <=> hw.count = 0
    <3>1. CASE hw.count = 0
      BY <1>1, <1>2, <2>1, <2>5, <2>6, <3>1 DEF CopyInv
    <3>2. CASE hw.count > 0
      BY <1>1, <1>2, <2>1, <2>5, <2>6, <3>2 DEF CopyInv
    <3> QED
      BY <1>1, <3>1, <3>2
  <2>8. w.mark = "head" => x = 0
    <3>1. w.mark = "head" => w.idx = 0
      BY <2>3 DEF WordOk
    <3> QED
      BY <1>1, <3>1
  <2>9. Shown = recvFifo[1]
    BY <1>1, <2>1 DEF Shown
  <2>10. /\ hw'.wren /\ hw'.addr = NextAddr /\ hw'.count = (hw.count + 1) % Q
         /\ hw'.temp = IF hw.rden THEN Shown ELSE hw.temp
         /\ hw'.din = UnitOf(IF hw.count = 0 THEN Shown ELSE hw.temp, hw.count)
         /\ hw'.state = IF last /\ hw.temp.mark = "tail" THEN "WRITE_RECV_LENGTH" ELSE "WRITE_RECV_PKT"
    BY <1>1, <1>12 DEF WriteRecvPkt, HwRec
  <2>11. hw'.temp = w /\ hw'.din = Cell(taken[m][1], x + hw.count)
    BY <2>4, <2>7, <2>9, <2>10 DEF UnitOf
  <2>12. MailInv => /\ Holds(m, hw.addr - 2)
                    /\ hw.wren => hw.din = Cell(taken[m][1], hw.addr - 2)
    BY <1>2, <2>1 DEF MailInv
  <2>20. hw.count = Q - 1 => w = hw.temp
    BY <1>1
  <2> HIDE DEF w, m, x
  <2>13. /\ hw.addr + 1 < Half /\ hw'.addr = hw.addr + 1 /\ hw.addr >= 1
         /\ hw.addr > 1 => hw.wren
    <3>1. hw.addr + 1 < Half /\ hw.addr >= 1
      BY <1>1, <2>6, <2>7
    <3>2. hw.addr > 1 => hw.wren
      BY <1>1, <2>6, <2>7, <2>8
    <3> QED
      BY <1>1, <2>10, <3>1, <3>2, NextAddrOk
  <2> DEFINE n == hw.addr - 2
  <2>14. n \in Int /\ n + 2 <= Half /\ Holds(m, n) /\ (hw.wren => hw.addr \notin 2 .. n + 1)
    BY <1>1, <2>12, <2>13
  <2> HIDE DEF n
  <2>15. /\ taken'[m] = taken[m] /\ m \in 1 .. Len(taken')
         /\ \A j \in 0 .. n - 1 : ram'[RecvPkt + j] = Cell(taken'[m][1], j)
    BY <2>4, <2>14, KeepHolds
  <2>16. \A j \in 0 .. hw'.addr - 3 : ram'[RecvPkt + j] = Cell(taken[m][1], j)
    <3> TAKE j \in 0 .. hw'.addr - 3
    <3>1. CASE j <= n - 1
      BY <2>15, <3>1
    <3>2. CASE ~(j <= n - 1)
      <4>1. j = hw.addr - 2 /\ hw.addr > 1 /\ RecvPkt + j = hw.addr /\ hw.addr \in 1 .. Half - 1
        <5>1. j \in Int /\ j >= 0 /\ j <= hw.addr - 2 /\ j > hw.addr - 3
          BY <1>1, <2>13, <3>2 DEF n
        <5> QED
          BY <1>1, <1>2, <2>13, <5>1
      <4>2. ram'[hw.addr] = hw.din
        BY <1>6, <2>13, <4>1
      <4> QED
        BY <2>12, <2>13, <4>1, <4>2
    <3> QED
      BY <3>1, <3>2
  <2>17. hw'.din = Cell(taken[m][1], hw'.addr - 2)
    <3>1. hw'.addr - 2 = x + hw.count
      <4> DEFINE a == hw.addr
                 b == hw'.addr
                 c == hw.count
      <4>1. a \in Nat /\ c \in Nat
        BY <1>1
      <4>2. x \in Nat /\ a = 1 + x + c
        BY <2>6, <2>7
      <4>3. b = a + 1
        BY <2>13
      <4> HIDE DEF a, b, c
      <4>4. b - 2 = x + c
        BY <4>1, <4>2, <4>3
      <4> QED
        BY <4>4 DEF a, b, c
    <3> QED
      BY <2>11, <3>1
  <2>18. hw'.addr \in 1 .. Half - 1
    BY <1>1, <2>13
  <2>19. Current' = m
    BY <2>2 DEF m
  <2>21. Holds(Current, hw.addr - RecvPkt)'
    <3>1. (hw'.addr - 2) - 1 = hw'.addr - 3
      BY <1>1, <2>13
    <3> QED
      BY <2>15, <2>16, <2>19, <3>1 DEF Holds, RecvPkt, Cell
  <2>22. WordIs(hw.temp, Current)'
    <3>1. WordIs(w, m)
      BY <2>3
    <3>2. /\ m \in 1 .. Len(taken')
          /\ w.mark \in Words =>
               /\ w.pkt = taken'[m][1] /\ w.idx < WordsOf(taken'[m][2])
               /\ w.mark = "tail" <=> w.idx + 1 = WordsOf(taken'[m][2])
          /\ w.mark = "length" => w.n = taken'[m][2]
      BY <3>1, WordIsKept
    <3> QED
      BY <2>11, <2>19, <3>2 DEF WordIs, Words
  <2>23. hw'.state = "WRITE_RECV_LENGTH" => hw'.addr = 1 + WordsOf(taken'[m][2]) * Q
    <3> SUFFICES ASSUME hw'.state = "WRITE_RECV_LENGTH"
                 PROVE  hw'.addr = 1 + WordsOf(taken'[m][2]) * Q
      OBVIOUS
    <3>1. hw.count = Q - 1 /\ w.mark = "tail"
      BY <2>10, <2>20
    <3>2. w.idx + 1 = WordsOf(taken[m][2]) /\ WordsOf(taken[m][2]) * Q = x + Q
      BY <2>4, <2>6, <3>1
    <3> QED
      BY <1>1, <2>6, <2>7, <2>13, <2>15, <3>1, <3>2
  <2>24. hw'.state \in {"WRITE_RECV_PKT", "WRITE_RECV_LENGTH"}
    BY <2>10
  <2> QED
    BY <1>9, <1>10, <2>10, <2>15, <2>17, <2>18, <2>19, <2>21, <2>22, <2>23, <2>24
       DEF MailInv, RecvLen, RecvPkt, Cell
<1>13. CASE WriteRecvLength
  <2>1. hw.state = "WRITE_RECV_LENGTH" /\ ~Full /\ ~Delivers /\ recvFifo # << >>
        /\ recvFifo[1].mark = "length"
    BY <1>1, <1>7, <1>13 DEF WriteRecvLength, CopyInv
  <2>2. First = Current /\ Current' = Current /\ WordIs(recvFifo[1], Current)
    BY <1>1, <1>3, <2>1, FrontIs DEF First
  <2> DEFINE m == Current
             W == WordsOf(taken[m][2])
             x == W * Q
             t == taken[m][2]
  <2>3. m \in 1 .. Len(taken) /\ Shown.n = t
    BY <1>1, <2>1, <2>2 DEF WordIs, Shown
  <2>4. hw'.wren /\ hw'.din = Number(Shown.n) /\ hw'.state = "WRITE_RECV_TAG"
    BY <1>1, <1>13 DEF WriteRecvLength, HwRec
  <2>5. /\ hw.wren /\ hw.addr = 1 + x /\ Holds(m, hw.addr - 2)
        /\ hw.din = Cell(taken[m][1], hw.addr - 2)
    BY <1>2, <2>1 DEF MailInv
  <2>6. t \in Nat /\ t > Q /\ t <= x /\ x + 2 <= Half /\ x \in Nat
    BY <2>3, TakenFits
  <2>12. Current' = m
    BY <2>2
  <2> HIDE DEF m, W, x, t
  <2> DEFINE n == hw.addr - 2
  <2>7. n \in Int /\ n + 2 <= Half /\ Holds(m, n) /\ (hw.wren => hw.addr \notin 2 .. n + 1)
    <3>1. hw.addr + 1 <= Half
      BY <1>1, <2>5, <2>6
    <3>2. n \in Int /\ n + 2 = hw.addr /\ hw.addr \notin 2 .. n + 1
      BY <1>1
    <3> QED
      BY <1>1, <2>5, <3>1, <3>2
  <2> HIDE DEF n
  <2>8. /\ taken'[m] = taken[m] /\ m \in 1 .. Len(taken')
        /\ \A j \in 0 .. n - 1 : ram'[RecvPkt + j] = Cell(taken'[m][1], j)
    BY <2>3, <2>7, KeepHolds
  <2>9. \A j \in 0 .. t - 1 : ram'[RecvPkt + j] = Cell(taken'[m][1], j)
    <3> TAKE j \in 0 .. t - 1
    <3>1. CASE j <= n - 1
      BY <2>8, <3>1
    <3>2. CASE ~(j <= n - 1)
      <4>1. j = hw.addr - 2 /\ RecvPkt + j = hw.addr /\ hw.addr \in 1 .. Half - 1
        BY <1>1, <1>2, <2>5, <2>6, <3>2 DEF n
      <4>2. ram'[hw.addr] = hw.din
        BY <1>6, <2>5, <4>1
      <4> QED
        BY <2>5, <2>8, <4>1, <4>2
    <3> QED
      BY <3>1, <3>2
  <2>10. taken'[m][2] = t
    BY <2>8 DEF t
  <2>11. Holds(Current, taken[Current][2])'
    BY <2>9, <2>10, <2>12 DEF Holds, RecvPkt
  <2> QED
    BY <1>9, <1>10, <2>3, <2>4, <2>8, <2>10, <2>11, <2>12 DEF MailInv, Number, Cell
<1>14. CASE hw'.state \notin {"WRITE_RECV_PKT", "WRITE_RECV_LENGTH", "WRITE_RECV_TAG"}
  BY <1>9, <1>10, <1>14 DEF MailInv
<1>15. \/ hw'.state \notin {"WRITE_RECV_PKT", "WRITE_RECV_LENGTH", "WRITE_RECV_TAG"}
       \/ CheckRecv /\ hw'.state = "WRITE_RECV_PKT"
       \/ WriteRecvPkt \/ WriteRecvLength
  <2>1. CASE ReadSendPkt
    <3>1. hw'.state \in {"IDLE", "READ_SEND_PKT"}
      BY <1>1, <2>1 DEF ReadSendPkt, HwRec
    <3> QED
      BY <3>1
  <2>2. CASE Idle \/ Wait \/ CheckRecv
    BY <1>1, <2>2 DEF Idle, Wait, CheckRecv, HwRec
  <2>3. CASE WriteRecvTag \/ CheckSend \/ ReadSendLength
    BY <1>1, <2>3 DEF WriteRecvTag, CheckSend, ReadSendLength, HwRec
  <2> QED
    BY <2>1, <2>2, <2>3 DEF CheckPkt
<1> QED
  BY <1>11, <1>12, <1>13, <1>14, <1>15
-----------------------------------------------------------------------------
(* What the driver has read so far, word by word. *)
LEMMA ContentOk ==
  ASSUME taken \in Seq(Nat \X Lengths), NEW m \in 1 .. Len(taken), NEW n \in Nat
  PROVE  /\ Content(m, n) \in Seq(CellRec) /\ Len(Content(m, n)) = n
         /\ Content(m, 0) = << >>
         /\ Append(Content(m, n), Cell(taken[m][1], n)) = Content(m, n + 1)
<1> DEFINE f(j) == Cell(taken[m][1], j - 1)
<1>1. \A j \in 1 .. n + 1 : f(j) \in CellRec
  <2>1. taken[m][1] \in Nat
    BY TakenFits
  <2> QED
    BY <2>1 DEF Cell, CellRec
<1>2. /\ Content(m, n) = [j \in 1 .. n |-> f(j)] /\ Content(m, 0) = [j \in 1 .. 0 |-> f(j)]
      /\ Content(m, n + 1) = [j \in 1 .. n + 1 |-> f(j)]
  BY DEF Content
<1>3. Cell(taken[m][1], n) = f(n + 1)
  OBVIOUS
<1> HIDE DEF f
<1>4. Content(m, n) \in Seq(CellRec) /\ Len(Content(m, n)) = n
  BY <1>1, <1>2
<1>5. Content(m, 0) = << >>
  <2>1. Content(m, 0) \in Seq(CellRec) /\ Len(Content(m, 0)) = 0
    <3> DEFINE z == 0
    <3>1. z \in Nat /\ \A j \in 1 .. z : f(j) \in CellRec
      OBVIOUS
    <3>2. Content(m, z) = [j \in 1 .. z |-> f(j)]
      BY <1>2
    <3> HIDE DEF z
    <3>3. Content(m, z) \in Seq(CellRec) /\ Len(Content(m, z)) = z
      BY <3>1, <3>2
    <3> QED
      BY <3>3 DEF z
  <2> QED
    BY <2>1
<1>6. Append(Content(m, n), f(n + 1)) = Content(m, n + 1)
  <2> DEFINE g == Content(m, n)
             h == Content(m, n + 1)
             e == f(n + 1)
  <2>1. g \in Seq(CellRec) /\ Len(g) = n /\ \A j \in 1 .. n : g[j] = f(j)
    BY <1>2, <1>4
  <2>2. h \in Seq(CellRec) /\ Len(h) = n + 1 /\ \A j \in 1 .. n + 1 : h[j] = f(j)
    BY <1>1, <1>2
  <2>3. e \in CellRec /\ h[n + 1] = e
    BY <1>1, <2>2
  <2> HIDE DEF g, h, e
  <2>4. Append(g, e) \in Seq(CellRec) /\ Len(Append(g, e)) = n + 1
    BY <2>1, <2>3
  <2>5. \A j \in 1 .. n + 1 : Append(g, e)[j] = h[j]
    <3> TAKE j \in 1 .. n + 1
    <3>1. CASE j = n + 1
      BY <2>1, <2>3, <3>1
    <3>2. CASE j # n + 1
      <4>1. j \in 1 .. n
        BY <3>2
      <4> QED
        BY <2>1, <2>2, <2>3, <4>1
    <3> QED
      BY <3>1, <3>2
  <2>6. Append(g, e) = h
    BY <2>2, <2>4, <2>5, SeqEqual
  <2> QED
    BY <2>6 DEF g, h, e
<1> QED
  BY <1>3, <1>4, <1>5, <1>6

LEMMA BufOk ==
  ASSUME MInv, RInv
  PROVE  pc = "release" => buf \in Seq(CellRec)
<1> SUFFICES ASSUME pc = "release"
             PROVE  buf \in Seq(CellRec)
  OBVIOUS
<1>1. Full /\ Whole(Len(got) + 1)
  BY DEF MInv, TagInv, RInv, MailInv, Full
<1> DEFINE m == Len(got) + 1
<1>2. m \in 1 .. Len(taken) /\ taken \in Seq(Nat \X Lengths) /\ taken[m][2] \in Nat
  BY <1>1, TakenFits DEF Whole, RInv
<1>3. buf = << >> \/ buf = Content(m, taken[m][2])
  BY DEF RInv, ReadInv
<1> HIDE DEF m
<1>4. Content(m, taken[m][2]) \in Seq(CellRec)
  BY <1>2, ContentOk
<1>5. << >> \in Seq(CellRec)
  OBVIOUS
<1> QED
  BY <1>3, <1>4, <1>5

(* The driver reads the packet in the mailbox, whole, and then the next.    *)
LEMMA ReadStep ==
  ASSUME MInv, MInv', RInv, NEW start \in BOOLEAN, NEW go \in BOOLEAN,
         Line(start), Receive, CheckPkt, Driver(go)
  PROVE  ReadInv' /\ ReceivedIntact'
<1>1. /\ TypeInv /\ TagInv /\ AccessInv /\ taken \in Seq(Nat \X Lengths) /\ got \in Seq(Seq(CellRec))
      /\ MailInv /\ ReadInv /\ ReceivedIntact
  BY DEF MInv, RInv
<1>2. /\ Len(taken) \in Nat /\ Len(got) \in Nat /\ Len(taken') \in Nat /\ Len(taken) <= Len(taken')
      /\ \A k \in 1 .. Len(taken) : taken'[k] = taken[k]
      /\ i \in Nat /\ len \in Nat /\ Half \in Nat /\ Half > 2 /\ ram \in [Addresses -> CellRec]
  <2>1. taken' \in Seq(Nat \X Lengths) /\ Len(taken) <= Len(taken')
        /\ \A k \in 1 .. Len(taken) : taken'[k] = taken[k]
    BY <1>1, TakenStep
  <2>2. Len(taken) \in Nat /\ Len(got) \in Nat /\ Len(taken') \in Nat
    BY <1>1, <2>1
  <2> QED
    BY <1>1, <2>1, <2>2, Sizes DEF TypeInv
<1> DEFINE m == Len(got) + 1
           t == taken[m][2]
<1>3. RecvTag = 0 /\ RecvLen = 1 /\ RecvPkt = 2 /\ SendTag = Half
  BY DEF RecvTag, RecvLen, RecvPkt, SendTag
(* While the driver reads, the mailbox is full, and hardware keeps away. *)
<1>4. ASSUME pc \in {"len", "copy", "release"}
      PROVE  /\ m \in 1 .. Len(taken) /\ taken'[m] = taken[m]
             /\ ram[RecvLen] = Number(t) /\ t \in Nat /\ t > 0 /\ t + 2 <= Half
             /\ \A j \in 0 .. t - 1 : ram[RecvPkt + j] = Cell(taken[m][1], j)
             /\ \A a \in 1 .. Half - 1 : SeesAt(a) = {ram[a]}
  <2>1. Full
    BY <1>1, <1>4 DEF TagInv, Full
  <2>2. Whole(m)
    BY <1>1, <2>1 DEF MailInv
  <2>3. m \in 1 .. Len(taken) /\ ram[RecvLen] = Number(t) /\ Holds(m, t)
    BY <2>2 DEF Whole
  <2>4. t \in Nat /\ t > Q /\ t + 2 <= Half
    BY <1>1, <2>3, TakenFits
  <2>5. hw.wren => hw.addr = SendTag
    BY <1>1, <1>3, <2>1 DEF TagInv, AccessInv, Full
  <2>6. \A a \in 1 .. Half - 1 : SeesAt(a) = {ram[a]}
    BY <1>2, <1>3, <2>5 DEF SeesAt
  <2> HIDE DEF t
  <2>7. t > 0
    BY <2>4, Sizes
  <2>8. taken'[m] = taken[m]
    BY <1>2, <2>3
  <2> QED
    BY <2>3, <2>4, <2>6, <2>7, <2>8 DEF Holds
<1>5. \A k \in 1 .. Len(taken), n \in Nat : taken'[k] = taken[k] /\ Content(k, n)' = Content(k, n)
  BY <1>2 DEF Content, Cell
(* What was read stays what it is. *)
<1>6. ASSUME got' = got
      PROVE  ReceivedIntact'
  <2>1. Len(got) <= Len(taken)
        /\ \A k \in 1 .. Len(got) :
             got[k] # << >> => got[k] = [j \in 1 .. taken[k][2] |-> Cell(taken[k][1], j - 1)]
    BY <1>1 DEF ReceivedIntact
  <2>2. Len(got') <= Len(taken')
    BY <1>2, <1>6, <2>1
  <2>3. \A k \in 1 .. Len(got') : taken'[k] = taken[k] /\ got'[k] = got[k] /\ k \in 1 .. Len(got)
    BY <1>2, <1>6, <2>1
  <2>4. \A k \in 1 .. Len(got') :
          got'[k] # << >> => got'[k] = [j \in 1 .. taken'[k][2] |-> Cell(taken'[k][1], j - 1)]
    BY <2>1, <2>3
  <2> QED
    BY <2>2, <2>4 DEF ReceivedIntact, Cell
<1>7. CASE pc' \notin {"copy", "release"} /\ got' = got
  BY <1>6, <1>7 DEF ReadInv
<1>8. CASE pc' = pc /\ UNCHANGED <<i, len, buf, got>>
  <2>1. pc \in {"copy", "release"} =>
          /\ m \in 1 .. Len(taken) /\ taken'[m] = taken[m] /\ t \in Nat
          /\ Content(m, i)' = [j \in 1 .. i |-> Cell(taken[m][1], j - 1)]
          /\ Content(m, t)' = [j \in 1 .. t |-> Cell(taken[m][1], j - 1)]
    BY <1>4, <1>8 DEF Content, Cell
  <2>2. ReadInv'
    BY <1>1, <1>8, <2>1 DEF ReadInv, Content, Cell
  <2> QED
    BY <1>6, <1>8, <2>2
<1>9. CASE /\ pc = "len" /\ \E v \in SeesAt(RecvLen) : len' = v.val
           /\ i' = 0 /\ buf' = << >> /\ pc' \in {"copy", "release"} /\ got' = got
  <2>1. /\ m \in 1 .. Len(taken) /\ taken'[m] = taken[m] /\ t \in Nat /\ t > 0
        /\ ram[RecvLen] = Number(t) /\ SeesAt(RecvLen) = {ram[RecvLen]}
    BY <1>2, <1>3, <1>4, <1>9
  <2>2. len' = t
    BY <1>9, <2>1 DEF Number, Cell
  <2>3. Content(m, 0) = << >>
    BY <1>1, <2>1, ContentOk
  <2>4. [j \in 1 .. 0 |-> Cell(taken'[m][1], j - 1)] = << >>
    BY <2>1, <2>3 DEF Content
  <2>5. ReadInv'
    BY <1>9, <2>1, <2>2, <2>4 DEF ReadInv, Content, Cell
  <2> QED
    BY <1>6, <1>9, <2>5
<1>10. CASE /\ pc = "copy" /\ \E v \in SeesAt(RecvPkt + i) : buf' = Append(buf, v)
            /\ i' = i + 1 /\ pc' = (IF i + 1 = len THEN "release" ELSE "copy")
            /\ len' = len /\ got' = got
  <2>1. /\ m \in 1 .. Len(taken) /\ taken'[m] = taken[m] /\ t \in Nat /\ t + 2 <= Half
        /\ \A j \in 0 .. t - 1 : ram[RecvPkt + j] = Cell(taken[m][1], j)
        /\ \A a \in 1 .. Half - 1 : SeesAt(a) = {ram[a]}
    BY <1>4, <1>10
  <2>2. len = t /\ i < t /\ buf = Content(m, i)
    BY <1>1, <1>10 DEF ReadInv
  <2>3. buf' = Append(Content(m, i), Cell(taken[m][1], i))
    <3> DEFINE a == RecvPkt + i
    <3>1. a \in 1 .. Half - 1 /\ i \in 0 .. t - 1
      BY <1>2, <1>3, <2>1, <2>2
    <3>2. ram[a] = Cell(taken[m][1], i)
      BY <2>1, <3>1
    <3> HIDE DEF a
    <3>3. SeesAt(a) = {ram[a]}
      BY <2>1, <3>1
    <3> QED
      BY <1>10, <2>2, <3>2, <3>3 DEF a
  <2>4. buf' = Content(m, i + 1)
    BY <1>1, <1>2, <2>1, <2>3, ContentOk
  <2>5. buf' = [j \in 1 .. i' |-> Cell(taken'[m][1], j - 1)]
    BY <1>10, <2>1, <2>4 DEF Content
  <2>6. pc' = "copy" => i' < len'
    BY <1>2, <1>10, <2>1, <2>2
  <2>7. pc' = "release" => i' = taken'[m][2]
    BY <1>10, <2>1, <2>2
  <2>8. len' = taken'[m][2]
    BY <1>10, <2>1, <2>2
  <2> HIDE DEF t
  <2>9. ReadInv'
    BY <1>10, <2>5, <2>6, <2>7, <2>8 DEF ReadInv, Content, Cell
  <2> QED
    BY <1>6, <1>10, <2>9
<1>11. CASE pc = "release" /\ got' = Append(got, buf) /\ pc' = "app"
  <2>1. buf \in Seq(CellRec)
    BY <1>11, BufOk
  <2>2. m \in 1 .. Len(taken) /\ taken'[m] = taken[m] /\ (buf = << >> \/ buf = Content(m, t))
    BY <1>1, <1>4, <1>11 DEF ReadInv
  <2> DEFINE S == Seq(CellRec)
  <2>3. got \in Seq(S) /\ buf \in S
    BY <1>1, <2>1
  <2> HIDE DEF S
  <2>4. /\ Len(got') = m /\ got'[m] = buf
        /\ \A k \in 1 .. Len(got) : got'[k] = got[k]
    BY <1>11, <2>3
  <2>5. Len(got') <= Len(taken')
    BY <1>2, <2>2, <2>4
  <2>6. \A k \in 1 .. m :
          got'[k] # << >> => got'[k] = [j \in 1 .. taken'[k][2] |-> Cell(taken'[k][1], j - 1)]
    <3> TAKE k \in 1 .. m
    <3>1. CASE k = m
      BY <2>2, <2>4, <3>1 DEF Content
    <3>2. CASE k # m
      <4>1. k \in 1 .. Len(got) /\ k \in 1 .. Len(taken)
        BY <1>2, <2>2, <3>2
      <4>2. got'[k] = got[k] /\ taken'[k] = taken[k]
        BY <1>2, <2>4, <4>1
      <4>3. got[k] # << >> => got[k] = [j \in 1 .. taken[k][2] |-> Cell(taken[k][1], j - 1)]
        BY <1>1, <4>1 DEF ReceivedIntact
      <4> QED
        BY <4>2, <4>3
    <3> QED
      BY <3>1, <3>2
  <2>7. ReceivedIntact'
    BY <2>4, <2>5, <2>6 DEF ReceivedIntact, Cell
  <2>8. ReadInv'
    BY <1>11 DEF ReadInv
  <2> QED
    BY <2>7, <2>8
<1>12. CASE Read
  BY <1>7, <1>8, <1>9, <1>10, <1>11, <1>12 DEF Read
<1>13. CASE Send
  BY <1>7, <1>8, <1>13 DEF Send
<1>14. CASE UNCHANGED driver
  BY <1>8, <1>14 DEF driver
<1> QED
  BY <1>12, <1>13, <1>14 DEF Driver
-----------------------------------------------------------------------------
(* Nothing is on its way, and the mailbox holds the next packet or none. *)
Start ==
  /\ taken \in Seq(Nat \X Lengths) /\ got = << >> /\ recvFifo = << >> /\ wren = FALSE
  /\ hw.state = "IDLE" /\ hw.wren = FALSE /\ pc = "app"
  /\ Len(taken) = IF Full THEN 1 ELSE 0
  /\ Full => Whole(1)

LEMMA RInvStart == Start => RInv
<1> SUFFICES ASSUME taken \in Seq(Nat \X Lengths), got = << >>, recvFifo = << >>, wren = FALSE,
                    hw.state = "IDLE", hw.wren = FALSE, pc = "app",
                    Len(taken) = (IF Full THEN 1 ELSE 0), Full => Whole(1)
             PROVE  RInv
  BY DEF Start
<1>1. Len(got) = 0 /\ Len(recvFifo) = 0
  OBVIOUS
<1>2. First = Len(taken) + 1 /\ End = Len(taken) + 1 /\ Len(taken) \in Nat
  <2>1. ~Delivers /\ hw.state # "WRITE_RECV_TAG"
    BY DEF Delivers
  <2>2. Current = Len(taken) + 1
    BY <1>1 DEF Current
  <2> QED
    BY <2>1, <2>2 DEF First, End
<1>3. OrderInv
  <2> DEFINE p == [k \in 1 .. 1 |-> Len(taken) + 1]
  <2>1. p \in [1 .. 1 -> Nat] /\ p[1] = Len(taken) + 1
    BY <1>2
  <2> HIDE DEF p
  <2>2. Len(recvFifo) + 1 = 1 /\ 1 .. Len(recvFifo) = {}
    BY <1>1
  <2>3. Placed(p)
    BY <1>2, <2>1, <2>2 DEF Placed
  <2> QED
    BY <2>1, <2>2, <2>3 DEF OrderInv
<1>4. LengthInv
  BY DEF LengthInv
<1>5. MailInv
  BY <1>1 DEF MailInv, Delivers
<1>6. ReadInv
  BY DEF ReadInv
<1>7. ReceivedIntact
  BY <1>1, <1>2 DEF ReceivedIntact
<1>8. got \in Seq(Seq(CellRec))
  <2> DEFINE S == Seq(CellRec)
  <2> HIDE DEF S
  <2>1. << >> \in Seq(S)
    OBVIOUS
  <2> QED
    BY <2>1 DEF S
<1> QED
  BY <1>3, <1>4, <1>5, <1>6, <1>7, <1>8 DEF RInv

LEMMA RInvInit ==
  ASSUME Init
  PROVE  RInv
<1>1. /\ taken = << >> /\ got = << >> /\ recvFifo = << >> /\ wren = FALSE /\ pc = "app"
      /\ hw.state = "IDLE" /\ hw.wren = FALSE
  BY DEF Init, HwReset
<1>2. ram[RecvTag] = Number(0)
  BY Sizes DEF Init, RecvTag
<1>3. ~Full
  BY <1>2 DEF Full, Number, Cell
<1>4. taken \in Seq(Nat \X Lengths) /\ Len(taken) = 0
  BY <1>1
<1> QED
  BY <1>1, <1>3, <1>4, RInvStart DEF Start

(* The RAM outlives the restart: what it holds is what the new program reads *)
(* first.                                                                   *)
LEMMA RInvRestart ==
  ASSUME MInv, RInv, Restart
  PROVE  RInv'
<1>1. /\ taken' = IF ram[RecvTag] = Number(1) THEN <<taken[Len(got) + 1]>> ELSE << >>
      /\ got' = << >> /\ recvFifo' = << >> /\ wren' = FALSE /\ pc' = "app" /\ ram' = ram
      /\ hw'.state = "IDLE" /\ hw'.wren = FALSE
  BY DEF Restart, HwReset
<1>2. taken \in Seq(Nat \X Lengths) /\ (Full => Whole(Len(got) + 1))
  BY DEF RInv, MailInv
<1>3. Full' <=> Full
  BY <1>1 DEF Full, RecvTag, Number, Cell
<1>4. Full => /\ taken' = <<taken[Len(got) + 1]>> /\ taken[Len(got) + 1] \in Nat \X Lengths
  BY <1>1, <1>2 DEF Full, Whole
<1>5. ~Full => taken' = << >>
  BY <1>1 DEF Full
<1> DEFINE P == Nat \X Lengths
           e == taken[Len(got) + 1]
<1>6. Full => e \in P /\ taken' = <<e>>
  BY <1>4
<1> HIDE DEF P
<1>7. taken' \in Seq(P) /\ Len(taken') = (IF Full' THEN 1 ELSE 0) /\ (Full => taken'[1] = e)
  <2>1. CASE Full
    <3> HIDE DEF e
    <3>1. <<e>> \in Seq(P) /\ Len(<<e>>) = 1 /\ <<e>>[1] = e
      BY <1>6, <2>1
    <3> QED
      BY <1>3, <1>6, <2>1, <3>1
  <2>2. CASE ~Full
    BY <1>3, <1>5, <2>2
  <2> QED
    BY <2>1, <2>2
<1>8. Full' => Whole(1)'
  <2> SUFFICES ASSUME Full
               PROVE  Whole(1)'
    BY <1>3
  <2>1. ram[RecvLen] = Number(e[2]) /\ \A j \in 0 .. e[2] - 1 : ram[RecvPkt + j] = Cell(e[1], j)
    BY <1>2 DEF Whole, Holds
  <2>2. taken'[1] = e /\ Len(taken') = 1
    BY <1>3, <1>7
  <2> HIDE DEF e
  <2> QED
    BY <1>1, <2>1, <2>2 DEF Whole, Holds, RecvLen, RecvPkt, Number, Cell
<1>9. taken' \in Seq(Nat \X Lengths)
  BY <1>7 DEF P
<1>10. Start'
  BY <1>1, <1>7, <1>8, <1>9 DEF Start
<1> QED
  BY <1>10, RInvStart, PTL

LEMMA RInvClock ==
  ASSUME MInv, MInv', RInv, NEW start \in BOOLEAN, NEW go \in BOOLEAN, Clock(start, go)
  PROVE  RInv'
<1>1. /\ Line(start) /\ Receive /\ ReceiveFifo /\ CheckPkt /\ Driver(go)
      /\ taken \in Seq(Nat \X Lengths) /\ got \in Seq(Seq(CellRec))
      /\ OrderInv /\ LengthInv /\ MailInv
  BY DEF Clock, RInv
<1>2. pc = "release" => buf \in Seq(CellRec)
  BY BufOk
<1>3. taken' \in Seq(Nat \X Lengths)
  BY <1>1, TakenStep
<1>4. got' \in Seq(Seq(CellRec))
  BY <1>1, <1>2, TurnStep
<1>5. OrderInv'
  BY <1>1, <1>2, OrderStep
<1>6. LengthInv'
  BY <1>1, LengthStep
<1>7. MailInv'
  BY <1>1, <1>2, MailStep
<1>8. ReadInv' /\ ReceivedIntact'
  BY <1>1, ReadStep
<1> QED
  BY <1>3, <1>4, <1>5, <1>6, <1>7, <1>8 DEF RInv

(* The packets taken are in the FIFO, under way, in the mailbox and with    *)
(* the driver, each where its turn says, word by word.                      *)
THEOREM PacketsInOrder == Spec => []RInv
<1>1. Init => RInv
  BY RInvInit
<1>2. MInv /\ MInv' /\ RInv /\ [Next]_vars => RInv'
  <2> SUFFICES ASSUME MInv, MInv', RInv, [Next]_vars
               PROVE  RInv'
    OBVIOUS
  <2>1. CASE UNCHANGED vars
    <3>1. UNCHANGED <<taken, got, recvFifo, wren, din, hw, ram, pc, i, len, buf, recvLength, pkt>>
      BY <2>1 DEF vars, input, memory, driver
    <3>2. /\ taken' \in Seq(Nat \X Lengths) /\ got' \in Seq(Seq(CellRec))
          /\ LengthInv' /\ ReadInv' /\ ReceivedIntact'
      BY <3>1 DEF RInv, LengthInv, WordIs, ReadInv, Content, ReceivedIntact, Cell
    <3>3. OrderInv'
      BY <3>1 DEF RInv, OrderInv, Placed, WordIs, First, End, Current, Full, Delivers, After,
                  RecvTag, Number, Cell
    <3>4. MailInv'
      BY <3>1 DEF RInv, MailInv, Whole, Holds, WordIs, Current, Full, Delivers,
                  RecvTag, RecvLen, RecvPkt, Number, Cell
    <3> QED
      BY <3>2, <3>3, <3>4 DEF RInv
  <2>2. CASE Next
    BY <2>2, RInvRestart, RInvClock DEF Next
  <2> QED
    BY <2>1, <2>2
<1> QED
  BY <1>1, <1>2, Invariant, PTL DEF Spec

(* The driver reads the packets that were taken, in their order, each once  *)
(* and with all their words: for packets, FIFOs and mailboxes of any size,  *)
(* whatever arrives and whatever the driver does in between, and across     *)
(* restarts that leave a packet in the RAM.                                 *)
THEOREM PacketsAreReceivedIntact == Spec => []ReceivedIntact
<1>1. RInv => ReceivedIntact
  BY DEF RInv
<1> QED
  BY <1>1, PacketsInOrder, PTL
-----------------------------------------------------------------------------
(* The way out: the FIFO of words that leave, and how many tails are in it. *)
Tails(f) == Cardinality({k \in 1 .. Len(f) : f[k].mark = "tail"})

Reading == hw.state = "READ_SEND_PKT"
Pending == IF hw.wrenSend THEN 1 ELSE 0
MailLen == ram[SendLen].val

SendTypeInv ==
  /\ sendFifo \in Seq(LeavingRec) /\ cntPkt \in Nat /\ stateSend \in {"IDLE", "WAIT_TAIL"}
  /\ rdenSend \in BOOLEAN /\ valid \in BOOLEAN

(* The length on its way from the driver to the machine that reads.         *)
SendMailInv ==
  /\ pc \in {"fill", "fire"} => len \in SendLengths /\ ram[SendLen] = Number(len)
  /\ ram[SendTag] = Number(1) => MailLen \in SendLengths
  /\ hw.state = "CHECK_SEND" /\ dout = Number(1) => ramQ = ram[SendLen]
  /\ hw.state = "READ_SEND_LENGTH" => dout = ram[SendLen]

(* Behind a tail, and only there, a packet begins.                          *)
SendOrder ==
  \A k \in 1 .. Len(sendFifo) - 1 : sendFifo[k].mark = "tail" <=> sendFifo[k + 1].mark = "head"

(* The last m words of the FIFO are of the packet that is being read.       *)
Open(m) ==
  /\ \A k \in Len(sendFifo) - m + 1 .. Len(sendFifo) : sendFifo[k].mark # "tail"
  /\ m < Len(sendFifo) => sendFifo[Len(sendFifo) - m].mark = "tail"
  /\ hw.wrenSend => /\ hw.state \in {"READ_SEND_PKT", "IDLE"}
                    /\ hw.dinSend.mark = "head" <=> m = 0
  /\ Reading => /\ hw.sendLength >= 0
                /\ hw.head <=> m + Pending = 0
                /\ (m + Pending) * Q + hw.count + hw.sendLength + 1 = MailLen
                /\ hw.wrenSend => hw.dinSend.mark # "tail"
  /\ ~Reading => /\ hw.sendLength = 0
                 /\ IF hw.wrenSend THEN hw.dinSend.mark = "tail" /\ Thr + m + 1 <= Cap
                                   ELSE m = 0

OpenInv == \E m \in 0 .. Len(sendFifo) : Open(m)

(* No word of a packet whose tail is still in the FIFO has left yet.        *)
Fresh == ~(valid /\ out.mark \in {"head", "body"})

(* What cnt_pkt counts: the tails in the FIFO, but for a packet whose head  *)
(* has left a clock ago or longer.                                          *)
CountInv ==
  /\ rdenSend <=> stateSend = "WAIT_TAIL"
  /\ sendFifo # << >> => (sendFifo[1].mark = "head" <=> Fresh)
  /\ stateSend = "IDLE" => Fresh /\ cntPkt = Tails(sendFifo)
  /\ stateSend = "WAIT_TAIL" =>
       /\ Tails(sendFifo) > 0
       /\ cntPkt = IF valid /\ out.mark = "body" THEN Tails(sendFifo) - 1 ELSE Tails(sendFifo)

(* Twice the words that wait, with those that can come soon: this grows by  *)
(* one in a clock at most, and a word that leaves takes two.                *)
Credit  == IF ~Reading THEN -1 ELSE IF hw.count = 0 THEN 0 ELSE 1
Waiting == 2 * (Len(sendFifo) + Pending) + Credit
Room    == 2 * (Cap - Thr)

RoomInv ==
  /\ stateSend = "IDLE" /\ Tails(sendFifo) > 0 => Waiting <= Room + 1
  /\ stateSend = "WAIT_TAIL" => Waiting <= Room + (IF Fresh THEN 2 ELSE 1)

SInv == SendTypeInv /\ SendMailInv /\ SendOrder /\ OpenInv /\ CountInv /\ RoomInv
-----------------------------------------------------------------------------
(* Tails in a FIFO. *)
LEMMA TailsOf ==
  ASSUME NEW S, NEW f \in Seq(S)
  PROVE  /\ Tails(f) \in Nat /\ Tails(f) <= Len(f)
         /\ Tails(f) = 0 <=> \A k \in 1 .. Len(f) : f[k].mark # "tail"
<1> DEFINE T == {k \in 1 .. Len(f) : f[k].mark = "tail"}
<1>1. Len(f) \in Nat
  OBVIOUS
<1>2. IsFiniteSet(1 .. Len(f)) /\ Cardinality(1 .. Len(f)) = Len(f)
  BY <1>1, FS_Interval
<1>3. T \in SUBSET (1 .. Len(f))
  OBVIOUS
<1>4. IsFiniteSet(T) /\ Cardinality(T) <= Len(f)
  BY <1>2, <1>3, FS_Subset
<1>5. Cardinality(T) \in Nat
  BY <1>4, FS_CardinalityType
<1>6. Cardinality(T) = 0 <=> T = {}
  BY <1>4, FS_EmptySet
<1>7. T = {} <=> \A k \in 1 .. Len(f) : f[k].mark # "tail"
  OBVIOUS
<1>8. Tails(f) = Cardinality(T)
  BY DEF Tails
<1> HIDE DEF T
<1> QED
  BY <1>4, <1>5, <1>6, <1>7, <1>8

LEMMA TailsPush ==
  ASSUME NEW S, NEW f \in Seq(S), NEW x \in S
  PROVE  Tails(Append(f, x)) = Tails(f) + (IF x.mark = "tail" THEN 1 ELSE 0)
<1> DEFINE g == Append(f, x)
           n == Len(f)
           T == {k \in 1 .. n : f[k].mark = "tail"}
           U == {k \in 1 .. n + 1 : g[k].mark = "tail"}
<1>1. n \in Nat /\ Len(g) = n + 1 /\ g[n + 1] = x /\ \A k \in 1 .. n : g[k] = f[k]
  OBVIOUS
<1>2. IsFiniteSet(T)
  <2>1. IsFiniteSet(1 .. n)
    BY <1>1, FS_Interval
  <2> QED
    BY <2>1, FS_Subset
<1>3. n + 1 \notin T
  BY <1>1
<1>4. Tails(f) = Cardinality(T) /\ Tails(g) = Cardinality(U)
  BY <1>1 DEF Tails
<1>5. CASE x.mark = "tail"
  <2>1. U = T \cup {n + 1}
    BY <1>1, <1>5
  <2>2. Cardinality(T \cup {n + 1}) = Cardinality(T) + 1
    BY <1>2, <1>3, FS_AddElement
  <2> QED
    BY <1>4, <1>5, <2>1, <2>2
<1>6. CASE x.mark # "tail"
  <2>1. U = T
    BY <1>1, <1>6
  <2> HIDE DEF T, U
  <2>2. Cardinality(T) \in Nat
    BY <1>2, FS_CardinalityType
  <2> QED
    BY <1>4, <1>6, <2>1, <2>2
<1> QED
  BY <1>5, <1>6

LEMMA TailsPop ==
  ASSUME NEW S, NEW f \in Seq(S), f # << >>
  PROVE  Tails(Tail(f)) = Tails(f) - (IF f[1].mark = "tail" THEN 1 ELSE 0)
<1> DEFINE g == Tail(f)
           n == Len(g)
           T == {k \in 1 .. n : g[k].mark = "tail"}
           R == {k \in 2 .. n + 1 : f[k].mark = "tail"}
           U == {k \in 1 .. n + 1 : f[k].mark = "tail"}
<1>1. n \in Nat /\ Len(f) = n + 1 /\ \A k \in 1 .. n : g[k] = f[k + 1]
  OBVIOUS
<1>2. IsFiniteSet(T)
  <2>1. IsFiniteSet(1 .. n)
    BY <1>1, FS_Interval
  <2> QED
    BY <2>1, FS_Subset
<1>3. ExistsBijection(T, R)
  <2> DEFINE h == [k \in T |-> k + 1]
  <2>1. h \in [T -> R]
    BY <1>1
  <2>2. \A a, b \in T : h[a] = h[b] => a = b
    OBVIOUS
  <2>3. \A b \in R : \E a \in T : h[a] = b
    <3> TAKE b \in R
    <3>1. b - 1 \in T
      BY <1>1
    <3>2. h[b - 1] = b
      BY <3>1
    <3> QED
      BY <3>1, <3>2
  <2> HIDE DEF h, T, R
  <2>4. h \in Bijection(T, R)
    BY <2>1, <2>2, <2>3, Fun_IsBij
  <2> QED
    BY <2>4 DEF ExistsBijection
<1>4. IsFiniteSet(R) /\ Cardinality(R) = Cardinality(T)
  BY <1>2, <1>3, FS_Bijection
<1>5. Tails(f) = Cardinality(U) /\ Tails(g) = Cardinality(T) /\ Cardinality(T) \in Nat
  BY <1>1, <1>2, FS_CardinalityType DEF Tails
<1>6. CASE f[1].mark = "tail"
  <2>1. U = R \cup {1} /\ 1 \notin R
    BY <1>1, <1>6
  <2>2. Cardinality(R \cup {1}) = Cardinality(R) + 1
    BY <1>4, <2>1, FS_AddElement
  <2> HIDE DEF T, R, U
  <2> QED
    BY <1>4, <1>5, <1>6, <2>1, <2>2
<1>7. CASE f[1].mark # "tail"
  <2>1. U = R
    BY <1>1, <1>7
  <2> HIDE DEF T, R, U
  <2> QED
    BY <1>4, <1>5, <1>7, <2>1
<1> QED
  BY <1>6, <1>7

(* The packet that is being read fits into the FIFO above the threshold.    *)
LEMMA OpenFits ==
  ASSUME TypeInv, TagInv, SendMailInv, Reading, NEW m \in Nat, Open(m)
  PROVE  /\ MailLen \in SendLengths /\ m + Pending \in Nat /\ Thr + m + Pending + 1 <= Cap
         /\ hw.sendLength = 0 => ~hw.head
         /\ hw.sendLength \in 0 .. Half /\ Cap - Thr < 255
<1>1. ram[SendTag] = Number(1)
  BY DEF TagInv, Reading
<1>2. MailLen \in SendLengths
  BY <1>1 DEF SendMailInv
<1> DEFINE p == m + Pending
           n == MailLen
<1>3. p \in Nat
  BY DEF Pending
<1>4. /\ hw.sendLength \in Int /\ hw.sendLength >= 0 /\ (hw.head <=> p = 0) /\ hw.count \in Nat
      /\ hw.count < Q /\ p * Q + hw.count + hw.sendLength + 1 = n /\ Q \in Nat
  BY Sizes DEF Open, TypeInv, HwRec
<1> HIDE DEF p, n
<1>5. /\ n \in Nat /\ n > Q /\ WordsOf(n) \in Nat /\ WordsOf(n) * Q >= n
      /\ WordsOf(n) * Q + 2 <= Half /\ Thr + WordsOf(n) <= Cap
  BY <1>2, WordsOfOk DEF n
<1>6. p * Q \in Nat /\ WordsOf(n) * Q \in Nat
  BY <1>3, <1>5, SumOfWord
<1>7. p < WordsOf(n)
  <2> SUFFICES ASSUME ~(p < WordsOf(n))
               PROVE  FALSE
    OBVIOUS
  <2> DEFINE w == WordsOf(n)
             x == p * Q
             y == w * Q
  <2>1. y <= x
    <3>1. CASE w = p
      BY <1>6, <3>1
    <3>2. CASE w # p
      <4>1. w < p
        BY <1>3, <1>5, <3>2
      <4>2. (w + 1) * Q <= p * Q /\ (w + 1) * Q = w * Q + Q
        BY <1>3, <1>5, <4>1, IndexOk
      <4> QED
        BY <1>4, <1>6, <4>2
    <3> QED
      BY <3>1, <3>2
  <2>2. x \in Nat /\ y \in Nat /\ y >= n /\ x < n
    BY <1>4, <1>5, <1>6
  <2> QED
    BY <1>5, <2>1, <2>2
<1>8. Thr + p + 1 <= Cap
  BY <1>3, <1>5, <1>7, Sizes
<1>9. hw.sendLength = 0 => ~hw.head
  <2> SUFFICES ASSUME hw.sendLength = 0, hw.head
               PROVE  FALSE
    OBVIOUS
  <2>1. p = 0
    BY <1>4
  <2>2. p * Q = 0
    BY <1>4, <2>1
  <2> QED
    BY <1>4, <1>5, <2>2
<1>10. hw.sendLength \in 0 .. Half
  <2>1. n + 2 <= Half
    BY <1>5, <1>6, Sizes
  <2>2. hw.sendLength <= n
    BY <1>4, <1>5, <1>6
  <2> QED
    BY <1>4, <1>5, <2>1, <2>2, Sizes
<1>11. m + Pending = p
  BY DEF p
<1>12. Thr + m + Pending + 1 <= Cap
  BY <1>8, <1>11, Sizes DEF Pending
<1> QED
  BY <1>2, <1>3, <1>9, <1>10, <1>11, <1>12, Sizes

(* fifo_pktSend has room for a word that is pushed. *)
LEMMA SendRoom ==
  ASSUME TypeInv, TagInv, SendTypeInv, SendMailInv, OpenInv, CountInv, RoomInv, hw.wrenSend
  PROVE  Len(sendFifo) < Cap
<1>1. PICK m \in 0 .. Len(sendFifo) : Open(m)
  BY DEF OpenInv
<1>2. /\ Len(sendFifo) \in Nat /\ m \in Nat /\ Cap \in Nat /\ Thr \in Nat /\ Thr > 0 /\ Pending = 1
      /\ sendFifo \in Seq(LeavingRec) /\ stateSend \in {"IDLE", "WAIT_TAIL"}
  BY Sizes DEF SendTypeInv, Pending
<1>3. Tails(sendFifo) \in Nat /\ (Tails(sendFifo) = 0 <=> \A k \in 1 .. Len(sendFifo) : sendFifo[k].mark # "tail")
  BY <1>2, TailsOf
<1>4. CASE stateSend = "IDLE" /\ Tails(sendFifo) = 0
  <2>1. m = Len(sendFifo)
    <3> SUFFICES ASSUME m < Len(sendFifo)
                 PROVE  FALSE
      BY <1>2
    <3>1. sendFifo[Len(sendFifo) - m].mark = "tail"
      BY <1>1 DEF Open
    <3>2. Len(sendFifo) - m \in 1 .. Len(sendFifo)
      BY <1>2
    <3> QED
      BY <1>3, <1>4, <3>1, <3>2
  <2>2. Thr + m + 1 <= Cap
    <3>1. CASE Reading
      BY <1>1, <1>2, <3>1, OpenFits
    <3>2. CASE ~Reading
      BY <1>1, <3>2 DEF Open
    <3> QED
      BY <3>1, <3>2
  <2> QED
    BY <1>2, <2>1, <2>2
<1>5. CASE ~(stateSend = "IDLE" /\ Tails(sendFifo) = 0)
  <2>1. Waiting <= Room + 2
    <3>1. Waiting <= Room + 1 \/ Waiting <= Room + 2
      BY <1>2, <1>3, <1>5 DEF RoomInv
    <3>2. Waiting \in Int /\ Room \in Int
      BY <1>2 DEF Waiting, Room, Credit
    <3> QED
      BY <3>1, <3>2
  <2>2. Credit \in {-1, 0, 1}
    BY DEF Credit
  <2> QED
    BY <1>2, <2>1, <2>2 DEF Waiting, Room
<1> QED
  BY <1>4, <1>5

(* How the FIFO changes when it has that room. *)
LEMMA SendFifoStep ==
  ASSUME TypeInv, SendTypeInv, CountInv, SendFifo, hw.wrenSend => Len(sendFifo) < Cap
  PROVE  LET s == IF stateSend = "WAIT_TAIL" THEN 1 ELSE 0
             L == Len(sendFifo) - s
         IN  /\ L \in Nat /\ sendFifo' \in Seq(LeavingRec)
             /\ Len(sendFifo') = L + Pending
             /\ \A k \in 1 .. L : sendFifo'[k] = sendFifo[k + s]
             /\ hw.wrenSend => sendFifo'[L + 1] = hw.dinSend
             /\ Tails(sendFifo') =
                  Tails(sendFifo) - (IF s = 1 /\ sendFifo[1].mark = "tail" THEN 1 ELSE 0)
                                  + (IF hw.wrenSend /\ hw.dinSend.mark = "tail" THEN 1 ELSE 0)
<1> DEFINE s == IF stateSend = "WAIT_TAIL" THEN 1 ELSE 0
           L == Len(sendFifo) - s
           p == IF s = 1 THEN Tail(sendFifo) ELSE sendFifo
<1>1. /\ sendFifo \in Seq(LeavingRec) /\ hw.dinSend \in LeavingRec /\ Len(sendFifo) \in Nat
      /\ hw.wrenSend \in BOOLEAN /\ stateSend \in {"IDLE", "WAIT_TAIL"}
      /\ rdenSend <=> s = 1
  BY DEF TypeInv, HwRec, SendTypeInv, CountInv
<1>2. s = 1 => sendFifo # << >>
  <2> SUFFICES ASSUME s = 1, sendFifo = << >>
               PROVE  FALSE
    OBVIOUS
  <2>1. Tails(sendFifo) > 0
    BY DEF CountInv
  <2>2. Tails(sendFifo) <= Len(sendFifo) /\ Tails(sendFifo) \in Nat /\ Len(sendFifo) = 0
    BY <1>1, TailsOf
  <2> QED
    BY <2>1, <2>2
<1>3. /\ p \in Seq(LeavingRec) /\ L \in Nat /\ Len(p) = L
      /\ \A k \in 1 .. L : p[k] = sendFifo[k + s]
  <2>1. CASE stateSend = "WAIT_TAIL"
    <3>1. s = 1 /\ p = Tail(sendFifo) /\ L = Len(sendFifo) - 1 /\ sendFifo # << >>
      BY <1>2, <2>1
    <3> HIDE DEF s, p, L
    <3> QED
      BY <1>1, <3>1
  <2>2. CASE stateSend # "WAIT_TAIL"
    <3>1. s = 0 /\ p = sendFifo /\ L = Len(sendFifo)
      BY <1>1, <2>2
    <3> HIDE DEF s, p, L
    <3> QED
      BY <1>1, <3>1
  <2> QED
    BY <2>1, <2>2
<1>4. Tails(p) = Tails(sendFifo) - (IF s = 1 /\ sendFifo[1].mark = "tail" THEN 1 ELSE 0)
  <2>1. CASE s = 1
    BY <1>1, <1>2, <2>1, TailsPop
  <2>2. CASE s # 1
    <3>1. Tails(sendFifo) \in Nat
      BY <1>1, TailsOf
    <3> QED
      BY <2>2, <3>1
  <2> QED
    BY <2>1, <2>2
<1>5. sendFifo' = IF hw.wrenSend THEN Append(p, hw.dinSend) ELSE p
  BY <1>1, <1>2 DEF SendFifo, FifoAfter
<1> HIDE DEF p, s, L
<1>6. CASE hw.wrenSend
  <2>1. sendFifo' = Append(p, hw.dinSend) /\ Pending = 1
    BY <1>5, <1>6 DEF Pending
  <2>2. /\ sendFifo' \in Seq(LeavingRec) /\ Len(sendFifo') = L + 1
        /\ \A k \in 1 .. L : sendFifo'[k] = p[k]
        /\ sendFifo'[L + 1] = hw.dinSend
    BY <1>1, <1>3, <2>1
  <2>3. Tails(sendFifo') = Tails(p) + (IF hw.dinSend.mark = "tail" THEN 1 ELSE 0)
    BY <1>1, <1>3, <2>1, TailsPush
  <2> QED
    BY <1>3, <1>4, <1>6, <2>1, <2>2, <2>3 DEF s, L
<1>7. CASE ~hw.wrenSend
  <2>1. sendFifo' = p /\ Pending = 0
    BY <1>5, <1>7 DEF Pending
  <2>2. Tails(p) \in Nat
    BY <1>3, TailsOf
  <2> QED
    BY <1>3, <1>4, <1>7, <2>1, <2>2 DEF s, L
<1> QED
  BY <1>6, <1>7

(* What the machine that reads does to the word it pushes. *)
LEMMA HwSends ==
  ASSUME TypeInv, CheckPkt,
         hw.wrenSend => hw.state \in {"READ_SEND_PKT", "IDLE"}
  PROVE  \/ /\ Reading /\ hw.sendLength = 0
            /\ hw'.wrenSend /\ hw'.sendLength = 0 /\ hw'.dinSend.mark = "tail" /\ hw'.state = "IDLE"
         \/ /\ Reading /\ hw.sendLength # 0 /\ hw.count = Q - 1
            /\ hw'.wrenSend /\ ~hw'.head /\ hw'.dinSend.mark = (IF hw.head THEN "head" ELSE "body")
            /\ hw'.count = 0 /\ hw'.sendLength = hw.sendLength - 1 /\ hw'.state = "READ_SEND_PKT"
         \/ /\ Reading /\ hw.sendLength # 0 /\ hw.count # Q - 1
            /\ ~hw'.wrenSend /\ hw'.head = hw.head /\ hw'.count = hw.count + 1
            /\ hw'.sendLength = hw.sendLength - 1 /\ hw'.state = "READ_SEND_PKT"
         \/ /\ hw.state = "READ_SEND_LENGTH"
            /\ ~hw'.wrenSend /\ hw'.head /\ hw'.count = 0
            /\ hw'.sendLength = dout.val - 1 /\ hw'.state = "READ_SEND_PKT"
         \/ /\ ~Reading /\ hw.state # "READ_SEND_LENGTH"
            /\ ~hw'.wrenSend /\ hw'.sendLength = hw.sendLength /\ hw'.state # "READ_SEND_PKT"
<1>1. /\ hw \in HwRec /\ Q \in Nat /\ Q > 1 /\ hw.count \in 0 .. Q - 1
      /\ hw.wrenSend \in BOOLEAN /\ hw.sendLength \in Int
  BY Sizes DEF TypeInv, HwRec
<1>2. CASE ReadSendPkt
  <2> DEFINE cells == [hw.dinSend.cells EXCEPT ![hw.count] = dout]
  <2> HIDE DEF cells
  <2>1. hw.state = "READ_SEND_PKT"
    BY <1>2 DEF ReadSendPkt
  <2>2. CASE hw.sendLength = 0
    BY <1>1, <1>2, <2>2 DEF ReadSendPkt, HwRec, Leaving, Reading
  <2>3. CASE hw.sendLength # 0 /\ hw.count = Q - 1
    <3>1. (hw.count + 1) % Q = 0
      BY <1>1, <2>3
    <3> QED
      BY <1>1, <1>2, <2>3, <3>1 DEF ReadSendPkt, HwRec, Leaving, Reading
  <2>4. CASE hw.sendLength # 0 /\ hw.count # Q - 1
    <3>1. (hw.count + 1) % Q = hw.count + 1
      BY <1>1, <2>4
    <3> QED
      BY <1>1, <1>2, <2>4, <3>1 DEF ReadSendPkt, HwRec, Leaving, Reading
  <2> QED
    BY <2>2, <2>3, <2>4
<1>3. CASE ReadSendLength
  BY <1>1, <1>3 DEF ReadSendLength, HwRec, Reading
<1>4. CASE Idle
  BY <1>1, <1>4 DEF Idle, HwRec, Reading
<1>5. CASE Wait
  BY <1>1, <1>5 DEF Wait, HwRec, Reading
<1>6. CASE CheckRecv
  BY <1>1, <1>6 DEF CheckRecv, HwRec, Reading
<1>7. CASE WriteRecvPkt
  BY <1>1, <1>7 DEF WriteRecvPkt, HwRec, Reading
<1>8. CASE WriteRecvLength
  BY <1>1, <1>8 DEF WriteRecvLength, HwRec, Reading
<1>9. CASE WriteRecvTag
  BY <1>1, <1>9 DEF WriteRecvTag, HwRec, Reading
<1>10. CASE CheckSend
  BY <1>1, <1>10 DEF CheckSend, HwRec, Reading
<1> QED
  BY <1>2, <1>3, <1>4, <1>5, <1>6, <1>7, <1>8, <1>9, <1>10 DEF CheckPkt

(* The words in the FIFO that are of the packet that is being read: the     *)
(* word that is pushed is one of them, or their tail; those that leave are  *)
(* of packets before.                                                       *)
PushedTo(m) == IF hw.wrenSend THEN IF hw.dinSend.mark = "tail" THEN 0 ELSE m + 1 ELSE m

LEMMA OpenShape ==
  ASSUME TypeInv, TagInv, SendTypeInv, SendMailInv, SendOrder, CountInv, SendFifo,
         hw.wrenSend => Len(sendFifo) < Cap,
         NEW m \in 0 .. Len(sendFifo), Open(m)
  PROVE  /\ PushedTo(m) \in 0 .. Len(sendFifo')
         /\ \A k \in Len(sendFifo') - PushedTo(m) + 1 .. Len(sendFifo') : sendFifo'[k].mark # "tail"
         /\ PushedTo(m) < Len(sendFifo') => sendFifo'[Len(sendFifo') - PushedTo(m)].mark = "tail"
         /\ SendOrder'
         /\ stateSend = "WAIT_TAIL" => m < Len(sendFifo)
         /\ stateSend = "IDLE" /\ Tails(sendFifo) = 0 => m = Len(sendFifo)
<1> DEFINE s  == IF stateSend = "WAIT_TAIL" THEN 1 ELSE 0
           N  == Len(sendFifo)
           L  == N - s
           N1 == Len(sendFifo')
           m1 == PushedTo(m)
<1>1. /\ sendFifo \in Seq(LeavingRec) /\ N \in Nat /\ s \in {0, 1} /\ m \in Nat /\ m <= N
  BY DEF SendTypeInv
<1>2. /\ L \in Nat /\ N1 = L + Pending /\ (\A k \in 1 .. L : sendFifo'[k] = sendFifo[k + s])
      /\ hw.wrenSend => sendFifo'[L + 1] = hw.dinSend
  BY SendFifoStep
<1>3. /\ Tails(sendFifo) \in Nat
      /\ Tails(sendFifo) = 0 <=> \A k \in 1 .. N : sendFifo[k].mark # "tail"
  BY <1>1, TailsOf
<1>4. /\ \A k \in N - m + 1 .. N : sendFifo[k].mark # "tail"
      /\ m < N => sendFifo[N - m].mark = "tail"
      /\ hw.wrenSend => (hw.dinSend.mark = "head" <=> m = 0)
  BY DEF Open
<1>5. stateSend = "WAIT_TAIL" => m < N
  <2> SUFFICES ASSUME stateSend = "WAIT_TAIL", m = N
               PROVE  FALSE
    BY <1>1
  <2>1. \A k \in 1 .. N : sendFifo[k].mark # "tail"
    BY <1>1, <1>4
  <2>2. Tails(sendFifo) > 0
    BY DEF CountInv
  <2> QED
    BY <1>3, <2>1, <2>2
<1>6. Tails(sendFifo) = 0 => m = N
  <2> SUFFICES ASSUME Tails(sendFifo) = 0, m < N
               PROVE  FALSE
    BY <1>1
  <2>1. N - m \in 1 .. N
    BY <1>1
  <2> QED
    BY <1>3, <1>4, <2>1
<1>7. m <= L
  BY <1>1, <1>5
<1>8. \A k \in 1 .. N - 1 : sendFifo[k].mark = "tail" <=> sendFifo[k + 1].mark = "head"
  BY DEF SendOrder
<1> HIDE DEF s, N, L, N1, m1
<1>9. /\ m1 \in 0 .. N1
      /\ \A k \in N1 - m1 + 1 .. N1 : sendFifo'[k].mark # "tail"
      /\ m1 < N1 => sendFifo'[N1 - m1].mark = "tail"
  <2>1. CASE ~hw.wrenSend
    <3>1. m1 = m /\ N1 = L
      BY <1>2, <2>1 DEF m1, PushedTo, Pending
    <3>2. ASSUME NEW k \in N1 - m1 + 1 .. N1
          PROVE  sendFifo'[k].mark # "tail"
      <4>1. k \in 1 .. L /\ k + s \in N - m + 1 .. N
        BY <1>1, <1>2, <1>7, <3>1, <3>2 DEF L
      <4> QED
        BY <1>2, <1>4, <4>1
    <3>3. ASSUME m1 < N1
          PROVE  sendFifo'[N1 - m1].mark = "tail"
      <4>1. L - m \in 1 .. L /\ (L - m) + s = N - m /\ m < N
        BY <1>1, <1>2, <1>7, <3>1, <3>3 DEF L
      <4> QED
        BY <1>2, <1>4, <3>1, <4>1
    <3> QED
      BY <1>1, <1>2, <1>7, <3>1, <3>2, <3>3
  <2>2. CASE hw.wrenSend /\ hw.dinSend.mark = "tail"
    <3>1. m1 = 0 /\ N1 = L + 1 /\ sendFifo'[N1] = hw.dinSend
      BY <1>2, <2>2 DEF m1, PushedTo, Pending
    <3> QED
      BY <1>2, <2>2, <3>1
  <2>3. CASE hw.wrenSend /\ hw.dinSend.mark # "tail"
    <3>1. m1 = m + 1 /\ N1 = L + 1 /\ sendFifo'[N1] = hw.dinSend
      BY <1>2, <2>3 DEF m1, PushedTo, Pending
    <3>2. ASSUME NEW k \in N1 - m1 + 1 .. N1
          PROVE  sendFifo'[k].mark # "tail"
      <4>1. CASE k = N1
        BY <2>3, <3>1, <4>1
      <4>2. CASE k # N1
        <5>1. k \in 1 .. L /\ k + s \in N - m + 1 .. N
          BY <1>1, <1>2, <1>7, <3>1, <3>2, <4>2 DEF L
        <5> QED
          BY <1>2, <1>4, <5>1
      <4> QED
        BY <4>1, <4>2
    <3>3. ASSUME m1 < N1
          PROVE  sendFifo'[N1 - m1].mark = "tail"
      <4>1. L - m \in 1 .. L /\ (L - m) + s = N - m /\ m < N /\ N1 - m1 = L - m
        BY <1>1, <1>2, <1>7, <3>1, <3>3 DEF L
      <4> QED
        BY <1>2, <1>4, <4>1
    <3> QED
      BY <1>1, <1>2, <1>7, <3>1, <3>2, <3>3
  <2> QED
    BY <2>1, <2>2, <2>3
<1>10. \A k \in 1 .. N1 - 1 : sendFifo'[k].mark = "tail" <=> sendFifo'[k + 1].mark = "head"
  <2> TAKE k \in 1 .. N1 - 1
  <2>1. CASE k < L
    <3>1. k \in 1 .. L /\ k + 1 \in 1 .. L /\ k + s \in 1 .. N - 1 /\ (k + 1) + s = (k + s) + 1
      BY <1>1, <1>2, <2>1 DEF L
    <3> QED
      BY <1>2, <1>8, <3>1
  <2>2. CASE ~(k < L)
    <3>1. hw.wrenSend /\ k = L /\ N1 = L + 1 /\ L \in 1 .. L
      BY <1>1, <1>2, <2>2 DEF Pending
    <3>2. sendFifo'[L] = sendFifo[N] /\ sendFifo'[k + 1] = hw.dinSend
      <4>1. L + s = N
        BY <1>1 DEF L
      <4> QED
        BY <1>2, <3>1, <4>1
    <3>3. sendFifo[N].mark = "tail" <=> m = 0
      <4>1. N >= 1
        BY <1>1, <3>1 DEF L
      <4>2. CASE m = 0
        BY <1>1, <1>4, <4>1, <4>2
      <4>3. CASE m > 0
        <5>1. N \in N - m + 1 .. N
          BY <1>1, <4>1, <4>3
        <5> QED
          BY <1>4, <4>3, <5>1
      <4> QED
        BY <1>1, <4>2, <4>3
    <3> QED
      BY <1>4, <3>1, <3>2, <3>3
  <2> QED
    BY <2>1, <2>2
<1>11. SendOrder'
  BY <1>10 DEF SendOrder, N1
<1> QED
  BY <1>5, <1>6, <1>9, <1>11 DEF N, N1, m1

(* The length in the send mailbox is the driver's until the tag is set and  *)
(* stays until it is cleared.                                               *)
LEMMA SendLenStep ==
  ASSUME TypeInv, AccessInv, NEW go \in BOOLEAN, Driver(go)
  PROVE  /\ pc' \in {"fill", "fire"} => \/ pc \in {"fill", "fire"} /\ len' = len
                                        \/ pc = "app" /\ pc' = "fill"
         /\ pc = "app" /\ pc' = "fill" => ram[SendTag] # Number(1) /\ len' \in SendLengths
         /\ IF pc = "app" /\ pc' = "fill" THEN ram'[SendLen] = Number(len')
            ELSE /\ ram'[SendLen] = ram[SendLen]
                 /\ hw.addr = SendLen => ramQ' = ram[SendLen]
<1>1. /\ SendTag = Half /\ SendLen = Half + 1 /\ SendPkt = Half + 2 /\ RecvTag = 0 /\ RecvPkt = 2
      /\ Half \in Nat /\ Half > 2 /\ SendLen \in Addresses /\ i \in Nat
  BY Sizes DEF SendTag, SendLen, SendPkt, RecvTag, RecvPkt, Addresses, TypeInv
<1>2. ~(hw.wren /\ hw.addr = SendLen)
  BY <1>1 DEF AccessInv, RecvLen
<1>3. \A n \in Nat : Number(n) \in CellRec
  BY DEF Number, Cell, CellRec
<1>4. ASSUME Memory({})
      PROVE  ram'[SendLen] = ram[SendLen] /\ (hw.addr = SendLen => ramQ' = ram[SendLen])
  BY <1>1, <1>2, <1>4, MemoryNone
<1>5. ASSUME NEW a \in Nat, NEW v \in CellRec, a # SendLen, Memory({<<a, v>>})
      PROVE  ram'[SendLen] = ram[SendLen] /\ (hw.addr = SendLen => ramQ' = ram[SendLen])
  BY <1>1, <1>2, <1>5, MemoryOne
<1>6. CASE Memory({}) /\ UNCHANGED driver
  BY <1>4, <1>6 DEF driver
<1>7. CASE Read
  <2>1. CASE /\ pc = "app" /\ \E v \in SeesAt(RecvTag) : pc' = IF v = Number(1) THEN "len" ELSE "app"
             /\ Memory({}) /\ UNCHANGED <<i, len, buf, made, got, sends>>
    BY <1>4, <2>1
  <2>2. CASE /\ pc = "len" /\ \E v \in SeesAt(RecvLen) : len' = v.val
             /\ i' = 0 /\ buf' = << >> /\ pc' \in {"copy", "release"}
             /\ Memory({}) /\ UNCHANGED <<made, got, sends>>
    BY <1>4, <2>2
  <2>3. CASE /\ pc = "copy" /\ \E v \in SeesAt(RecvPkt + i) : buf' = Append(buf, v)
             /\ i' = i + 1 /\ pc' = IF i + 1 = len THEN "release" ELSE "copy"
             /\ Memory({}) /\ UNCHANGED <<len, made, got, sends>>
    BY <1>4, <2>3
  <2>4. CASE /\ pc = "release" /\ Memory({<<RecvTag, Number(2)>>})
             /\ got' = Append(got, buf) /\ buf' = << >> /\ pc' = "app"
             /\ UNCHANGED <<i, len, made, sends>>
    <3>1. RecvTag \in Nat /\ RecvTag # SendLen /\ Number(2) \in CellRec
      BY <1>1, <1>3
    <3> QED
      BY <1>5, <2>4, <3>1
  <2> QED
    BY <1>7, <2>1, <2>2, <2>3, <2>4 DEF Read
<1>8. CASE Send
  <2>1. CASE /\ pc = "app" /\ made < MaxOut + restarts /\ ram[SendTag] # Number(1)
             /\ \E n \in SendLengths : len' = n /\ Memory({<<SendLen, Number(n)>>})
             /\ made' = made + 1
             /\ i' = 0 /\ pc' = "fill" /\ UNCHANGED <<buf, got, sends>>
    <3>1. PICK n \in SendLengths : len' = n /\ Memory({<<SendLen, Number(n)>>})
      BY <2>1
    <3>2. SendLen \in Nat /\ Number(n) \in CellRec
      BY <1>1, <1>3, Sizes
    <3>3. ram'[SendLen] = Number(n)
      BY <1>1, <1>2, <3>1, <3>2, MemoryOne
    <3> QED
      BY <2>1, <3>1, <3>3
  <2>2. CASE /\ pc = "fill" /\ Memory({<<SendPkt + i, Cell(MaxIn + made, i)>>})
             /\ i' = i + 1 /\ pc' = IF i + 1 = len THEN "fire" ELSE "fill"
             /\ UNCHANGED <<len, buf, made, got, sends>>
    <3>1. SendPkt + i \in Nat /\ SendPkt + i # SendLen
      BY <1>1
    <3>2. Cell(MaxIn + made, i) \in CellRec
      BY <1>1, Sizes DEF Cell, CellRec, TypeInv
    <3> QED
      BY <1>5, <2>2, <3>1, <3>2
  <2>3. CASE /\ pc = "fire" /\ Memory({<<SendTag, Number(1)>>})
             /\ sends' = Append(sends, <<made, len>>) /\ pc' = "spin"
             /\ UNCHANGED <<i, len, buf, made, got>>
    <3>1. SendTag \in Nat /\ SendTag # SendLen /\ Number(1) \in CellRec
      BY <1>1, <1>3
    <3> QED
      BY <1>5, <2>3, <3>1
  <2>4. CASE /\ pc = "spin" /\ \E v \in SeesAt(SendTag) : pc' = IF v = Number(1) THEN "spin" ELSE "app"
             /\ Memory({}) /\ UNCHANGED <<i, len, buf, made, got, sends>>
    BY <1>4, <2>4
  <2> QED
    BY <1>8, <2>1, <2>2, <2>3, <2>4 DEF Send
<1> QED
  BY <1>6, <1>7, <1>8 DEF Driver

LEMMA SendMailStep ==
  ASSUME TypeInv, AccessInv, TagInv, SendMailInv, AccessInv', TypeInv',
         NEW go \in BOOLEAN, CheckPkt, Driver(go)
  PROVE  SendMailInv'
<1>1. /\ SendTag = Half /\ SendLen = Half + 1 /\ RecvTag = 0 /\ RecvLen = 1 /\ RecvPkt = 2
      /\ Half \in Nat /\ Half > 2
  BY Sizes DEF SendTag, SendLen, RecvTag, RecvLen, RecvPkt
<1>2. /\ pc' \in {"fill", "fire"} => \/ pc \in {"fill", "fire"} /\ len' = len
                                     \/ pc = "app" /\ pc' = "fill"
      /\ pc = "app" /\ pc' = "fill" => ram[SendTag] # Number(1) /\ len' \in SendLengths
      /\ IF pc = "app" /\ pc' = "fill" THEN ram'[SendLen] = Number(len')
         ELSE /\ ram'[SendLen] = ram[SendLen]
              /\ hw.addr = SendLen => ramQ' = ram[SendLen]
  BY SendLenStep
<1>3. /\ dout' = ramQ
      /\ ram'[SendTag] = IF hw.wren /\ hw.addr = SendTag THEN hw.din
                         ELSE IF pc = "fire" /\ pc' = "spin" THEN Number(1) ELSE ram[SendTag]
  BY TagStep
<1>4. Number(0) # Number(1) /\ Number(0).val % 2 = 0 /\ \A n \in Nat : Number(n).val = n
  BY DEF Number, Cell
<1>5. /\ hw.state = "WAIT_2" /\ hw.addr >= Half => hw.addr = SendLen
      /\ hw.wren /\ hw.addr = SendTag => hw.din = Number(0)
  BY <1>1 DEF AccessInv
<1>6. pc' \in {"fill", "fire"} => len' \in SendLengths /\ ram'[SendLen] = Number(len')
  BY <1>2 DEF SendMailInv
<1>7. ram[SendTag] = Number(1) => ram'[SendLen] = ram[SendLen] /\ (hw.addr = SendLen => ramQ' = ram[SendLen])
  BY <1>2
<1>8. ram'[SendTag] = Number(1) => ram'[SendLen].val \in SendLengths
  <2> SUFFICES ASSUME ram'[SendTag] = Number(1)
               PROVE  ram'[SendLen].val \in SendLengths
    OBVIOUS
  <2>1. CASE pc = "fire" /\ pc' = "spin"
    <3>1. ram'[SendLen] = Number(len) /\ len \in SendLengths
      BY <1>2, <2>1 DEF SendMailInv
    <3> QED
      BY <1>4, <3>1, Sizes
  <2>2. CASE ~(pc = "fire" /\ pc' = "spin")
    <3>1. ram[SendTag] = Number(1)
      BY <1>3, <1>4, <1>5, <2>2
    <3> QED
      BY <1>7, <3>1 DEF SendMailInv, MailLen
  <2> QED
    BY <2>1, <2>2
<1>9. hw'.state = "CHECK_SEND" /\ dout' = Number(1) => ramQ' = ram'[SendLen]
  <2> SUFFICES ASSUME hw'.state = "CHECK_SEND", dout' = Number(1)
               PROVE  ramQ' = ram'[SendLen]
    OBVIOUS
  <2>1. hw.state = "WAIT_2" /\ hw.addr >= Half
    BY HwMoves
  <2>2. ram[SendTag] = Number(1)
    BY <1>3, <1>4, <2>1 DEF TagInv
  <2> QED
    BY <1>5, <1>7, <2>1, <2>2
<1>10. hw'.state = "READ_SEND_LENGTH" => dout' = ram'[SendLen]
  <2> SUFFICES ASSUME hw'.state = "READ_SEND_LENGTH"
               PROVE  dout' = ram'[SendLen]
    OBVIOUS
  <2>1. hw.state = "CHECK_SEND" /\ dout.val % 2 = 1
    <3>1. hw \in HwRec
      BY DEF TypeInv
    <3> QED
      BY <3>1 DEF CheckPkt, Idle, Wait, CheckRecv, WriteRecvPkt, WriteRecvLength, WriteRecvTag,
                  CheckSend, ReadSendLength, ReadSendPkt, HwRec, Leaving
  <2>2. dout # Number(0)
    BY <1>4, <2>1
  <2>3. dout = ram[SendTag] /\ ram[SendTag] \in {Number(0), Number(1)}
    BY <2>1, <2>2 DEF TagInv
  <2>4. ramQ = ram[SendLen] /\ ram[SendTag] = Number(1)
    BY <2>1, <2>2, <2>3 DEF SendMailInv
  <2> QED
    BY <1>3, <1>7, <2>4
<1> QED
  BY <1>6, <1>8, <1>9, <1>10 DEF SendMailInv, MailLen, SendLen, SendTag, Number, Cell

LEMMA OpenStep ==
  ASSUME TypeInv, AccessInv, TagInv, SendTypeInv, SendMailInv, SendOrder, OpenInv, CountInv,
         SendFifo, CheckPkt, NEW go \in BOOLEAN, Driver(go),
         hw.wrenSend => Len(sendFifo) < Cap
  PROVE  OpenInv'
<1>1. PICK m \in 0 .. Len(sendFifo) : Open(m)
  BY DEF OpenInv
<1> DEFINE m1 == PushedTo(m)
<1>2. /\ m1 \in 0 .. Len(sendFifo')
      /\ \A k \in Len(sendFifo') - m1 + 1 .. Len(sendFifo') : sendFifo'[k].mark # "tail"
      /\ m1 < Len(sendFifo') => sendFifo'[Len(sendFifo') - m1].mark = "tail"
  BY <1>1, OpenShape
<1>3. /\ m \in Nat /\ hw.count \in Nat /\ hw.count < Q /\ Q \in Nat /\ Q > 1
      /\ hw.sendLength \in Int /\ hw.head \in BOOLEAN /\ hw.wrenSend \in BOOLEAN
      /\ hw.dinSend.mark \in {"head", "body", "tail"}
  BY <1>1, Sizes DEF TypeInv, HwRec, LeavingRec, SendTypeInv
<1>4. Reading => m1 = m + Pending
  BY <1>1, <1>3 DEF PushedTo, Pending, Open
<1>5. ~Reading => m1 = 0
  BY <1>1, <1>3 DEF PushedTo, Open
<1>6. hw.state \in {"READ_SEND_PKT", "READ_SEND_LENGTH"} => ram'[SendLen] = ram[SendLen]
  BY SendLenStep DEF TagInv
<1>7. m1 \in Nat /\ Len(sendFifo') \in Nat
  <2>1. Len(sendFifo') \in Nat
    BY SendFifoStep DEF Pending
  <2> QED
    BY <1>2, <2>1
<1>8. hw.wrenSend => hw.state \in {"READ_SEND_PKT", "IDLE"}
  BY <1>1 DEF Open
<1> HIDE DEF m1
<1>9. /\ hw'.wrenSend => /\ hw'.state \in {"READ_SEND_PKT", "IDLE"}
                         /\ hw'.dinSend.mark = "head" <=> m1 = 0
      /\ Reading' => /\ hw'.sendLength >= 0
                     /\ hw'.head <=> m1 + Pending' = 0
                     /\ (m1 + Pending') * Q + hw'.count + hw'.sendLength + 1 = MailLen'
                     /\ hw'.wrenSend => hw'.dinSend.mark # "tail"
      /\ ~Reading' => /\ hw'.sendLength = 0
                      /\ IF hw'.wrenSend THEN hw'.dinSend.mark = "tail" /\ Thr + m1 + 1 <= Cap
                                         ELSE m1 = 0
  <2>1. CASE Reading
    <3>1. /\ hw.sendLength >= 0 /\ (hw.head <=> m1 = 0)
          /\ m1 * Q + hw.count + hw.sendLength + 1 = MailLen
      BY <1>1, <1>4, <2>1 DEF Open
    <3>2. /\ Thr + m1 + 1 <= Cap /\ (hw.sendLength = 0 => ~hw.head)
      <4>1. Thr + m + Pending + 1 <= Cap /\ (hw.sendLength = 0 => ~hw.head)
        BY <1>1, <1>3, <2>1, OpenFits
      <4> QED
        BY <1>3, <1>4, <2>1, <4>1, Sizes DEF Pending
    <3>3. ram'[SendLen] = ram[SendLen]
      BY <1>6, <2>1 DEF Reading
    <3>4. m1 * Q \in Nat /\ (m1 + 1) * Q = m1 * Q + Q
      BY <1>7, SumOfWord
    <3>5. CASE /\ hw.sendLength = 0
               /\ hw'.wrenSend /\ hw'.sendLength = 0 /\ hw'.dinSend.mark = "tail" /\ hw'.state = "IDLE"
      BY <3>1, <3>2, <3>5 DEF Reading
    <3>6. CASE /\ hw.sendLength # 0 /\ hw.count = Q - 1
               /\ hw'.wrenSend /\ ~hw'.head /\ hw'.dinSend.mark = (IF hw.head THEN "head" ELSE "body")
               /\ hw'.count = 0 /\ hw'.sendLength = hw.sendLength - 1 /\ hw'.state = "READ_SEND_PKT"
      <4>1. Pending' = 1 /\ m1 + Pending' = m1 + 1
        BY <3>6 DEF Pending
      <4>2. MailLen' = MailLen
        BY <3>3 DEF MailLen, SendLen
      <4> DEFINE x == m1 * Q
      <4>3. (m1 + Pending') * Q = x + Q
        BY <3>4, <4>1
      <4> HIDE DEF x
      <4>4. x \in Nat /\ x + hw.count + hw.sendLength + 1 = MailLen
        BY <3>1, <3>4 DEF x
      <4>5. (m1 + Pending') * Q + hw'.count + hw'.sendLength + 1 = MailLen'
        BY <1>3, <3>6, <4>2, <4>3, <4>4
      <4>6. hw'.sendLength >= 0 /\ m1 + Pending' # 0
        BY <1>3, <1>7, <3>1, <3>6, <4>1
      <4> QED
        BY <3>1, <3>6, <4>5, <4>6 DEF Reading
    <3>7. CASE /\ hw.sendLength # 0 /\ hw.count # Q - 1
               /\ ~hw'.wrenSend /\ hw'.head = hw.head /\ hw'.count = hw.count + 1
               /\ hw'.sendLength = hw.sendLength - 1 /\ hw'.state = "READ_SEND_PKT"
      <4>1. Pending' = 0 /\ m1 + Pending' = m1
        BY <1>7, <3>7 DEF Pending
      <4>2. MailLen' = MailLen
        BY <3>3 DEF MailLen, SendLen
      <4> DEFINE x == m1 * Q
      <4>3. (m1 + Pending') * Q = x
        BY <4>1
      <4> HIDE DEF x
      <4>4. x \in Nat /\ x + hw.count + hw.sendLength + 1 = MailLen
        BY <3>1, <3>4 DEF x
      <4> DEFINE c == hw.count
                 l == hw.sendLength
      <4>7. hw'.count = c + 1 /\ hw'.sendLength = l - 1 /\ c \in Nat /\ l \in Int
        BY <1>3, <3>7
      <4>8. x + c + l + 1 = MailLen
        BY <4>4
      <4> HIDE DEF c, l
      <4>5. (m1 + Pending') * Q + hw'.count + hw'.sendLength + 1 = MailLen'
        BY <4>2, <4>3, <4>4, <4>7, <4>8
      <4>6. hw'.sendLength >= 0
        BY <1>3, <3>1, <3>7
      <4> QED
        BY <3>1, <3>7, <4>1, <4>5, <4>6 DEF Reading
    <3> QED
      BY <1>8, <2>1, <3>5, <3>6, <3>7, HwSends DEF Reading
  <2>2. CASE hw.state = "READ_SEND_LENGTH"
    <3>1. ~Reading /\ m1 = 0
      BY <1>5, <2>2 DEF Reading
    <3>2. /\ ~hw'.wrenSend /\ hw'.head /\ hw'.count = 0
          /\ hw'.sendLength = dout.val - 1 /\ hw'.state = "READ_SEND_PKT"
      BY <1>8, <2>2, <3>1, HwSends
    <3>3. dout = ram[SendLen] /\ ram'[SendLen] = ram[SendLen] /\ MailLen \in SendLengths
      BY <1>6, <2>2 DEF SendMailInv, TagInv
    <3>4. MailLen \in Nat /\ MailLen > 1
      BY <3>3, WordsOfOk, Sizes
    <3>5. MailLen' = MailLen /\ hw'.sendLength = MailLen - 1
      BY <3>2, <3>3 DEF MailLen, SendLen
    <3>6. Pending' = 0 /\ (m1 + Pending') * Q = 0 /\ m1 + Pending' = 0
      BY <1>3, <3>1, <3>2 DEF Pending
    <3> QED
      BY <3>2, <3>4, <3>5, <3>6 DEF Reading
  <2>3. CASE ~Reading /\ hw.state # "READ_SEND_LENGTH"
    <3>1. ~hw'.wrenSend /\ hw'.sendLength = hw.sendLength /\ hw'.state # "READ_SEND_PKT"
      BY <1>8, <2>3, HwSends
    <3>2. hw.sendLength = 0
      BY <1>1, <2>3 DEF Open
    <3> QED
      BY <1>5, <2>3, <3>1, <3>2 DEF Reading
  <2> QED
    BY <2>1, <2>2, <2>3
<1>10. PICK q \in 0 .. Len(sendFifo') : q = m1
  BY <1>2
<1>11. Open(q)'
  BY <1>2, <1>9, <1>10 DEF Open
<1> QED
  BY <1>10, <1>11 DEF OpenInv

(* cnt_pkt, of eight bits, does not wrap: so many tails never wait. *)
LEMMA CountFits ==
  ASSUME TypeInv, SendTypeInv, OpenInv, CountInv, RoomInv
  PROVE  /\ Tails(sendFifo) \in Nat /\ Tails(sendFifo) <= Len(sendFifo)
         /\ Tails(sendFifo) > 0 => /\ Len(sendFifo) <= 255
                                   /\ hw.wrenSend => Len(sendFifo) <= 254
                                   /\ Thr + Len(sendFifo) <= Cap + 1
<1>1. /\ Len(sendFifo) \in Nat /\ Cap \in Nat /\ Thr \in Nat /\ Cap < Thr + 255
      /\ stateSend \in {"IDLE", "WAIT_TAIL"} /\ hw.wrenSend \in BOOLEAN
  BY Sizes DEF SendTypeInv, TypeInv, HwRec
<1>2. Tails(sendFifo) \in Nat /\ Tails(sendFifo) <= Len(sendFifo)
  BY TailsOf DEF SendTypeInv
<1>3. Tails(sendFifo) > 0 => Waiting <= Room + 2
  <2>1. Waiting \in Int /\ Room \in Int
    BY <1>1 DEF Waiting, Room, Credit, Pending
  <2>2. Tails(sendFifo) > 0 => Waiting <= Room + 1 \/ Waiting <= Room + 2
    BY <1>1 DEF RoomInv
  <2> QED
    BY <2>1, <2>2
<1>4. Credit \in {-1, 0, 1} /\ Pending = IF hw.wrenSend THEN 1 ELSE 0
  BY DEF Credit, Pending
<1>5. Tails(sendFifo) > 0 =>
        2 * (Len(sendFifo) + Pending) + Credit <= 2 * (Cap - Thr) + 2
  BY <1>3 DEF Waiting, Room
<1> QED
  BY <1>1, <1>2, <1>4, <1>5

LEMMA CountNext ==
  ASSUME TypeInv, SendTypeInv, OpenInv, CountInv, RoomInv, CountPackets
  PROVE  cntPkt' = cntPkt + (IF hw.wrenSend /\ hw.dinSend.mark = "tail" THEN 1 ELSE 0)
                          - (IF valid /\ out.mark = "head" THEN 1 ELSE 0)
<1> DEFINE up   == hw.wrenSend /\ hw.dinSend.mark = "tail"
           down == valid /\ out.mark = "head"
<1>1. /\ Tails(sendFifo) \in Nat /\ Tails(sendFifo) <= Len(sendFifo) /\ Len(sendFifo) \in Nat
      /\ Tails(sendFifo) > 0 => /\ Len(sendFifo) <= 255
                                /\ hw.wrenSend => Len(sendFifo) <= 254
      /\ cntPkt \in Nat /\ stateSend \in {"IDLE", "WAIT_TAIL"}
  BY CountFits DEF SendTypeInv
<1>2. cntPkt <= Tails(sendFifo)
  BY <1>1 DEF CountInv
<1>3. up => cntPkt <= 254
  BY <1>1, <1>2
<1>4. down => cntPkt > 0 /\ cntPkt <= 255
  <2> SUFFICES ASSUME down
               PROVE  cntPkt > 0 /\ cntPkt <= 255
    OBVIOUS
  <2>1. stateSend = "WAIT_TAIL"
    BY <1>1 DEF CountInv, Fresh
  <2>2. cntPkt = Tails(sendFifo) /\ Tails(sendFifo) > 0
    BY <2>1 DEF CountInv
  <2> QED
    BY <1>1, <2>2
<1>5. cntPkt' = IF up /\ ~down THEN (cntPkt + 1) % 256
                ELSE IF down /\ ~up THEN (cntPkt + 255) % 256
                ELSE cntPkt
  BY DEF CountPackets
<1> HIDE DEF up, down
<1>6. up => (cntPkt + 1) % 256 = cntPkt + 1
  BY <1>1, <1>3
<1>7. down => (cntPkt + 255) % 256 = cntPkt - 1
  BY <1>1, <1>4
<1>8. cntPkt' = cntPkt + (IF up THEN 1 ELSE 0) - (IF down THEN 1 ELSE 0)
  <2>1. CASE up /\ down
    BY <1>1, <1>5, <2>1
  <2>2. CASE up /\ ~down
    BY <1>1, <1>5, <1>6, <2>2
  <2>3. CASE ~up /\ down
    BY <1>1, <1>5, <1>7, <2>3
  <2>4. CASE ~up /\ ~down
    BY <1>1, <1>5, <2>4
  <2> QED
    BY <2>1, <2>2, <2>3, <2>4
<1> QED
  BY <1>8 DEF up, down

(* What leaves in a clock. *)
LEMMA SendMoves ==
  ASSUME SendTypeInv, CountInv, SendPacket
  PROVE  /\ valid' \in BOOLEAN /\ rdenSend' \in BOOLEAN /\ stateSend' \in {"IDLE", "WAIT_TAIL"}
         /\ rdenSend' <=> stateSend' = "WAIT_TAIL"
         /\ stateSend = "IDLE" =>
              /\ ~valid'
              /\ stateSend' = IF cntPkt # 0 THEN "WAIT_TAIL" ELSE "IDLE"
         /\ stateSend = "WAIT_TAIL" =>
              /\ valid' /\ out'.mark = sendFifo[1].mark
              /\ sendFifo # << >> /\ sendFifo[1].mark \in {"head", "body", "tail"}
              /\ stateSend' = IF sendFifo[1].mark = "tail" THEN "IDLE" ELSE "WAIT_TAIL"
<1>1. /\ sendFifo \in Seq(LeavingRec) /\ rdenSend \in BOOLEAN /\ stateSend \in {"IDLE", "WAIT_TAIL"}
      /\ rdenSend <=> stateSend = "WAIT_TAIL"
  BY DEF SendTypeInv, CountInv
<1>2. CASE stateSend = "IDLE"
  BY <1>1, <1>2 DEF SendPacket
<1>3. CASE stateSend = "WAIT_TAIL"
  <2>1. Tails(sendFifo) > 0
    BY <1>3 DEF CountInv
  <2>2. sendFifo # << >>
    <3> SUFFICES ASSUME sendFifo = << >>
                 PROVE  FALSE
      OBVIOUS
    <3>1. Tails(sendFifo) <= Len(sendFifo) /\ Tails(sendFifo) \in Nat
      BY <1>1, TailsOf
    <3>2. Len(sendFifo) = 0
      OBVIOUS
    <3> QED
      BY <2>1, <3>1, <3>2
  <2>3. sendFifo[1] \in LeavingRec
    BY <1>1, <2>2
  <2>4. sendFifo[1].mark \in {"head", "body", "tail"}
    BY <2>3 DEF LeavingRec
  <2>5. Head(sendFifo) = sendFifo[1]
    BY <1>1, <2>2
  <2> QED
    BY <1>1, <1>3, <2>2, <2>4, <2>5 DEF SendPacket
<1> QED
  BY <1>1, <1>2, <1>3

LEMMA CountStep ==
  ASSUME TypeInv, TagInv, SendTypeInv, SendMailInv, SendOrder, OpenInv, CountInv, RoomInv,
         SendFifo, CountPackets, SendPacket, hw.wrenSend => Len(sendFifo) < Cap
  PROVE  CountInv'
<1> DEFINE T  == Tails(sendFifo)
           T1 == Tails(sendFifo')
           N  == Len(sendFifo)
           s  == IF stateSend = "WAIT_TAIL" THEN 1 ELSE 0
           L  == N - s
           up == IF hw.wrenSend /\ hw.dinSend.mark = "tail" THEN 1 ELSE 0
           f1 == sendFifo[1].mark
<1>1. /\ stateSend \in {"IDLE", "WAIT_TAIL"} /\ N \in Nat /\ sendFifo \in Seq(LeavingRec)
      /\ cntPkt \in Nat /\ valid \in BOOLEAN /\ hw.wrenSend \in BOOLEAN
      /\ hw.dinSend.mark \in {"head", "body", "tail"}
  BY DEF SendTypeInv, TypeInv, HwRec, LeavingRec
<1>2. /\ L \in Nat /\ Len(sendFifo') = L + Pending
      /\ \A k \in 1 .. L : sendFifo'[k] = sendFifo[k + s]
      /\ hw.wrenSend => sendFifo'[L + 1] = hw.dinSend
      /\ T1 = T - (IF s = 1 /\ f1 = "tail" THEN 1 ELSE 0) + up
      /\ sendFifo' \in Seq(LeavingRec)
  BY SendFifoStep
<1>3. T \in Nat /\ T <= N
  BY CountFits
<1>4. cntPkt' = cntPkt + up - (IF valid /\ out.mark = "head" THEN 1 ELSE 0)
  BY CountNext
<1>5. /\ valid' \in BOOLEAN /\ stateSend' \in {"IDLE", "WAIT_TAIL"}
      /\ rdenSend' <=> stateSend' = "WAIT_TAIL"
      /\ stateSend = "IDLE" =>
           /\ ~valid'
           /\ stateSend' = IF cntPkt # 0 THEN "WAIT_TAIL" ELSE "IDLE"
      /\ stateSend = "WAIT_TAIL" =>
           /\ valid' /\ out'.mark = f1
           /\ sendFifo # << >> /\ f1 \in {"head", "body", "tail"}
           /\ stateSend' = IF f1 = "tail" THEN "IDLE" ELSE "WAIT_TAIL"
  BY SendMoves
<1>6. /\ N > 0 => (f1 = "head" <=> Fresh)
      /\ stateSend = "IDLE" => Fresh /\ cntPkt = T
      /\ stateSend = "WAIT_TAIL" =>
           T > 0 /\ cntPkt = IF valid /\ out.mark = "body" THEN T - 1 ELSE T
  BY <1>1 DEF CountInv
<1>7. up \in {0, 1}
  OBVIOUS
<1>8. PICK m \in 0 .. N : Open(m)
  BY DEF OpenInv
<1>9. /\ hw.wrenSend => (hw.dinSend.mark = "head" <=> m = 0)
      /\ stateSend = "WAIT_TAIL" => m < N
      /\ stateSend = "IDLE" /\ T = 0 => m = N
      /\ m < N => sendFifo[N - m].mark = "tail"
  <2>1. hw.wrenSend => (hw.dinSend.mark = "head" <=> m = 0)
    BY <1>8 DEF Open
  <2>2. m < N => sendFifo[N - m].mark = "tail"
    BY <1>8 DEF Open
  <2>3. /\ stateSend = "WAIT_TAIL" => m < N
        /\ stateSend = "IDLE" /\ T = 0 => m = N
    BY <1>8, OpenShape
  <2> QED
    BY <2>1, <2>2, <2>3
<1>10. N > 1 => (f1 = "tail" <=> sendFifo[2].mark = "head")
  BY <1>1 DEF SendOrder
<1>11. sendFifo' # << >> => L + Pending > 0
  BY <1>2
(* The front of the FIFO. *)
<1>12. sendFifo' # << >> => (sendFifo'[1].mark = "head" <=> Fresh')
  <2> SUFFICES ASSUME sendFifo' # << >>
               PROVE  sendFifo'[1].mark = "head" <=> Fresh'
    OBVIOUS
  <2>1. CASE stateSend = "IDLE"
    <3>1. Fresh' /\ s = 0 /\ L = N
      BY <1>1, <1>5, <2>1 DEF Fresh
    <3>2. CASE N > 0
      BY <1>2, <1>6, <2>1, <3>1, <3>2
    <3>3. CASE N = 0
      <4>1. m = 0
        BY <1>8, <3>3
      <4>2. hw.wrenSend
        BY <1>11, <3>1, <3>3 DEF Pending
      <4>3. sendFifo'[1] = hw.dinSend
        BY <1>2, <3>1, <3>3, <4>2
      <4> QED
        BY <1>9, <3>1, <4>1, <4>2, <4>3
    <3> QED
      BY <1>1, <3>2, <3>3
  <2>2. CASE stateSend = "WAIT_TAIL"
    <3>1. (Fresh' <=> f1 = "tail") /\ s = 1 /\ L = N - 1
      BY <1>5, <2>2 DEF Fresh
    <3>2. CASE N > 1
      <4>1. sendFifo'[1] = sendFifo[2]
        BY <1>1, <1>2, <3>1, <3>2
      <4> QED
        BY <1>10, <3>1, <3>2, <4>1
    <3>3. CASE ~(N > 1)
      <4>1. N = 1 /\ L = 0 /\ m = 0
        <5>1. m < N /\ N \in Nat /\ m \in Nat /\ L = N - 1 /\ ~(N > 1)
          BY <1>1, <1>8, <1>9, <2>2, <3>1, <3>3
        <5> HIDE DEF N, L
        <5> QED
          BY <5>1
      <4>2. f1 = "tail"
        BY <1>9, <4>1
      <4>3. hw.wrenSend
        BY <1>11, <4>1 DEF Pending
      <4>4. sendFifo'[1] = hw.dinSend
        BY <1>2, <4>1, <4>3
      <4> QED
        BY <1>9, <3>1, <4>1, <4>2, <4>3, <4>4
    <3> QED
      BY <3>2, <3>3
  <2> QED
    BY <1>1, <2>1, <2>2
<1> HIDE DEF T, T1, L, up, f1, N
<1>13. stateSend' = "IDLE" => Fresh' /\ cntPkt' = T1
  <2> SUFFICES ASSUME stateSend' = "IDLE"
               PROVE  Fresh' /\ cntPkt' = T1
    OBVIOUS
  <2>1. CASE stateSend = "IDLE"
    BY <1>1, <1>2, <1>3, <1>4, <1>5, <1>6, <1>7, <2>1 DEF Fresh
  <2>2. CASE stateSend = "WAIT_TAIL"
    <3>1. f1 = "tail" /\ Fresh'
      BY <1>5, <2>2 DEF Fresh
    <3>2. N > 0
      BY <1>1, <1>5, <2>2 DEF N
    <3>3. valid /\ out.mark \in {"head", "body"}
      BY <1>6, <3>1, <3>2 DEF Fresh
    <3>4. T1 = T - 1 + up /\ T > 0
      BY <1>2, <1>3, <1>6, <1>7, <2>2, <3>1
    <3>5. CASE out.mark = "head"
      BY <1>1, <1>3, <1>4, <1>6, <1>7, <2>2, <3>1, <3>3, <3>4, <3>5
    <3>6. CASE out.mark = "body"
      BY <1>1, <1>3, <1>4, <1>6, <1>7, <2>2, <3>1, <3>3, <3>4, <3>6
    <3> QED
      BY <3>3, <3>5, <3>6
  <2> QED
    BY <1>1, <2>1, <2>2
<1>14. stateSend' = "WAIT_TAIL" =>
         T1 > 0 /\ cntPkt' = IF valid' /\ out'.mark = "body" THEN T1 - 1 ELSE T1
  <2> SUFFICES ASSUME stateSend' = "WAIT_TAIL"
               PROVE  T1 > 0 /\ cntPkt' = IF valid' /\ out'.mark = "body" THEN T1 - 1 ELSE T1
    OBVIOUS
  <2>1. CASE stateSend = "IDLE"
    BY <1>1, <1>2, <1>3, <1>4, <1>5, <1>6, <1>7, <2>1 DEF Fresh
  <2>2. CASE stateSend = "WAIT_TAIL"
    <3>1. f1 \in {"head", "body"} /\ out'.mark = f1 /\ valid'
      BY <1>5, <2>2
    <3>2. N > 0
      BY <1>1, <1>5, <2>2 DEF N
    <3>3. T1 = T + up /\ T > 0
      BY <1>2, <1>3, <1>6, <1>7, <2>2, <3>1
    <3>4. CASE f1 = "head"
      <4>1. Fresh
        BY <1>6, <3>2, <3>4
      <4>2. cntPkt' = T + up
        BY <1>3, <1>4, <1>6, <1>7, <2>2, <4>1 DEF Fresh
      <4> QED
        BY <1>3, <1>7, <3>1, <3>3, <3>4, <4>2
    <3>5. CASE f1 = "body"
      <4>1. valid /\ out.mark \in {"head", "body"}
        BY <1>6, <3>2, <3>5 DEF Fresh
      <4>2. CASE out.mark = "head"
        BY <1>3, <1>4, <1>6, <1>7, <2>2, <3>1, <3>3, <3>5, <4>1, <4>2
      <4>3. CASE out.mark = "body"
        BY <1>3, <1>4, <1>6, <1>7, <2>2, <3>1, <3>3, <3>5, <4>1, <4>3
      <4> QED
        BY <4>1, <4>2, <4>3
    <3> QED
      BY <3>1, <3>4, <3>5
  <2> QED
    BY <1>1, <2>1, <2>2
<1> QED
  BY <1>5, <1>12, <1>13, <1>14 DEF CountInv, T1

(* The words in the FIFO are never many more than those of one packet:      *)
(* words are pushed every second clock at most, but for a last one, and     *)
(* while a tail waits one leaves in two clocks of three.                    *)
LEMMA RoomStep ==
  ASSUME TypeInv, TagInv, SendTypeInv, SendMailInv, SendOrder, OpenInv, CountInv, RoomInv,
         SendFifo, CountPackets, SendPacket, CheckPkt, hw.wrenSend => Len(sendFifo) < Cap
  PROVE  RoomInv'
<1> DEFINE T  == Tails(sendFifo)
           T1 == Tails(sendFifo')
           N  == Len(sendFifo)
           s  == IF stateSend = "WAIT_TAIL" THEN 1 ELSE 0
           up == IF hw.wrenSend /\ hw.dinSend.mark = "tail" THEN 1 ELSE 0
<1>1. /\ stateSend \in {"IDLE", "WAIT_TAIL"} /\ N \in Nat
      /\ hw.wrenSend \in BOOLEAN /\ hw.count \in Nat /\ hw.count < Q /\ Q \in Nat /\ Q > 1
      /\ Cap \in Nat /\ Thr \in Nat
  BY Sizes DEF SendTypeInv, TypeInv, HwRec
<1>2. PICK m \in 0 .. N : Open(m)
  BY DEF OpenInv
<1>3. hw.wrenSend => hw.state \in {"READ_SEND_PKT", "IDLE"}
  BY <1>2 DEF Open
<1>4. 2 * Pending' + Credit' <= Credit + 1 /\ Pending' \in {0, 1} /\ Credit' \in {-1, 0, 1}
  <2>1. Pending' \in {0, 1} /\ Credit' \in {-1, 0, 1}
    BY DEF Pending, Credit
  <2>2. CASE /\ Reading /\ hw.sendLength = 0
             /\ hw'.wrenSend /\ hw'.sendLength = 0 /\ hw'.dinSend.mark = "tail" /\ hw'.state = "IDLE"
    BY <2>2 DEF Pending, Credit, Reading
  <2>3. CASE /\ Reading /\ hw.sendLength # 0 /\ hw.count = Q - 1
             /\ hw'.wrenSend /\ ~hw'.head /\ hw'.dinSend.mark = (IF hw.head THEN "head" ELSE "body")
             /\ hw'.count = 0 /\ hw'.sendLength = hw.sendLength - 1 /\ hw'.state = "READ_SEND_PKT"
    BY <1>1, <2>3 DEF Pending, Credit, Reading
  <2>4. CASE /\ Reading /\ hw.sendLength # 0 /\ hw.count # Q - 1
             /\ ~hw'.wrenSend /\ hw'.head = hw.head /\ hw'.count = hw.count + 1
             /\ hw'.sendLength = hw.sendLength - 1 /\ hw'.state = "READ_SEND_PKT"
    BY <1>1, <2>4 DEF Pending, Credit, Reading
  <2>5. CASE /\ hw.state = "READ_SEND_LENGTH"
             /\ ~hw'.wrenSend /\ hw'.head /\ hw'.count = 0
             /\ hw'.sendLength = dout.val - 1 /\ hw'.state = "READ_SEND_PKT"
    BY <2>5 DEF Pending, Credit, Reading
  <2>6. CASE /\ ~Reading /\ hw.state # "READ_SEND_LENGTH"
             /\ ~hw'.wrenSend /\ hw'.sendLength = hw.sendLength /\ hw'.state # "READ_SEND_PKT"
    BY <2>6 DEF Pending, Credit, Reading
  <2> QED
    BY <1>3, <2>1, <2>2, <2>3, <2>4, <2>5, <2>6, HwSends
<1>5. /\ Len(sendFifo') = N - s + Pending
      /\ T1 = T - (IF s = 1 /\ sendFifo[1].mark = "tail" THEN 1 ELSE 0) + up
  BY SendFifoStep
<1>6. Credit \in {-1, 0, 1} /\ Pending \in {0, 1}
  BY DEF Pending, Credit
<1>7. Waiting' <= Waiting - 2 * s + 1
  <2> DEFINE a == Pending
             b == Pending'
             c == Credit
             d == Credit'
  <2>1. Waiting = 2 * (N + a) + c /\ Waiting' = 2 * ((N - s + a) + b) + d
    BY <1>5 DEF Waiting
  <2>2. a \in {0, 1} /\ b \in {0, 1} /\ c \in {-1, 0, 1} /\ d \in {-1, 0, 1} /\ 2 * b + d <= c + 1
    BY <1>4, <1>6
  <2> HIDE DEF a, b, c, d, N
  <2> QED
    BY <1>1, <2>1, <2>2
<1>8. Waiting \in Int /\ Waiting' \in Int /\ Room \in Int
  <2>1. Len(sendFifo') \in Nat
    BY SendFifoStep DEF Pending
  <2> QED
    BY <1>1, <1>4, <1>6, <2>1 DEF Waiting, Room
<1>9. /\ stateSend = "IDLE" /\ T > 0 => Waiting <= Room + 1
      /\ stateSend = "WAIT_TAIL" => Waiting <= Room + (IF Fresh THEN 2 ELSE 1)
  BY DEF RoomInv
<1>10. /\ stateSend = "IDLE" =>
            /\ ~valid'
            /\ stateSend' = IF cntPkt # 0 THEN "WAIT_TAIL" ELSE "IDLE"
       /\ stateSend = "WAIT_TAIL" =>
            /\ valid' /\ out'.mark = sendFifo[1].mark
            /\ sendFifo # << >> /\ sendFifo[1].mark \in {"head", "body", "tail"}
            /\ stateSend' = IF sendFifo[1].mark = "tail" THEN "IDLE" ELSE "WAIT_TAIL"
  BY SendMoves
<1>11. /\ N > 0 => (sendFifo[1].mark = "head" <=> Fresh)
       /\ stateSend = "IDLE" => cntPkt = T
  BY <1>1 DEF CountInv, SendTypeInv
<1>12. T \in Nat /\ up \in {0, 1}
  BY CountFits
<1>13. Room' = Room
  BY DEF Room
(* A packet is complete and no other waits: it fits. *)
<1>14. stateSend = "IDLE" /\ T = 0 /\ hw.wrenSend /\ hw.dinSend.mark = "tail" => Waiting' <= Room + 1
  <2> SUFFICES ASSUME stateSend = "IDLE", T = 0, hw.wrenSend, hw.dinSend.mark = "tail"
               PROVE  Waiting' <= Room + 1
    OBVIOUS
  <2>1. m = N
    BY <1>2, OpenShape
  <2>2. ~Reading /\ Thr + m + 1 <= Cap
    BY <1>2 DEF Open
  <2>3. s = 0 /\ Pending = 1 /\ Credit = -1
    BY <2>2 DEF Pending, Credit
  <2>4. Waiting = 2 * (N + 1) - 1
    BY <1>1, <2>3 DEF Waiting
  <2>5. Waiting <= Room
    BY <1>1, <2>1, <2>2, <2>4 DEF Room
  <2> QED
    BY <1>7, <1>8, <2>3, <2>5
<1> HIDE DEF T, T1, N, up
<1>15. CASE stateSend = "IDLE"
  <2>1. s = 0 /\ Fresh' /\ T1 = T + up
    BY <1>5, <1>10, <1>12, <1>15 DEF Fresh
  <2>2. CASE T > 0
    <3>1. stateSend' = "WAIT_TAIL" /\ Waiting' <= Room + 2
      BY <1>7, <1>8, <1>9, <1>10, <1>11, <1>12, <1>15, <2>1, <2>2
    <3> QED
      BY <1>13, <2>1, <3>1 DEF RoomInv
  <2>3. CASE T = 0
    <3>1. stateSend' = "IDLE"
      BY <1>10, <1>11, <1>15, <2>3
    <3>2. T1 > 0 => Waiting' <= Room + 1
      BY <1>12, <1>14, <1>15, <2>1, <2>3 DEF up
    <3> QED
      BY <1>13, <3>1, <3>2 DEF RoomInv, T1
  <2> QED
    BY <1>12, <2>2, <2>3
<1>16. CASE stateSend = "WAIT_TAIL"
  <2>1. s = 1
    BY <1>16
  <2>2. N > 0
    BY <1>1, <1>10, <1>16 DEF N, SendTypeInv
  <2>3. CASE Fresh
    <3>1. sendFifo[1].mark = "head" /\ stateSend' = "WAIT_TAIL" /\ ~Fresh'
      BY <1>10, <1>11, <1>16, <2>2, <2>3 DEF Fresh
    <3>2. Waiting' <= Room + 1
      BY <1>7, <1>8, <1>9, <1>16, <2>1, <2>3
    <3> QED
      BY <1>13, <3>1, <3>2 DEF RoomInv
  <2>4. CASE ~Fresh
    <3>1. Waiting' <= Room
      BY <1>7, <1>8, <1>9, <1>16, <2>1, <2>4
    <3>2. Waiting' <= Room + 1 /\ Waiting' <= Room + 2
      BY <1>8, <3>1
    <3> QED
      BY <1>13, <3>2 DEF RoomInv
  <2> QED
    BY <2>3, <2>4
<1> QED
  BY <1>1, <1>15, <1>16

(* Everything starts anew but for a length in the mailbox. *)
SendStart ==
  /\ hw.state = "IDLE" /\ hw.wrenSend = FALSE /\ hw.sendLength = 0 /\ pc = "app"
  /\ sendFifo = << >> /\ cntPkt = 0 /\ stateSend = "IDLE" /\ rdenSend = FALSE /\ valid = FALSE
  /\ ram[SendTag] = Number(1) => MailLen \in SendLengths

LEMMA SInvStart == SendStart => SInv
<1> SUFFICES ASSUME SendStart
             PROVE  SInv
  OBVIOUS
<1>1. /\ hw.state = "IDLE" /\ hw.wrenSend = FALSE /\ hw.sendLength = 0 /\ pc = "app"
      /\ sendFifo = << >> /\ cntPkt = 0 /\ stateSend = "IDLE" /\ rdenSend = FALSE /\ valid = FALSE
      /\ ram[SendTag] = Number(1) => MailLen \in SendLengths
  BY DEF SendStart
<1>2. Len(sendFifo) = 0 /\ sendFifo \in Seq(LeavingRec)
  BY <1>1
<1>3. Tails(sendFifo) = 0
  <2>1. \A k \in 1 .. Len(sendFifo) : sendFifo[k].mark # "tail"
    BY <1>2
  <2> QED
    BY <1>2, <2>1, TailsOf
<1>4. SendTypeInv /\ SendOrder
  <2>1. SendTypeInv
    <3>1. cntPkt \in Nat /\ rdenSend \in BOOLEAN /\ valid \in BOOLEAN
      BY <1>1
    <3> QED
      BY <1>1, <1>2, <3>1 DEF SendTypeInv
  <2>2. 1 .. Len(sendFifo) - 1 = {}
    BY <1>2
  <2> QED
    BY <2>1, <2>2 DEF SendOrder
<1>5. SendMailInv
  BY <1>1 DEF SendMailInv
<1>6. OpenInv
  <2>1. Open(0)
    BY <1>1, <1>2 DEF Open, Reading
  <2> QED
    BY <1>2, <2>1 DEF OpenInv
<1>7. CountInv
  BY <1>1, <1>2, <1>3 DEF CountInv, Fresh
<1>8. RoomInv
  BY <1>1, <1>3 DEF RoomInv
<1> QED
  BY <1>4, <1>5, <1>6, <1>7, <1>8 DEF SInv

LEMMA SInvInit == Init => SInv
<1> SUFFICES ASSUME Init
             PROVE  SInv
  OBVIOUS
<1>1. /\ hw.state = "IDLE" /\ hw.wrenSend = FALSE /\ hw.sendLength = 0 /\ pc = "app"
      /\ sendFifo = << >> /\ cntPkt = 0 /\ stateSend = "IDLE" /\ rdenSend = FALSE /\ valid = FALSE
  BY DEF Init, HwReset
<1>2. ram[SendTag] # Number(1)
  BY Sizes DEF Init, SendTag, Number, Cell
<1> QED
  BY <1>1, <1>2, SInvStart DEF SendStart

LEMMA SInvRestart ==
  ASSUME SInv, Restart
  PROVE  SInv'
<1>1. /\ hw'.state = "IDLE" /\ hw'.wrenSend = FALSE /\ hw'.sendLength = 0 /\ pc' = "app"
      /\ sendFifo' = << >> /\ cntPkt' = 0 /\ stateSend' = "IDLE" /\ rdenSend' = FALSE
      /\ valid' = FALSE /\ ram' = ram
  BY DEF Restart, HwReset
<1>2. ram[SendTag] = Number(1) => MailLen \in SendLengths
  BY DEF SInv, SendMailInv
<1>3. SendStart'
  BY <1>1, <1>2 DEF SendStart, MailLen, SendTag, SendLen, Number, Cell
<1> QED
  BY <1>3, SInvStart, PTL

LEMMA SInvClock ==
  ASSUME MInv, MInv', SInv, NEW start \in BOOLEAN, NEW go \in BOOLEAN, Clock(start, go)
  PROVE  SInv'
<1>1. /\ CheckPkt /\ SendFifo /\ CountPackets /\ SendPacket /\ Driver(go)
      /\ TypeInv /\ TypeInv' /\ AccessInv /\ AccessInv' /\ TagInv
      /\ SendTypeInv /\ SendMailInv /\ SendOrder /\ OpenInv /\ CountInv /\ RoomInv
  BY DEF Clock, MInv, SInv
<1>2. hw.wrenSend => Len(sendFifo) < Cap
  BY <1>1, SendRoom
<1>3. SendTypeInv'
  <2>1. sendFifo' \in Seq(LeavingRec)
    BY <1>1, <1>2, SendFifoStep
  <2>2. cntPkt' \in Nat
    BY <1>1 DEF CountPackets, SendTypeInv
  <2>3. /\ valid' \in BOOLEAN /\ rdenSend' \in BOOLEAN /\ stateSend' \in {"IDLE", "WAIT_TAIL"}
    BY <1>1, SendMoves
  <2> QED
    BY <2>1, <2>2, <2>3 DEF SendTypeInv
<1>4. SendMailInv'
  BY <1>1, SendMailStep
<1>5. SendOrder'
  <2>1. PICK m \in 0 .. Len(sendFifo) : Open(m)
    BY <1>1 DEF OpenInv
  <2> QED
    BY <1>1, <1>2, <2>1, OpenShape
<1>6. OpenInv'
  BY <1>1, <1>2, OpenStep
<1>7. CountInv'
  BY <1>1, <1>2, CountStep
<1>8. RoomInv'
  BY <1>1, <1>2, RoomStep
<1> QED
  BY <1>3, <1>4, <1>5, <1>6, <1>7, <1>8 DEF SInv

(* The words that leave are whole packets and so many as fit; cnt_pkt       *)
(* counts the packets of which no word has left.                            *)
THEOREM SendInvariant == Spec => []SInv
<1>1. Init => SInv
  BY SInvInit
<1>2. MInv /\ MInv' /\ SInv /\ [Next]_vars => SInv'
  <2> SUFFICES ASSUME MInv, MInv', SInv, [Next]_vars
               PROVE  SInv'
    OBVIOUS
  <2>1. CASE UNCHANGED vars
    <3>1. UNCHANGED <<hw, ram, ramQ, dout, sendFifo, cntPkt, stateSend, rdenSend, valid, out, pc, len>>
      BY <2>1 DEF vars, memory, output, driver
    <3>2. SendTypeInv' /\ SendMailInv' /\ SendOrder'
      BY <3>1 DEF SInv, SendTypeInv, SendMailInv, SendOrder, MailLen, SendLen, SendTag, Number, Cell
    <3>3. OpenInv'
      BY <3>1 DEF SInv, OpenInv, Open, Reading, Pending, MailLen, SendLen
    <3>4. CountInv' /\ RoomInv'
      BY <3>1 DEF SInv, CountInv, RoomInv, Fresh, Tails, Waiting, Room, Credit, Pending, Reading
    <3> QED
      BY <3>2, <3>3, <3>4 DEF SInv
  <2>2. CASE Next
    BY <2>2, SInvRestart, SInvClock DEF Next
  <2> QED
    BY <2>1, <2>2
<1> QED
  BY <1>1, <1>2, Invariant, PTL DEF Spec

(* No FIFO of the interface is read when it is empty, though the machine    *)
(* that sends looks only at cnt_pkt, and fifo_pktRecv never loses a word.   *)
THEOREM NoFifoRunsEmpty == Spec => []FifosSound
<1>1. MInv /\ SInv /\ ReceiveFifoSound => FifosSound
  <2> SUFFICES ASSUME SInv, ReceiveFifoSound, rdenSend
               PROVE  sendFifo # << >>
    BY DEF FifosSound
  <2>1. Tails(sendFifo) > 0
    BY DEF SInv, CountInv
  <2>2. Tails(sendFifo) <= Len(sendFifo) /\ Tails(sendFifo) \in Nat /\ Len(sendFifo) \in Nat
    BY TailsOf DEF SInv, SendTypeInv
  <2>3. Len(sendFifo) > 0
    BY <2>1, <2>2
  <2> QED
    BY <2>3
<1> QED
  BY <1>1, Invariant, SendInvariant, ReceiveFifoIsSound, PTL
-----------------------------------------------------------------------------
(* What numbers the registers and the RAM can hold. *)
Fits(c) == c.pkt <= MaxIn + MaxOut + MaxRestarts /\ c.val <= Half

DataInv ==
  /\ pkt.id <= MaxIn
  /\ \A k \in 1 .. Len(taken) : taken[k][1] <= MaxIn
  /\ restarts \in Nat /\ restarts <= MaxRestarts /\ made <= MaxOut + restarts
  /\ pc = "fill" => i < len
  /\ wren => recvLength + 2 <= Half
  /\ recvLength + 2 <= Half + Q
  /\ \A a \in Addresses : Fits(ram[a])
  /\ ram[RecvTag] \in {Number(v) : v \in 0 .. 2}

LEMMA SendLengthFits ==
  ASSUME NEW n \in SendLengths
  PROVE  n \in Nat /\ n > 1 /\ n + 2 <= Half
<1>1. /\ n \in Nat /\ n > Q /\ WordsOf(n) \in Nat /\ WordsOf(n) * Q >= n
      /\ WordsOf(n) * Q + 2 <= Half
  BY WordsOfOk
<1>2. WordsOf(n) * Q \in Nat
  BY <1>1, SumOfWord
<1> DEFINE x == WordsOf(n) * Q
<1> HIDE DEF x
<1>3. x \in Nat /\ x >= n /\ x + 2 <= Half
  BY <1>1, <1>2 DEF x
<1> QED
  BY <1>1, <1>3, Sizes

LEMMA LineData ==
  ASSUME MInv, RInv, DataInv, NEW start \in BOOLEAN, Line(start), Receive
  PROVE  /\ pkt'.id <= MaxIn
         /\ \A k \in 1 .. Len(taken') : taken'[k][1] <= MaxIn
         /\ wren' => recvLength' + 2 <= Half
         /\ recvLength' + 2 <= Half + Q
<1>1. /\ Q \in Nat /\ Q > 1 /\ Half \in Nat /\ Half > 2 /\ MaxIn \in Nat
      /\ pkt \in [id : Nat, len : Nat, mine : BOOLEAN] /\ left \in Nat /\ recvLength \in Nat
      /\ wren \in BOOLEAN /\ din \in WordRec
      /\ TypeInv /\ LineInv /\ LengthInv /\ taken \in Seq(Nat \X Lengths) /\ Len(taken) \in Nat
  <2>1. taken \in Seq(Nat \X Lengths)
    BY DEF RInv
  <2>2. Len(taken) \in Nat
    BY <2>1
  <2> QED
    BY <2>1, <2>2, Sizes DEF MInv, RInv, TypeInv
<1>2. pkt.id <= MaxIn /\ pkt.id \in Nat
  BY <1>1 DEF DataInv
<1>3. pkt'.id <= MaxIn
  <2>1. CASE DataValid
    BY <1>2, <2>1 DEF Line
  <2>2. CASE ~DataValid
    <3>1. CASE pkt' = pkt
      BY <1>2, <3>1
    <3>2. CASE pkt.id < MaxIn /\ \E n \in Lengths, mine \in BOOLEAN :
                 pkt' = [id |-> pkt.id + 1, len |-> n, mine |-> mine] /\ left' = WordsOf(n)
      BY <1>1, <1>2, <3>2
    <3> QED
      BY <2>2, <3>1, <3>2 DEF Line
  <2> QED
    BY <2>1, <2>2
<1>4. \A k \in 1 .. Len(taken') : taken'[k][1] <= MaxIn
  <2>1. /\ \A m \in 1 .. Len(taken) : taken'[m] = taken[m]
        /\ TakesHead => /\ Len(taken') = Len(taken) + 1
                        /\ taken'[Len(taken')] = <<pkt.id, pkt.len>>
        /\ ~TakesHead => taken' = taken
    BY <1>1, TakenStep
  <2> TAKE k \in 1 .. Len(taken')
  <2>2. CASE k \in 1 .. Len(taken)
    BY <2>1, <2>2 DEF DataInv
  <2>3. CASE k \notin 1 .. Len(taken)
    <3>1. TakesHead
      BY <2>1, <2>3
    <3>2. k = Len(taken')
      BY <1>1, <2>1, <2>3, <3>1
    <3> QED
      BY <1>2, <2>1, <3>1, <3>2
  <2> QED
    BY <2>2, <2>3
<1>5. /\ wren' = (TakesHead \/ (~TakesHead /\ wren /\ din.mark = "tail") \/ (wren /\ DataValid))
      /\ recvLength' = IF TakesHead THEN 0 ELSE IF wren THEN recvLength + Q ELSE recvLength
  BY DEF Receive
<1>6. wren /\ din.mark \in Words => recvLength + Q + 2 <= Half
  <2> SUFFICES ASSUME wren, din.mark \in Words
               PROVE  recvLength + Q + 2 <= Half
    OBVIOUS
  <2>1. recvLength = din.idx * Q /\ din.idx \in Nat
    BY <1>1 DEF LengthInv, WordRec
  <2>2. (din.idx + 1) * Q + 2 <= Half
    BY <1>1 DEF LineInv, WordOk
  <2>3. (din.idx + 1) * Q = din.idx * Q + Q
    BY <2>1, SumOfWord
  <2> DEFINE x == din.idx * Q
  <2>4. recvLength = x /\ x + Q + 2 <= Half
    BY <2>1, <2>2, <2>3
  <2> HIDE DEF x
  <2> QED
    BY <1>1, <2>4
<1>7. wren => din.mark \in Words \cup {"length"} /\ (din.mark = "length" => ~DataValid)
  BY <1>1 DEF LineInv, WordOk, DataValid
<1>8. wren' => recvLength' + 2 <= Half
  <2>1. CASE TakesHead
    BY <1>1, <1>5, <2>1
  <2>2. CASE ~TakesHead
    <3> SUFFICES ASSUME wren'
                 PROVE  recvLength' + 2 <= Half
      OBVIOUS
    <3>1. wren /\ (din.mark = "tail" \/ DataValid)
      BY <1>5, <2>2
    <3>2. din.mark \in Words
      BY <1>7, <3>1 DEF Words
    <3> QED
      BY <1>1, <1>5, <1>6, <2>2, <3>1, <3>2
  <2> QED
    BY <2>1, <2>2
<1>9. recvLength' + 2 <= Half + Q
  <2>1. /\ wren => recvLength + 2 <= Half
        /\ recvLength + 2 <= Half + Q
    BY DEF DataInv
  <2>2. CASE TakesHead
    BY <1>1, <1>5, <2>2
  <2>3. CASE ~TakesHead
    BY <1>1, <1>5, <2>1, <2>3
  <2> QED
    BY <2>2, <2>3
<1> QED
  BY <1>3, <1>4, <1>8, <1>9

(* What hardware writes into the RAM. *)
LEMMA HwWrites ==
  ASSUME MInv, RInv, DataInv, hw.wren
  PROVE  Fits(hw.din)
<1>1. /\ MaxIn \in Nat /\ MaxOut \in Nat /\ MaxRestarts \in Nat /\ Half \in Nat /\ Half > 2
      /\ hw.addr \in Nat /\ recvFifo \in Seq(WordRec) /\ hw \in HwRec
      /\ taken \in Seq(Nat \X Lengths) /\ OrderInv /\ MailInv /\ CopyInv /\ AccessInv /\ TagInv
      /\ RecvPkt = 2 /\ RecvTag = 0 /\ SendTag = Half
  BY Sizes DEF MInv, RInv, TypeInv, HwRec, Addresses, RecvPkt, RecvTag, SendTag
<1>2. ASSUME NEW m \in 1 .. Len(taken)
      PROVE  taken[m][1] <= MaxIn /\ taken[m][1] \in Nat /\ taken[m][2] \in Nat /\ taken[m][2] + 2 <= Half
  BY <1>1, <1>2, TakenFits DEF DataInv
<1>3. CASE hw.state \in {"WRITE_RECV_PKT", "WRITE_RECV_LENGTH"}
  <2>1. hw.addr \in 2 .. Half - 1 /\ hw.din = Cell(taken[Current][1], hw.addr - 2)
    BY <1>1, <1>3 DEF MailInv, AccessInv
  <2>2. Current \in 1 .. Len(taken)
    <3>1. ~Delivers /\ recvFifo # << >>
      BY <1>1, <1>3 DEF Delivers, CopyInv
    <3>2. WordIs(recvFifo[1], First) /\ First = Current
      <4>1. Current \in Int
        <5>1. got \in Seq(Seq(CellRec))
          BY DEF RInv
        <5>2. Len(got) \in Nat
          BY <5>1
        <5> QED
          BY <5>2 DEF Current
      <4> QED
        BY <1>1, <1>3, <3>1, <4>1, FrontIs DEF First
    <3> QED
      BY <3>2 DEF WordIs
  <2>3. taken[Current][1] <= MaxIn /\ taken[Current][1] \in Nat
    BY <1>2, <2>2
  <2> DEFINE t == taken[Current][1]
             v == hw.addr - 2
  <2>4. hw.din.pkt = t /\ hw.din.val = v
    BY <2>1 DEF Cell
  <2>5. v <= Half /\ t <= MaxIn /\ t \in Nat
    BY <1>1, <2>1, <2>3
  <2> HIDE DEF t, v
  <2> QED
    BY <1>1, <2>4, <2>5 DEF Fits
<1>4. CASE hw.state = "WRITE_RECV_TAG"
  <2>1. hw.din = Number(taken[Current][2]) /\ Current \in 1 .. Len(taken)
    BY <1>1, <1>4 DEF MailInv
  <2>2. taken[Current][2] \in Nat /\ taken[Current][2] + 2 <= Half
    BY <1>2, <2>1
  <2> DEFINE t == taken[Current][2]
  <2>3. hw.din.pkt = 0 /\ hw.din.val = t
    BY <2>1 DEF Number, Cell
  <2> HIDE DEF t
  <2>4. t \in Nat /\ t + 2 <= Half
    BY <2>2 DEF t
  <2> QED
    BY <1>1, <2>3, <2>4 DEF Fits
<1>5. CASE hw.state = "IDLE"
  <2>1. hw.din \in {Number(0), Number(1)}
    BY <1>1, <1>5 DEF AccessInv
  <2>2. hw.din.pkt = 0 /\ hw.din.val \in {0, 1}
    BY <2>1 DEF Number, Cell
  <2> QED
    BY <1>1, <2>2 DEF Fits
<1> QED
  BY <1>1, <1>3, <1>4, <1>5 DEF AccessInv

LEMMA DriverData ==
  ASSUME MInv, RInv, SendMailInv, DataInv, NEW go \in BOOLEAN, Driver(go)
  PROVE  /\ made' <= MaxOut + restarts
         /\ pc' = "fill" => i' < len'
         /\ \A a \in Addresses : Fits(ram'[a])
<1>1. /\ MaxIn \in Nat /\ MaxOut \in Nat /\ MaxRestarts \in Nat /\ Half \in Nat /\ Half > 2
      /\ i \in Nat /\ len \in Nat /\ made \in Nat /\ TypeInv
      /\ restarts \in Nat /\ restarts <= MaxRestarts /\ made <= MaxOut + restarts
      /\ pc = "fill" => i < len
      /\ \A a \in Addresses : Fits(ram[a])
      /\ hw.wren => Fits(hw.din)
  BY Sizes, HwWrites DEF MInv, TypeInv, DataInv
<1>2. ASSUME Memory({})
      PROVE  \A a \in Addresses : Fits(ram'[a])
  BY <1>1, <1>2, MemoryNone
<1>3. ASSUME NEW b \in Nat, NEW v \in CellRec, Fits(v), Memory({<<b, v>>})
      PROVE  \A a \in Addresses : Fits(ram'[a])
  BY <1>1, <1>3, MemoryOne
<1>4. \A n \in Nat : n <= Half => Number(n) \in CellRec /\ Fits(Number(n))
  BY <1>1 DEF Number, Cell, CellRec, Fits
<1>5. /\ RecvTag \in Nat /\ SendTag \in Nat /\ SendLen \in Nat /\ SendPkt \in Nat
  BY <1>1 DEF RecvTag, SendTag, SendLen, SendPkt
<1>6. CASE Memory({}) /\ UNCHANGED driver
  BY <1>1, <1>2, <1>6 DEF driver
<1>7. CASE Read
  <2>1. CASE /\ pc = "app" /\ \E v \in SeesAt(RecvTag) : pc' = IF v = Number(1) THEN "len" ELSE "app"
             /\ Memory({}) /\ UNCHANGED <<i, len, buf, made, got, sends>>
    BY <1>1, <1>2, <2>1
  <2>2. CASE /\ pc = "len" /\ \E v \in SeesAt(RecvLen) : len' = v.val
             /\ i' = 0 /\ buf' = << >> /\ pc' \in {"copy", "release"}
             /\ Memory({}) /\ UNCHANGED <<made, got, sends>>
    BY <1>1, <1>2, <2>2
  <2>3. CASE /\ pc = "copy" /\ \E v \in SeesAt(RecvPkt + i) : buf' = Append(buf, v)
             /\ i' = i + 1 /\ pc' = IF i + 1 = len THEN "release" ELSE "copy"
             /\ Memory({}) /\ UNCHANGED <<len, made, got, sends>>
    BY <1>1, <1>2, <2>3
  <2>4. CASE /\ pc = "release" /\ Memory({<<RecvTag, Number(2)>>})
             /\ got' = Append(got, buf) /\ buf' = << >> /\ pc' = "app"
             /\ UNCHANGED <<i, len, made, sends>>
    <3>1. Number(2) \in CellRec /\ Fits(Number(2))
      BY <1>1, <1>4
    <3> QED
      BY <1>1, <1>3, <1>5, <2>4, <3>1
  <2> QED
    BY <1>7, <2>1, <2>2, <2>3, <2>4 DEF Read
<1>8. CASE Send
  <2>1. CASE /\ pc = "app" /\ made < MaxOut + restarts /\ ram[SendTag] # Number(1)
             /\ \E n \in SendLengths : len' = n /\ Memory({<<SendLen, Number(n)>>})
             /\ made' = made + 1
             /\ i' = 0 /\ pc' = "fill" /\ UNCHANGED <<buf, got, sends>>
    <3>1. PICK n \in SendLengths : len' = n /\ Memory({<<SendLen, Number(n)>>})
      BY <2>1
    <3>2. n \in Nat /\ n > 1 /\ n <= Half
      BY <1>1, SendLengthFits
    <3>3. Number(n) \in CellRec /\ Fits(Number(n))
      BY <1>4, <3>2
    <3>4. \A a \in Addresses : Fits(ram'[a])
      BY <1>3, <1>5, <3>1, <3>3
    <3>5. made' <= MaxOut + restarts
      BY <1>1, <2>1
    <3> QED
      BY <2>1, <3>1, <3>2, <3>4, <3>5
  <2>2. CASE /\ pc = "fill" /\ Memory({<<SendPkt + i, Cell(MaxIn + made, i)>>})
             /\ i' = i + 1 /\ pc' = IF i + 1 = len THEN "fire" ELSE "fill"
             /\ UNCHANGED <<len, buf, made, got, sends>>
    <3>1. SendPkt + i \in Nat
      BY <1>1, <1>5
    <3>2. len + 2 <= Half
      BY <2>2, SendLengthFits DEF SendMailInv
    <3>3. Cell(MaxIn + made, i) \in CellRec /\ Fits(Cell(MaxIn + made, i))
      BY <1>1, <2>2, <3>2 DEF Cell, CellRec, Fits
    <3>4. \A a \in Addresses : Fits(ram'[a])
      BY <1>3, <2>2, <3>1, <3>3
    <3>5. pc' = "fill" => i' < len'
      BY <1>1, <2>2
    <3> QED
      BY <1>1, <2>2, <3>4, <3>5
  <2>3. CASE /\ pc = "fire" /\ Memory({<<SendTag, Number(1)>>})
             /\ sends' = Append(sends, <<made, len>>) /\ pc' = "spin"
             /\ UNCHANGED <<i, len, buf, made, got>>
    <3>1. Number(1) \in CellRec /\ Fits(Number(1))
      BY <1>1, <1>4
    <3> QED
      BY <1>1, <1>3, <1>5, <2>3, <3>1
  <2>4. CASE /\ pc = "spin" /\ \E v \in SeesAt(SendTag) : pc' = IF v = Number(1) THEN "spin" ELSE "app"
             /\ Memory({}) /\ UNCHANGED <<i, len, buf, made, got, sends>>
    BY <1>1, <1>2, <2>4
  <2> QED
    BY <1>8, <2>1, <2>2, <2>3, <2>4 DEF Send
<1> QED
  BY <1>6, <1>7, <1>8 DEF Driver

LEMMA DataClock ==
  ASSUME MInv, RInv, SInv, DataInv, NEW start \in BOOLEAN, NEW go \in BOOLEAN, Clock(start, go)
  PROVE  DataInv'
<1>1. /\ Line(start) /\ Receive /\ Driver(go) /\ restarts' = restarts /\ TypeInv /\ AccessInv
  BY DEF Clock, MInv
<1>2. /\ pkt'.id <= MaxIn
      /\ \A k \in 1 .. Len(taken') : taken'[k][1] <= MaxIn
      /\ wren' => recvLength' + 2 <= Half
      /\ recvLength' + 2 <= Half + Q
  BY <1>1, LineData
<1>3. /\ made' <= MaxOut + restarts
      /\ pc' = "fill" => i' < len'
      /\ \A a \in Addresses : Fits(ram'[a])
  BY <1>1, DriverData DEF SInv
<1>4. ram'[RecvTag] \in {Number(v) : v \in 0 .. 2}
  <2>1. ram'[RecvTag] = IF hw.wren /\ hw.addr = RecvTag THEN hw.din
                        ELSE IF pc = "release" /\ pc' = "app" THEN Number(2) ELSE ram[RecvTag]
    BY <1>1, TagStep
  <2>2. hw.wren /\ hw.addr = RecvTag => hw.din = Number(1)
    <3>1. RecvTag = 0 /\ RecvLen = 1 /\ SendTag = Half /\ RecvPkt = 2 /\ Half \in Nat /\ Half > 2
      BY Sizes DEF RecvTag, RecvLen, SendTag, RecvPkt
    <3> QED
      BY <1>1, <3>1 DEF AccessInv
  <2>3. Number(1) \in {Number(v) : v \in 0 .. 2} /\ Number(2) \in {Number(v) : v \in 0 .. 2}
    OBVIOUS
  <2> QED
    BY <2>1, <2>2, <2>3 DEF DataInv
<1>5. restarts' \in Nat /\ restarts' <= MaxRestarts /\ made' <= MaxOut + restarts'
  BY <1>1, <1>3 DEF DataInv
<1>6. ram'[RecvTag] \in {Number(v) : v \in 0 .. 2}'
  BY <1>4 DEF Number, Cell
<1> QED
  BY <1>2, <1>3, <1>5, <1>6 DEF DataInv, Fits, RecvTag, Addresses

LEMMA DataRestart ==
  ASSUME MInv, RInv, DataInv, Restart
  PROVE  DataInv'
<1>1. /\ pkt' = pkt /\ wren' = FALSE /\ recvLength' = 0 /\ pc' = "app" /\ ram' = ram /\ made' = made
      /\ restarts < MaxRestarts /\ restarts' = restarts + 1
      /\ taken' = IF ram[RecvTag] = Number(1) THEN <<taken[Len(got) + 1]>> ELSE << >>
  BY DEF Restart
<1>2. restarts' \in Nat /\ restarts' <= MaxRestarts /\ made' <= MaxOut + restarts'
  <2>1. made \in Nat /\ MaxOut \in Nat /\ MaxRestarts \in Nat
    BY Sizes DEF MInv, TypeInv
  <2>2. restarts \in Nat /\ made <= MaxOut + restarts
    BY DEF DataInv
  <2> QED
    BY <1>1, <2>1, <2>2
<1>3. \A k \in 1 .. Len(taken') : taken'[k][1] <= MaxIn
  <2>1. CASE ram[RecvTag] = Number(1)
    <3>1. Len(got) + 1 \in 1 .. Len(taken)
      BY <2>1 DEF RInv, MailInv, Full, Whole
    <3> DEFINE e == taken[Len(got) + 1]
    <3>2. e[1] <= MaxIn /\ taken' = <<e>>
      BY <1>1, <2>1, <3>1 DEF DataInv
    <3> HIDE DEF e
    <3> QED
      BY <3>2
  <2>2. CASE ram[RecvTag] # Number(1)
    BY <1>1, <2>2
  <2> QED
    BY <2>1, <2>2
<1>4. recvLength' + 2 <= Half + Q
  BY <1>1, Sizes
<1> QED
  BY <1>1, <1>2, <1>3, <1>4 DEF DataInv, Fits, RecvTag, Addresses, Number, Cell

(* The FIFO of words that leave does not overflow. *)
LEMMA SendFifoFits ==
  ASSUME TypeInv, TagInv, SInv
  PROVE  Len(sendFifo) <= Cap /\ cntPkt \in 0 .. Cap /\ hw.sendLength \in 0 .. Half
<1>1. /\ TypeInv /\ SendTypeInv /\ SendMailInv /\ OpenInv /\ CountInv /\ RoomInv
      /\ Cap \in Nat /\ Thr \in Nat /\ Thr > 0 /\ Half \in Nat
      /\ Len(sendFifo) \in Nat /\ sendFifo \in Seq(LeavingRec) /\ cntPkt \in Nat
      /\ stateSend \in {"IDLE", "WAIT_TAIL"}
  BY Sizes DEF SInv, SendTypeInv
<1>2. PICK m \in 0 .. Len(sendFifo) : Open(m)
  BY <1>1 DEF OpenInv
<1>3. /\ Tails(sendFifo) \in Nat /\ Tails(sendFifo) <= Len(sendFifo)
      /\ Tails(sendFifo) > 0 => Thr + Len(sendFifo) <= Cap + 1
  BY <1>1, CountFits
<1>4. Tails(sendFifo) = 0 => m = Len(sendFifo)
  <2> SUFFICES ASSUME Tails(sendFifo) = 0, m < Len(sendFifo)
               PROVE  FALSE
    BY <1>1
  <2>1. sendFifo[Len(sendFifo) - m].mark = "tail"
    BY <1>2 DEF Open
  <2>2. Len(sendFifo) - m \in 1 .. Len(sendFifo)
    BY <1>1
  <2>3. \A k \in 1 .. Len(sendFifo) : sendFifo[k].mark # "tail"
    BY <1>1, TailsOf
  <2> QED
    BY <2>1, <2>2, <2>3
<1>5. m <= Cap
  <2>1. CASE Reading
    <3>1. Thr + m + Pending + 1 <= Cap
      BY <1>1, <1>2, <2>1, OpenFits
    <3> QED
      BY <1>1, <1>2, <3>1 DEF Pending
  <2>2. CASE ~Reading
    <3>1. Thr + m + 1 <= Cap \/ m = 0
      BY <1>2, <2>2 DEF Open
    <3> QED
      BY <1>1, <3>1
  <2> QED
    BY <2>1, <2>2
<1>6. Len(sendFifo) <= Cap
  BY <1>1, <1>3, <1>4, <1>5
<1>7. cntPkt <= Tails(sendFifo)
  BY <1>1, <1>3 DEF CountInv
<1>8. hw.sendLength \in 0 .. Half
  <2>1. CASE Reading
    BY <1>1, <1>2, <2>1, OpenFits
  <2>2. CASE ~Reading
    BY <1>1, <1>2, <2>2 DEF Open
  <2> QED
    BY <2>1, <2>2
<1> QED
  BY <1>1, <1>3, <1>6, <1>7, <1>8

(* Every register stays in its range: the lengths that are counted are no   *)
(* longer than a mailbox, and the counter of packets does not wrap.         *)
THEOREM TypeCorrect == Spec => []TypeOK
<1>1. Init => DataInv
  <2> SUFFICES ASSUME Init
               PROVE  DataInv
    OBVIOUS
  <2>1. /\ pkt = [id |-> 0, len |-> 0, mine |-> FALSE] /\ taken = << >> /\ restarts = 0 /\ made = 0
        /\ pc = "app" /\ wren = FALSE /\ recvLength = 0
        /\ ram = [a \in Addresses |-> Number(0)]
    BY DEF Init, Addresses
  <2>2. /\ MaxIn \in Nat /\ MaxOut \in Nat /\ MaxRestarts \in Nat /\ Half \in Nat /\ Half > 2
        /\ Q \in Nat
    BY Sizes
  <2>3. \A a \in Addresses : Fits(ram[a])
    BY <2>1, <2>2 DEF Fits, Number, Cell
  <2>4. ram[RecvTag] \in {Number(v) : v \in 0 .. 2}
    BY <2>1, <2>2 DEF RecvTag, Addresses
  <2>5. Len(taken) = 0
    BY <2>1
  <2> QED
    BY <2>1, <2>2, <2>3, <2>4, <2>5 DEF DataInv
<1>2. MInv /\ RInv /\ SInv /\ DataInv /\ [Next]_vars => DataInv'
  <2> SUFFICES ASSUME MInv, RInv, SInv, DataInv, [Next]_vars
               PROVE  DataInv'
    OBVIOUS
  <2>1. CASE UNCHANGED vars
    BY <2>1 DEF vars, input, memory, driver, DataInv, Fits, RecvTag, Addresses, Number, Cell
  <2>2. CASE Next
    BY <2>2, DataRestart, DataClock DEF Next
  <2> QED
    BY <2>1, <2>2
<1>3. MInv /\ SInv /\ DataInv => TypeOK
  <2> SUFFICES ASSUME MInv, SInv, DataInv
               PROVE  TypeOK
    OBVIOUS
  <2>1. TypeInv /\ TagInv
    BY DEF MInv
  <2>2. /\ hw \in HwRec /\ ram \in [Addresses -> CellRec] /\ recvLength \in Nat
        /\ pc \in {"app", "len", "copy", "release", "fill", "fire", "spin"}
        /\ Half \in Nat /\ Q \in Nat /\ MaxIn + MaxOut + MaxRestarts \in Nat
    BY <2>1, Sizes DEF TypeInv
  <2>3. hw.state \in HwStates /\ hw.addr \in DOMAIN ram /\ hw.count \in 0 .. Q - 1
    BY <2>2 DEF HwRec
  <2>4. recvLength \in 0 .. Half + Q
    BY <2>2 DEF DataInv
  <2>5. ASSUME NEW a \in DOMAIN ram
        PROVE  ram[a].pkt \in 0 .. MaxIn + MaxOut + MaxRestarts /\ ram[a].val \in 0 .. Half
    <3>1. Fits(ram[a]) /\ ram[a] \in CellRec
      BY <2>2, <2>5 DEF DataInv
    <3> QED
      BY <2>2, <3>1 DEF Fits, CellRec
  <2>6. ram[SendTag] \in {Number(v) : v \in 0 .. 1}
    BY <2>1 DEF TagInv
  <2>7. Len(sendFifo) <= Cap /\ cntPkt \in 0 .. Cap /\ hw.sendLength \in 0 .. Half
    BY <2>1, SendFifoFits
  <2> QED
    BY <2>2, <2>3, <2>4, <2>5, <2>6, <2>7 DEF TypeOK, DataInv
<1> QED
  BY <1>1, <1>2, <1>3, Invariant, PacketsInOrder, SendInvariant, PTL DEF Spec
-----------------------------------------------------------------------------
(* What the driver puts into the send mailbox, and where it comes out.      *)
(* LastId is the packet that was fired last; its tag is taken back in the   *)
(* clock after its last word was read, and Owed until then.                 *)
LastId   == MaxIn + sends[Len(sends)][1]
Clearing == hw.wren /\ hw.addr = SendTag
Owed     == IF ram[SendTag] = Number(1) /\ ~Clearing THEN 1 ELSE 0

SendsInv ==
  /\ sends \in Seq(Nat \X SendLengths)
  /\ sends # << >> =>
       sends[Len(sends)][1] = IF pc \in {"fill", "fire"} THEN made - 1 ELSE made

(* The first n RAM words of packet p are in the mailbox. *)
SendHolds(p, n) == \A u \in 0 .. n - 1 : ram[SendPkt + u] = Cell(p, u)

BoxInv ==
  /\ pc = "fill" => i < len /\ SendHolds(MaxIn + made, i)
  /\ pc = "fire" => SendHolds(MaxIn + made, len)
  /\ ram[SendTag] = Number(1) =>
       sends # << >> /\ sends[Len(sends)][2] = MailLen /\ SendHolds(LastId, MailLen)
  /\ Clearing => ram[SendTag] = Number(1)

(* The RAM word of the packet that dout shows while the packet is read. *)
Place == MailLen - 1 - hw.sendLength

PipeInv ==
  /\ hw.state = "CHECK_SEND" => hw.addr = SendPkt
  /\ hw.state = "READ_SEND_LENGTH" => hw.addr = SendPkt + 1 /\ ramQ = Cell(LastId, 0)
  /\ Reading =>
       /\ hw.sendLength >= 0 /\ Place >= hw.count
       /\ dout = Cell(LastId, Place)
       /\ hw.sendLength >= 1 => ramQ = Cell(LastId, Place + 1)
       /\ hw.sendLength >= 2 => hw.addr = SendPkt + Place + 2
       /\ \A u \in 0 .. hw.count - 1 :
            hw.dinSend.cells[u] = Cell(LastId, Place - hw.count + u)

(* The words that have left, that leave, that wait and that are pushed. *)
Stream ==
  ((sentWords \o (IF valid THEN <<out>> ELSE << >>)) \o sendFifo)
    \o (IF hw.wrenSend THEN <<hw.dinSend>> ELSE << >>)

Latest == Stream[Len(Stream)]

StreamType == sentWords \in Seq(LeavingRec) /\ (valid => out \in LeavingRec)

(* The last of them ends where the machine that reads goes on. *)
LatestInv ==
  IF Reading /\ ~hw.head
  THEN /\ Stream # << >> /\ Latest.mark # "tail" /\ Latest.n = Q
       /\ Latest.cells[0].pkt = LastId
       /\ Latest.cells[0].val + Q + hw.count = Place
  ELSE /\ Stream = << >> => Len(sends) = Owed
       /\ Stream # << >> =>
            sends # << >> /\ Latest.mark = "tail" /\ Latest.cells[0].pkt + Owed = LastId

TInv == /\ SendsInv /\ BoxInv /\ PipeInv
        /\ StreamType /\ InOrder(Stream, sends) /\ LatestInv

LEMMA StreamGrows ==
  ASSUME TypeInv, TypeInv', SendTypeInv, CountInv, SendFifo, SendPacket,
         hw.wrenSend => Len(sendFifo) < Cap, StreamType
  PROVE  /\ Stream \in Seq(LeavingRec) /\ StreamType'
         /\ Stream' = IF hw'.wrenSend THEN Append(Stream, hw'.dinSend) ELSE Stream
<1> DEFINE P == IF valid THEN <<out>> ELSE << >>
           D == IF hw.wrenSend THEN <<hw.dinSend>> ELSE << >>
           R == IF stateSend = "WAIT_TAIL" THEN <<Head(sendFifo)>> ELSE << >>
           E == IF hw'.wrenSend THEN <<hw'.dinSend>> ELSE << >>
<1>0. /\ hw.dinSend \in LeavingRec /\ hw'.dinSend \in LeavingRec
      /\ sendFifo \in Seq(LeavingRec) /\ sentWords \in Seq(LeavingRec)
      /\ valid \in BOOLEAN /\ (valid => out \in LeavingRec)
      /\ stateSend \in {"IDLE", "WAIT_TAIL"} /\ (rdenSend <=> stateSend = "WAIT_TAIL")
  BY DEF TypeInv, HwRec, SendTypeInv, StreamType, CountInv
<1>1. stateSend = "WAIT_TAIL" => sendFifo # << >> /\ Head(sendFifo) \in LeavingRec
  BY <1>0, SendMoves
<1>2. P \in Seq(LeavingRec) /\ D \in Seq(LeavingRec) /\ R \in Seq(LeavingRec) /\ E \in Seq(LeavingRec)
  <2>1. <<hw.dinSend>> \in Seq(LeavingRec) /\ <<hw'.dinSend>> \in Seq(LeavingRec)
        /\ << >> \in Seq(LeavingRec)
    BY <1>0
  <2>2. P \in Seq(LeavingRec)
    <3>1. CASE valid
      <4>1. PICK o \in LeavingRec : o = out
        BY <1>0, <3>1
      <4>2. <<o>> \in Seq(LeavingRec)
        OBVIOUS
      <4> QED
        BY <3>1, <4>1, <4>2
    <3>2. CASE ~valid
      BY <2>1, <3>2
    <3> QED
      BY <3>1, <3>2
  <2>3. R \in Seq(LeavingRec)
    BY <1>1
  <2> QED
    BY <2>1, <2>2, <2>3
<1>3. sentWords' = sentWords \o P
  <2>1. sentWords' = IF valid THEN Append(sentWords, out) ELSE sentWords
    BY DEF SendPacket
  <2>2. CASE valid
    <3>1. Append(sentWords, out) = sentWords \o <<out>>
      BY <1>0, <2>2
    <3> QED
      BY <2>1, <2>2, <3>1
  <2>3. CASE ~valid
    <3>1. sentWords \o << >> = sentWords
      BY <1>0, ConcatEmptySeq
    <3> QED
      BY <2>1, <2>3, <3>1
  <2> QED
    BY <2>2, <2>3
<1>4. (IF valid' THEN <<out'>> ELSE << >>) = R
  <2>1. CASE stateSend = "WAIT_TAIL"
    <3>1. sendFifo # << >>
      BY <1>1, <2>1
    <3>2. valid' = TRUE /\ out' = Head(sendFifo)
      BY <2>1, <3>1 DEF SendPacket
    <3> QED
      BY <2>1, <3>2
  <2>2. CASE stateSend # "WAIT_TAIL"
    <3>1. valid' = FALSE
      BY <1>0, <2>2 DEF SendPacket
    <3> QED
      BY <2>2, <3>1
  <2> QED
    BY <2>1, <2>2
<1>5. PICK popped : popped = IF stateSend = "WAIT_TAIL" THEN Tail(sendFifo) ELSE sendFifo
  OBVIOUS
<1>6. /\ popped \in Seq(LeavingRec) /\ sendFifo = R \o popped
      /\ sendFifo' = IF hw.wrenSend THEN Append(popped, hw.dinSend) ELSE popped
  <2>1. CASE stateSend = "WAIT_TAIL"
    <3>1. sendFifo = <<Head(sendFifo)>> \o Tail(sendFifo) /\ Tail(sendFifo) \in Seq(LeavingRec)
      BY <1>0, <1>1, <2>1, HeadTailProperties
    <3>2. sendFifo' = IF hw.wrenSend THEN Append(Tail(sendFifo), hw.dinSend) ELSE Tail(sendFifo)
      BY <1>0, <1>1, <2>1 DEF SendFifo, FifoAfter
    <3> QED
      BY <1>5, <2>1, <3>1, <3>2
  <2>2. CASE stateSend # "WAIT_TAIL"
    <3>1. << >> \o sendFifo = sendFifo
      BY <1>0, ConcatEmptySeq
    <3>2. sendFifo' = IF hw.wrenSend THEN Append(sendFifo, hw.dinSend) ELSE sendFifo
      BY <1>0, <2>2 DEF SendFifo, FifoAfter
    <3> QED
      BY <1>0, <1>5, <2>2, <3>1, <3>2
  <2> QED
    BY <2>1, <2>2
<1>7. sendFifo' = popped \o D
  <2>1. Append(popped, hw.dinSend) = popped \o <<hw.dinSend>>
    <3>1. PICK d \in LeavingRec : d = hw.dinSend
      BY <1>0
    <3>2. Append(popped, d) = popped \o <<d>>
      BY <1>6
    <3> QED
      BY <3>1, <3>2
  <2>2. popped \o << >> = popped
    BY <1>6, ConcatEmptySeq
  <2> QED
    BY <1>6, <2>1, <2>2
<1>8. Stream' = (((sentWords \o P) \o R) \o (popped \o D)) \o E
  BY <1>3, <1>4, <1>7 DEF Stream
<1>9. Stream = ((sentWords \o P) \o (R \o popped)) \o D
  BY <1>6 DEF Stream
<1>10. /\ (sentWords \o P) \in Seq(LeavingRec) /\ (R \o popped) \in Seq(LeavingRec)
       /\ (sentWords \o P) \o R \in Seq(LeavingRec)
  BY <1>0, <1>2, <1>6, ConcatProperties
<1>11. ((sentWords \o P) \o (R \o popped)) \o D = ((sentWords \o P) \o R) \o (popped \o D)
  <2>1. PICK d \in Seq(LeavingRec), r \in Seq(LeavingRec), o \in Seq(LeavingRec) :
          d = D /\ r = R /\ o = popped
    BY <1>2, <1>6
  <2>2. PICK g \in Seq(LeavingRec) : g = sentWords \o P
    BY <1>10
  <2>3. g \o (r \o o) = (g \o r) \o o
    OBVIOUS
  <2>4. PICK e \in Seq(LeavingRec) : e = g \o r
    BY ConcatProperties
  <2>5. (e \o o) \o d = e \o (o \o d)
    OBVIOUS
  <2> QED
    BY <2>1, <2>2, <2>3, <2>4, <2>5
<1>12. Stream \in Seq(LeavingRec)
  <2>1. (sentWords \o P) \o (R \o popped) \in Seq(LeavingRec)
    BY <1>10, ConcatProperties
  <2> QED
    BY <1>2, <1>9, <2>1, ConcatProperties
<1>13. Stream' = Stream \o E
  BY <1>8, <1>9, <1>11
<1>14. Stream' = IF hw'.wrenSend THEN Append(Stream, hw'.dinSend) ELSE Stream
  <2>1. CASE hw'.wrenSend
    <3>1. PICK d \in LeavingRec : d = hw'.dinSend
      BY <1>0
    <3>2. Append(Stream, d) = Stream \o <<d>>
      BY <1>12
    <3> QED
      BY <1>13, <2>1, <3>1, <3>2
  <2>2. CASE ~hw'.wrenSend
    <3>1. Stream \o << >> = Stream
      BY <1>12, ConcatEmptySeq
    <3> QED
      BY <1>13, <2>2, <3>1
  <2> QED
    BY <2>1, <2>2
<1>15. StreamType'
  <2>1. sentWords' \in Seq(LeavingRec)
    BY <1>3, <1>10
  <2>2. valid' => out' \in LeavingRec
    <3>1. CASE stateSend = "WAIT_TAIL"
      <4>1. out' = Head(sendFifo)
        BY <1>1, <3>1 DEF SendPacket
      <4> QED
        BY <1>1, <3>1, <4>1
    <3>2. CASE stateSend # "WAIT_TAIL"
      BY <1>0, <3>2 DEF SendPacket
    <3> QED
      BY <3>1, <3>2
  <2> QED
    BY <2>1, <2>2 DEF StreamType
<1> QED
  BY <1>12, <1>14, <1>15

(* What has left is a beginning of the stream. *)
LEMMA SentOfStream ==
  ASSUME TypeInv, SendTypeInv, StreamType, InOrder(Stream, sends)
  PROVE  SentIntact
<1>0. /\ hw.dinSend \in LeavingRec /\ sendFifo \in Seq(LeavingRec)
      /\ sentWords \in Seq(LeavingRec) /\ (valid => out \in LeavingRec)
  BY DEF TypeInv, HwRec, SendTypeInv, StreamType
<1>1. PICK p \in Seq(LeavingRec), d \in Seq(LeavingRec) :
        p = (IF valid THEN <<out>> ELSE << >>) /\ d = (IF hw.wrenSend THEN <<hw.dinSend>> ELSE << >>)
  <2>1. <<hw.dinSend>> \in Seq(LeavingRec) /\ << >> \in Seq(LeavingRec)
    BY <1>0
  <2>2. ASSUME valid
        PROVE  <<out>> \in Seq(LeavingRec)
    <3>1. PICK o \in LeavingRec : o = out
      BY <1>0, <2>2
    <3>2. <<o>> \in Seq(LeavingRec)
      OBVIOUS
    <3> QED
      BY <3>1, <3>2
  <2> QED
    BY <2>1, <2>2
<1>2. Stream = ((sentWords \o p) \o sendFifo) \o d
  BY <1>1 DEF Stream
<1>3. PICK a \in Seq(LeavingRec) : a = sentWords \o p
  BY <1>0, <1>1, ConcatProperties
<1>4. PICK b \in Seq(LeavingRec) : b = a \o sendFifo
  BY <1>0, <1>3, ConcatProperties
<1>5. Stream = b \o d
  BY <1>2, <1>3, <1>4
<1>6. PICK n \in Nat, m \in Nat, l \in Nat, s \in Nat :
        /\ n = Len(sentWords) /\ m = Len(a) /\ l = Len(b) /\ s = Len(Stream)
        /\ n <= m /\ m <= l /\ l <= s
  <2>1. Len(sentWords) \in Nat /\ Len(p) \in Nat /\ Len(sendFifo) \in Nat /\ Len(d) \in Nat
    BY <1>0, <1>1
  <2>2. Len(a) = Len(sentWords) + Len(p)
    BY <1>0, <1>1, <1>3, ConcatProperties
  <2>3. Len(b) = Len(a) + Len(sendFifo)
    BY <1>0, <1>3, <1>4, ConcatProperties
  <2>4. Len(Stream) = Len(b) + Len(d)
    BY <1>1, <1>4, <1>5, ConcatProperties
  <2>5. /\ Len(a) \in Nat /\ Len(b) \in Nat /\ Len(Stream) \in Nat
        /\ Len(sentWords) <= Len(a) /\ Len(a) <= Len(b) /\ Len(b) <= Len(Stream)
    BY <2>1, <2>2, <2>3, <2>4
  <2> QED
    BY <2>1, <2>5
<1>7. \A k \in 1 .. n : Stream[k] = sentWords[k] /\ k \in 1 .. s
  <2>1. SUFFICES ASSUME NEW k \in 1 .. n PROVE Stream[k] = sentWords[k]
    BY <1>6
  <2>2. k \in 1 .. m /\ k \in 1 .. l /\ k \in 1 .. s
    BY <1>6
  <2>3. a[k] = sentWords[k]
    BY <1>0, <1>1, <1>3, <1>6, <2>1
  <2>4. b[k] = a[k]
    BY <1>0, <1>3, <1>4, <1>6, <2>2
  <2>5. Stream[k] = b[k]
    BY <1>1, <1>4, <1>5, <1>6, <2>2
  <2> QED
    BY <2>3, <2>4, <2>5
<1>8. /\ \A k \in 1 .. s : \E e \in 1 .. Len(sends) : IsPiece(Stream[k], sends[e])
      /\ \A k \in 1 .. s - 1 : Continues(Stream[k], Stream[k + 1])
      /\ Stream # << >> => Stream[1].cells[0] = Cell(MaxIn + sends[1][1], 0)
  BY <1>6 DEF InOrder
<1>9. \A k \in 1 .. n : \E e \in 1 .. Len(sends) : IsPiece(sentWords[k], sends[e])
  BY <1>7, <1>8
<1>10. \A k \in 1 .. n - 1 : Continues(sentWords[k], sentWords[k + 1])
  <2>1. SUFFICES ASSUME NEW k \in 1 .. n - 1 PROVE Continues(sentWords[k], sentWords[k + 1])
    OBVIOUS
  <2>2. k \in 1 .. n /\ k + 1 \in 1 .. n /\ k \in 1 .. s - 1
    BY <1>6
  <2>3. Stream[k] = sentWords[k] /\ Stream[k + 1] = sentWords[k + 1]
    BY <1>7, <2>2
  <2> QED
    BY <1>8, <2>2, <2>3
<1>11. sentWords # << >> => sentWords[1].cells[0] = Cell(MaxIn + sends[1][1], 0)
  <2>1. SUFFICES ASSUME sentWords # << >> PROVE sentWords[1].cells[0] = Cell(MaxIn + sends[1][1], 0)
    OBVIOUS
  <2>2. n >= 1 /\ 1 \in 1 .. n
    BY <1>0, <1>6, <2>1
  <2>3. Stream[1] = sentWords[1] /\ s >= 1
    BY <1>6, <1>7, <2>2
  <2>4. Stream # << >>
    BY <1>6, <2>3
  <2> QED
    BY <1>8, <2>3, <2>4
<1> QED
  BY <1>6, <1>9, <1>10, <1>11 DEF SentIntact, InOrder

(* The RAM words of the packet that is to be sent, in a clock in which the  *)
(* driver writes one word or none: hardware does not write there.           *)
Box == SendPkt .. 2 * Half - 1

LEMMA BoxOk ==
  /\ RecvTag = 0 /\ SendTag = Half /\ SendLen = Half + 1 /\ SendPkt = Half + 2
  /\ Half \in Nat /\ Half > 2 /\ MaxIn \in Nat /\ Q \in Nat /\ Q > 1
  /\ \A b \in Box : b \in Addresses /\ b \in Nat /\ b > SendLen
BY Sizes DEF RecvTag, SendTag, SendLen, SendPkt, Box, Addresses

LEMMA BoxNone ==
  ASSUME TypeInv, AccessInv, Memory({})
  PROVE  /\ \A b \in Box : ram'[b] = ram[b]
         /\ ramQ' = ram[hw.addr]
<1>1. \A b \in Addresses : ram'[b] = IF hw.wren /\ hw.addr = b THEN hw.din ELSE ram[b]
  BY MemoryNone
<1>2. hw.wren => hw.addr \in 0 .. Half
  BY BoxOk DEF AccessInv, RecvTag, RecvLen, RecvPkt, SendTag
<1>3. \A b \in Box : ~(hw.wren /\ hw.addr = b)
  BY <1>2, BoxOk
<1> QED
  BY <1>1, <1>3, MemoryNone, BoxOk

LEMMA BoxOne ==
  ASSUME TypeInv, AccessInv, NEW a \in Nat, NEW v \in CellRec, Memory({<<a, v>>})
  PROVE  /\ \A b \in Box : ram'[b] = IF b = a THEN v ELSE ram[b]
         /\ hw.addr # a => ramQ' = ram[hw.addr]
<1>1. \A b \in Addresses :
        ram'[b] = IF hw.wren /\ hw.addr = b THEN hw.din ELSE IF b = a THEN v ELSE ram[b]
  BY MemoryOne
<1>2. hw.wren => hw.addr \in 0 .. Half
  BY BoxOk DEF AccessInv, RecvTag, RecvLen, RecvPkt, SendTag
<1>3. \A b \in Box : ~(hw.wren /\ hw.addr = b)
  BY <1>2, BoxOk
<1> QED
  BY <1>1, <1>3, MemoryOne, BoxOk

(* What a clock of the driver means for the packet it sends. *)
SameBox == \A b \in Box : ram'[b] = ram[b]

Stays ==
  /\ SameBox /\ made' = made /\ sends' = sends
  /\ \/ pc' = pc /\ i' = i /\ len' = len
     \/ pc \notin {"fill", "fire"} /\ pc' \notin {"fill", "fire"}

Begins ==
  /\ SameBox /\ made' = made + 1 /\ sends' = sends
  /\ pc = "app" /\ ram[SendTag] # Number(1) /\ pc' = "fill" /\ i' = 0 /\ len' \in SendLengths

Fills ==
  /\ pc = "fill" /\ made' = made /\ sends' = sends
  /\ \A b \in Box : ram'[b] = IF b = SendPkt + i THEN Cell(MaxIn + made, i) ELSE ram[b]
  /\ i' = i + 1 /\ len' = len /\ pc' = IF i + 1 = len THEN "fire" ELSE "fill"

Fires ==
  /\ SameBox /\ made' = made
  /\ pc = "fire" /\ pc' = "spin" /\ sends' = Append(sends, <<made, len>>)

LEMMA SendDriver ==
  ASSUME TypeInv, AccessInv, NEW go \in BOOLEAN, Driver(go)
  PROVE  /\ Stays \/ Begins \/ Fills \/ Fires
         /\ pc # "fill" /\ hw.addr > SendLen => ramQ' = ram[hw.addr]
<1> USE DEF SameBox
<1>1. /\ i \in Nat /\ len \in Nat /\ made \in Nat /\ hw.addr \in Nat
      /\ RecvTag \in Nat /\ SendTag \in Nat /\ SendLen \in Nat /\ SendPkt \in Nat
      /\ RecvTag < SendLen /\ SendTag < SendLen /\ SendLen < SendPkt
      /\ \A b \in Box : b # RecvTag /\ b # SendTag /\ b # SendLen
  BY BoxOk DEF TypeInv, HwRec, Addresses
<1>2. \A p \in Nat, v \in Nat : Cell(p, v) \in CellRec /\ Number(v) \in CellRec
  BY DEF Number, Cell, CellRec
<1>3. CASE Memory({}) /\ UNCHANGED driver
  BY <1>3, BoxNone DEF driver, Stays
<1>4. CASE Read
  <2>1. CASE /\ pc = "app" /\ \E v \in SeesAt(RecvTag) : pc' = IF v = Number(1) THEN "len" ELSE "app"
             /\ Memory({}) /\ UNCHANGED <<i, len, buf, made, got, sends>>
    <3>1. pc' \in {"len", "app"}
      BY <2>1
    <3> QED
      BY <2>1, <3>1, BoxNone DEF Stays
  <2>2. CASE /\ pc = "len" /\ \E v \in SeesAt(RecvLen) : len' = v.val
             /\ i' = 0 /\ buf' = << >> /\ pc' \in {"copy", "release"}
             /\ Memory({}) /\ UNCHANGED <<made, got, sends>>
    BY <2>2, BoxNone DEF Stays
  <2>3. CASE /\ pc = "copy" /\ \E v \in SeesAt(RecvPkt + i) : buf' = Append(buf, v)
             /\ i' = i + 1 /\ pc' = IF i + 1 = len THEN "release" ELSE "copy"
             /\ Memory({}) /\ UNCHANGED <<len, made, got, sends>>
    <3>1. pc' \in {"release", "copy"}
      BY <2>3
    <3> QED
      BY <2>3, <3>1, BoxNone DEF Stays
  <2>4. CASE /\ pc = "release" /\ Memory({<<RecvTag, Number(2)>>})
             /\ got' = Append(got, buf) /\ buf' = << >> /\ pc' = "app"
             /\ UNCHANGED <<i, len, made, sends>>
    <3>1. Number(2) \in CellRec
      BY <1>2
    <3>2. /\ \A b \in Box : ram'[b] = IF b = RecvTag THEN Number(2) ELSE ram[b]
          /\ hw.addr # RecvTag => ramQ' = ram[hw.addr]
      BY <1>1, <2>4, <3>1, BoxOne
    <3>3. SameBox
      BY <1>1, <3>2
    <3>4. hw.addr > SendLen => ramQ' = ram[hw.addr]
      BY <1>1, <3>2
    <3> QED
      BY <2>4, <3>3, <3>4 DEF Stays
  <2> QED
    BY <1>4, <2>1, <2>2, <2>3, <2>4 DEF Read
<1>5. CASE Send
  <2>1. CASE /\ pc = "app" /\ made < MaxOut + restarts /\ ram[SendTag] # Number(1)
             /\ \E n \in SendLengths : len' = n /\ Memory({<<SendLen, Number(n)>>})
             /\ made' = made + 1
             /\ i' = 0 /\ pc' = "fill" /\ UNCHANGED <<buf, got, sends>>
    <3>1. PICK n \in SendLengths : len' = n /\ Memory({<<SendLen, Number(n)>>})
      BY <2>1
    <3>2. Number(n) \in CellRec
      BY <1>2, SendLengthFits
    <3>3. /\ \A b \in Box : ram'[b] = IF b = SendLen THEN Number(n) ELSE ram[b]
          /\ hw.addr # SendLen => ramQ' = ram[hw.addr]
      BY <1>1, <3>1, <3>2, BoxOne
    <3>4. SameBox
      BY <1>1, <3>3
    <3>5. hw.addr > SendLen => ramQ' = ram[hw.addr]
      BY <1>1, <3>3
    <3>6. Begins
      BY <2>1, <3>1, <3>4 DEF Begins
    <3> QED
      BY <3>5, <3>6
  <2>2. CASE /\ pc = "fill" /\ Memory({<<SendPkt + i, Cell(MaxIn + made, i)>>})
             /\ i' = i + 1 /\ pc' = IF i + 1 = len THEN "fire" ELSE "fill"
             /\ UNCHANGED <<len, buf, made, got, sends>>
    <3>1. SendPkt + i \in Nat /\ MaxIn + made \in Nat
      BY <1>1, BoxOk
    <3>2. Cell(MaxIn + made, i) \in CellRec
      BY <1>1, <1>2, <3>1
    <3>3. \A b \in Box : ram'[b] = IF b = SendPkt + i THEN Cell(MaxIn + made, i) ELSE ram[b]
      BY <2>2, <3>1, <3>2, BoxOne
    <3> QED
      BY <2>2, <3>3 DEF Fills
  <2>3. CASE /\ pc = "fire" /\ Memory({<<SendTag, Number(1)>>})
             /\ sends' = Append(sends, <<made, len>>) /\ pc' = "spin"
             /\ UNCHANGED <<i, len, buf, made, got>>
    <3>1. Number(1) \in CellRec
      BY <1>2
    <3>2. /\ \A b \in Box : ram'[b] = IF b = SendTag THEN Number(1) ELSE ram[b]
          /\ hw.addr # SendTag => ramQ' = ram[hw.addr]
      BY <1>1, <2>3, <3>1, BoxOne
    <3>3. SameBox
      BY <1>1, <3>2
    <3>4. hw.addr > SendLen => ramQ' = ram[hw.addr]
      BY <1>1, <3>2
    <3> QED
      BY <2>3, <3>3, <3>4 DEF Fires
  <2>4. CASE /\ pc = "spin" /\ \E v \in SeesAt(SendTag) : pc' = IF v = Number(1) THEN "spin" ELSE "app"
             /\ Memory({}) /\ UNCHANGED <<i, len, buf, made, got, sends>>
    <3>1. pc' \in {"spin", "app"}
      BY <2>4
    <3> QED
      BY <2>4, <3>1, BoxNone DEF Stays
  <2> QED
    BY <1>5, <2>1, <2>2, <2>3, <2>4 DEF Send
<1> QED
  BY <1>3, <1>4, <1>5 DEF Driver

(* The machine that reads: what it makes of a word, and where it comes from. *)
LEMMA HwReads ==
  ASSUME TypeInv, AccessInv, CheckPkt, AccessInv'
  PROVE  LET cells == [hw.dinSend.cells EXCEPT ![hw.count] = dout]
         IN /\ Reading /\ hw.sendLength = 0 =>
                 hw'.dinSend = Leaving("tail", hw.count + 1, cells) /\ hw'.wren /\ hw'.addr = SendTag
            /\ Reading /\ hw.sendLength # 0 /\ hw.count = Q - 1 =>
                 hw'.dinSend = Leaving(IF hw.head THEN "head" ELSE "body", Q, cells)
            /\ Reading /\ hw.sendLength # 0 /\ hw.count # Q - 1 => hw'.dinSend.cells = cells
            /\ Reading /\ hw.sendLength # 0 => hw'.addr = NextAddr
            /\ hw.state = "READ_SEND_LENGTH" => hw'.addr = NextAddr
            /\ hw'.state = "READ_SEND_LENGTH" =>
                 hw.state = "CHECK_SEND" /\ dout.val % 2 = 1 /\ hw'.addr = NextAddr
            /\ hw'.state = "CHECK_SEND" =>
                 hw.state = "WAIT_2" /\ hw.addr >= Half /\ hw'.addr = NextAddr
            /\ hw'.wren /\ hw'.addr = SendTag => Reading /\ hw.sendLength = 0
            /\ hw'.state = "READ_SEND_PKT" => Reading \/ hw.state = "READ_SEND_LENGTH"
<1> DEFINE cells == [hw.dinSend.cells EXCEPT ![hw.count] = dout]
<1>1. hw \in HwRec /\ hw.wren \in BOOLEAN /\ hw.dinSend \in LeavingRec
  BY DEF TypeInv, HwRec
<1>2. hw.wren => hw.state \in {"IDLE", "WRITE_RECV_PKT", "WRITE_RECV_LENGTH", "WRITE_RECV_TAG"}
  BY HwMoves
<1>3. hw'.wren /\ hw'.addr = SendTag => hw'.state = "IDLE"
  BY BoxOk DEF AccessInv, RecvLen, RecvPkt
<1>4. CASE ReadSendPkt
  <2>1. hw.state = "READ_SEND_PKT" /\ Reading
    BY <1>4 DEF ReadSendPkt, Reading
  <2> HIDE DEF cells
  <2>2. CASE hw.sendLength = 0
    <3>1. /\ hw'.dinSend = Leaving("tail", hw.count + 1, cells) /\ hw'.state = "IDLE"
          /\ hw'.wren /\ hw'.addr = SendTag
      BY <1>1, <1>4, <2>2 DEF ReadSendPkt, HwRec, cells
    <3> QED
      BY <2>1, <2>2, <3>1 DEF cells
  <2>3. CASE hw.sendLength # 0 /\ hw.count = Q - 1
    <3>1. /\ hw'.dinSend = Leaving(IF hw.head THEN "head" ELSE "body", Q, cells)
          /\ hw'.addr = NextAddr /\ hw'.state = "READ_SEND_PKT"
      BY <1>1, <1>4, <2>3 DEF ReadSendPkt, HwRec, cells
    <3> QED
      BY <1>3, <2>1, <2>3, <3>1 DEF cells
  <2>4. CASE hw.sendLength # 0 /\ hw.count # Q - 1
    <3>1. hw'.dinSend.cells = cells /\ hw'.addr = NextAddr /\ hw'.state = "READ_SEND_PKT"
      BY <1>1, <1>4, <2>4 DEF ReadSendPkt, HwRec, LeavingRec, cells
    <3> QED
      BY <1>3, <2>1, <2>4, <3>1 DEF cells
  <2> QED
    BY <2>2, <2>3, <2>4
<1>5. CASE ReadSendLength
  <2>1. hw.state = "READ_SEND_LENGTH" /\ hw'.addr = NextAddr /\ hw'.state = "READ_SEND_PKT"
    BY <1>1, <1>5 DEF ReadSendLength, HwRec
  <2> QED
    BY <1>3, <2>1 DEF Reading
<1>6. CASE CheckSend
  <2>1. /\ hw.state = "CHECK_SEND" /\ hw'.addr = NextAddr /\ hw'.wren = hw.wren
        /\ hw'.state = IF dout.val % 2 = 1 THEN "READ_SEND_LENGTH" ELSE "IDLE"
    BY <1>1, <1>6 DEF CheckSend, HwRec
  <2>2. ~hw'.wren
    BY <1>1, <1>2, <2>1
  <2> QED
    BY <2>1, <2>2 DEF Reading
<1>7. CASE Wait
  <2>1. \/ hw.state = "WAIT_1" /\ hw'.state = "WAIT_2"
        \/ /\ hw.state = "WAIT_2" /\ hw'.addr = NextAddr
           /\ hw'.state = IF hw.addr < Half THEN "CHECK_RECV" ELSE "CHECK_SEND"
    BY <1>1, <1>7 DEF Wait, HwRec
  <2>2. hw.addr \in Nat /\ Half \in Nat
    BY <1>1, BoxOk DEF HwRec, Addresses
  <2> QED
    BY <1>3, <2>1, <2>2 DEF Reading
<1>8. CASE Idle
  BY <1>1, <1>8 DEF Idle, HwRec, Reading
<1>9. CASE CheckRecv
  <2>1. hw.state = "CHECK_RECV" /\ hw'.state \in {"WRITE_RECV_PKT", "WAIT_1"}
    BY <1>1, <1>9 DEF CheckRecv, HwRec
  <2> QED
    BY <1>3, <2>1 DEF Reading
<1>10. CASE WriteRecvPkt
  <2>1. hw.state = "WRITE_RECV_PKT" /\ hw'.state \in {"WRITE_RECV_PKT", "WRITE_RECV_LENGTH"}
    BY <1>1, <1>10 DEF WriteRecvPkt, HwRec
  <2> QED
    BY <1>3, <2>1 DEF Reading
<1>11. CASE WriteRecvLength
  <2>1. hw.state = "WRITE_RECV_LENGTH" /\ hw'.state = "WRITE_RECV_TAG"
    BY <1>1, <1>11 DEF WriteRecvLength, HwRec
  <2> QED
    BY <1>3, <2>1 DEF Reading
<1>12. CASE WriteRecvTag
  <2>1. hw.state = "WRITE_RECV_TAG" /\ hw'.state = "IDLE" /\ hw'.addr = RecvTag
    BY <1>1, <1>12 DEF WriteRecvTag, HwRec
  <2> QED
    BY <2>1, BoxOk DEF Reading
<1> QED
  BY <1>4, <1>5, <1>6, <1>7, <1>8, <1>9, <1>10, <1>11, <1>12 DEF CheckPkt

(* While the tag is set, the driver leaves the packet alone. *)
LEMMA BoxKept ==
  ASSUME TypeInv, AccessInv, TagInv, SendMailInv, NEW go \in BOOLEAN, Driver(go),
         ram[SendTag] = Number(1)
  PROVE  /\ SameBox /\ sends' = sends /\ LastId' = LastId /\ MailLen' = MailLen
         /\ pc \notin {"fill", "fire"} /\ pc' \notin {"fill", "fire"}
         /\ made' = made /\ MailLen \in SendLengths
         /\ hw.addr > SendLen => ramQ' = ram[hw.addr]
<1>1. pc \notin {"fill", "fire"} /\ MailLen \in SendLengths
  BY DEF TagInv, SendMailInv
<1>2. Stays
  BY <1>1, SendDriver DEF Begins, Fills, Fires
<1>3. hw.addr > SendLen => ramQ' = ram[hw.addr]
  BY <1>1, SendDriver
<1>4. SameBox /\ sends' = sends /\ made' = made /\ pc' \notin {"fill", "fire"}
  BY <1>1, <1>2 DEF Stays
<1>5. ram'[SendLen] = ram[SendLen]
  BY <1>1, <1>4, SendLenStep
<1>6. MailLen' = MailLen
  BY <1>5 DEF MailLen, SendLen
<1>7. LastId' = LastId
  BY <1>4 DEF LastId
<1> QED
  BY <1>1, <1>3, <1>4, <1>6, <1>7

(* The tag in the next clock. *)
LEMMA SendTagStep ==
  ASSUME TypeInv, AccessInv, TagInv, BoxInv, NEW go \in BOOLEAN, Driver(go), CheckPkt, AccessInv'
  PROVE  /\ Clearing => ram'[SendTag] = Number(0)
         /\ ~Clearing => ram'[SendTag] = IF pc = "fire" /\ pc' = "spin" THEN Number(1) ELSE ram[SendTag]
         /\ pc = "fire" => ram[SendTag] # Number(1) /\ ~Clearing
         /\ Clearing' => Reading /\ hw.sendLength = 0
         /\ Reading => ram[SendTag] = Number(1) /\ ~Clearing
         /\ Number(0) # Number(1)
<1>1. ram'[SendTag] = IF hw.wren /\ hw.addr = SendTag THEN hw.din
                      ELSE IF pc = "fire" /\ pc' = "spin" THEN Number(1) ELSE ram[SendTag]
  BY TagStep
<1>2. Clearing => hw.din = Number(0) /\ ~Reading
  BY BoxOk DEF Clearing, AccessInv, RecvLen, RecvPkt, Reading
<1>3. Number(0) # Number(1)
  BY DEF Number, Cell
<1>4. pc = "fire" => ram[SendTag] # Number(1)
  BY DEF TagInv
<1>5. Clearing => ram[SendTag] = Number(1)
  BY DEF BoxInv
<1>6. Reading => ram[SendTag] = Number(1)
  BY DEF TagInv, Reading
<1>7. Clearing' => Reading /\ hw.sendLength = 0
  BY HwReads DEF Clearing, SendTag
<1> QED
  BY <1>1, <1>2, <1>3, <1>4, <1>5, <1>6, <1>7 DEF Clearing

LEMMA SendsStep ==
  ASSUME TypeInv, AccessInv, TagInv, SendMailInv, SendsInv, NEW go \in BOOLEAN, Driver(go)
  PROVE  SendsInv'
<1>1. made \in Nat /\ sends \in Seq(Nat \X SendLengths)
  BY DEF TypeInv, SendsInv
<1>2. sends # << >> =>
        sends[Len(sends)][1] = IF pc \in {"fill", "fire"} THEN made - 1 ELSE made
  BY DEF SendsInv
<1>3. CASE Stays
  <2>1. pc' \in {"fill", "fire"} <=> pc \in {"fill", "fire"}
    BY <1>3 DEF Stays
  <2>2. sends' = sends /\ made' = made
    BY <1>3 DEF Stays
  <2> QED
    BY <1>1, <1>2, <2>1, <2>2 DEF SendsInv
<1>4. CASE Begins
  <2>1. /\ sends' = sends /\ made' = made + 1 /\ pc = "app" /\ pc' = "fill"
    BY <1>4 DEF Begins
  <2>2. made' - 1 = made
    BY <1>1, <2>1
  <2> QED
    BY <1>1, <1>2, <2>1, <2>2 DEF SendsInv
<1>5. CASE Fills
  <2>1. sends' = sends /\ made' = made /\ pc = "fill" /\ pc' \in {"fill", "fire"}
    BY <1>5 DEF Fills
  <2> QED
    BY <1>1, <1>2, <2>1 DEF SendsInv
<1>6. CASE Fires
  <2>1. /\ sends' = Append(sends, <<made, len>>) /\ made' = made /\ pc = "fire" /\ pc' = "spin"
    BY <1>6 DEF Fires
  <2>2. PICK e \in Nat \X SendLengths : e = <<made, len>>
    BY <1>1, <2>1 DEF SendMailInv
  <2>3. sends' \in Seq(Nat \X SendLengths) /\ sends'[Len(sends')] = e
    BY <1>1, <2>1, <2>2
  <2>4. e[1] = made
    BY <2>2
  <2> QED
    BY <2>1, <2>3, <2>4 DEF SendsInv
<1> QED
  BY <1>3, <1>4, <1>5, <1>6, SendDriver

LEMMA BoxHolds ==
  ASSUME SameBox, NEW p, NEW n \in Int, n + 2 <= Half, SendHolds(p, n)
  PROVE  \A u \in 0 .. n - 1 : ram'[SendPkt + u] = Cell(p, u)
<1>1. SUFFICES ASSUME NEW u \in 0 .. n - 1 PROVE ram'[SendPkt + u] = Cell(p, u)
  OBVIOUS
<1>2. SendPkt + u \in Box
  BY BoxOk DEF Box
<1> QED
  BY <1>2 DEF SameBox, SendHolds

LEMMA BoxStep ==
  ASSUME TypeInv, AccessInv, TagInv, SendMailInv, SendsInv, BoxInv,
         AccessInv', NEW go \in BOOLEAN, Driver(go), CheckPkt, SendMailInv'
  PROVE  BoxInv'
<1>1. /\ i \in Nat /\ len \in Nat /\ made \in Nat /\ MaxIn \in Nat /\ Half \in Nat /\ SendPkt = Half + 2
      /\ sends \in Seq(Nat \X SendLengths)
  BY BoxOk DEF TypeInv, SendsInv
<1>2. pc \in {"fill", "fire"} => len \in SendLengths /\ len + 2 <= Half /\ len > 1
  BY SendLengthFits DEF SendMailInv
<1>3. /\ pc = "fill" => i < len /\ SendHolds(MaxIn + made, i)
      /\ pc = "fire" => SendHolds(MaxIn + made, len)
  BY DEF BoxInv
<1>4. CASE Fills
  <2>1. /\ pc = "fill" /\ made' = made /\ sends' = sends
        /\ \A b \in Box : ram'[b] = IF b = SendPkt + i THEN Cell(MaxIn + made, i) ELSE ram[b]
        /\ i' = i + 1 /\ len' = len /\ pc' = IF i + 1 = len THEN "fire" ELSE "fill"
    BY <1>4 DEF Fills
  <2>2. ASSUME NEW u \in 0 .. i
        PROVE  ram'[SendPkt + u] = Cell(MaxIn + made, u)
    <3>1. SendPkt + u \in Box
      BY <1>1, <1>2, <1>3, <2>1 DEF Box
    <3>2. CASE u = i
      BY <2>1, <3>1, <3>2
    <3>3. CASE u # i
      <4>1. SendPkt + u # SendPkt + i /\ u \in 0 .. i - 1
        BY <1>1, <3>3
      <4>2. ram'[SendPkt + u] = ram[SendPkt + u]
        BY <2>1, <3>1, <4>1
      <4> QED
        BY <1>3, <2>1, <4>1, <4>2 DEF SendHolds
    <3> QED
      BY <3>2, <3>3
  <2>3. i' - 1 = i
    BY <1>1, <2>1
  <2>4. SendHolds(MaxIn + made, i)'
    BY <2>1, <2>2, <2>3 DEF SendHolds, SendPkt
  <2>5. pc' = "fill" => i' < len'
    BY <1>1, <1>3, <2>1
  <2>6. pc' = "fire" => SendHolds(MaxIn + made, len)'
    <3>1. SUFFICES ASSUME pc' = "fire" PROVE SendHolds(MaxIn + made, len)'
      OBVIOUS
    <3>2. len' = i'
      BY <2>1, <3>1
    <3> QED
      BY <2>4, <3>2 DEF SendHolds
  <2>7. ram[SendTag] # Number(1) /\ pc \in {"fill", "fire"}
    BY <2>1 DEF TagInv
  <2>8. ram'[SendTag] # Number(1) /\ ~Clearing'
    BY <2>1, <2>7, SendTagStep
  <2> QED
    BY <2>4, <2>5, <2>6, <2>8 DEF BoxInv, SendTag, Number, Cell
<1>5. CASE ~Fills
  <2>1. SameBox
    BY <1>5, SendDriver DEF Stays, Begins, Fires
  <2>2. pc' = "fill" => i' < len' /\ SendHolds(MaxIn + made, i)'
    <3>1. SUFFICES ASSUME pc' = "fill" PROVE i' < len' /\ SendHolds(MaxIn + made, i)'
      OBVIOUS
    <3>2. CASE Begins
      <4>1. i' = 0 /\ len' \in SendLengths
        BY <3>2 DEF Begins
      <4>2. len' > 1 /\ len' \in Nat
        BY <4>1, SendLengthFits
      <4>3. 0 .. i' - 1 = {}
        BY <4>1
      <4> QED
        BY <4>1, <4>2, <4>3 DEF SendHolds
    <3>3. CASE ~Begins
      <4>1. pc = "fill" /\ i' = i /\ len' = len /\ made' = made
        BY <1>5, <3>1, <3>3, SendDriver DEF Stays, Fires
      <4>2. i + 2 <= Half
        BY <1>1, <1>2, <1>3, <4>1
      <4>3. \A u \in 0 .. i - 1 : ram'[SendPkt + u] = Cell(MaxIn + made, u)
        BY <1>1, <1>3, <2>1, <4>1, <4>2, BoxHolds
      <4> QED
        BY <1>3, <4>1, <4>3 DEF SendHolds, SendPkt
    <3> QED
      BY <3>2, <3>3
  <2>3. pc' = "fire" => SendHolds(MaxIn + made, len)'
    <3>1. SUFFICES ASSUME pc' = "fire" PROVE SendHolds(MaxIn + made, len)'
      OBVIOUS
    <3>2. pc = "fire" /\ len' = len /\ made' = made
      BY <1>5, <3>1, SendDriver DEF Stays, Begins, Fires
    <3>3. \A u \in 0 .. len - 1 : ram'[SendPkt + u] = Cell(MaxIn + made, u)
      BY <1>1, <1>2, <1>3, <2>1, <3>2, BoxHolds
    <3> QED
      BY <3>2, <3>3 DEF SendHolds, SendPkt
  <2>4. ASSUME ram'[SendTag] = Number(1)
        PROVE  sends' # << >> /\ sends'[Len(sends')][2] = MailLen' /\ SendHolds(LastId, MailLen)'
    <3>1. CASE ram[SendTag] = Number(1)
      <4>1. /\ sends' = sends /\ LastId' = LastId /\ MailLen' = MailLen /\ MailLen \in SendLengths
        BY <3>1, BoxKept
      <4>2. sends # << >> /\ sends[Len(sends)][2] = MailLen /\ SendHolds(LastId, MailLen)
        BY <3>1 DEF BoxInv
      <4>3. MailLen \in Int /\ MailLen + 2 <= Half
        BY <4>1, SendLengthFits
      <4>4. \A u \in 0 .. MailLen - 1 : ram'[SendPkt + u] = Cell(LastId, u)
        BY <2>1, <4>2, <4>3, BoxHolds
      <4>5. SendHolds(LastId, MailLen)'
        BY <4>1, <4>4 DEF SendHolds, SendPkt
      <4> QED
        BY <4>1, <4>2, <4>5
    <3>2. CASE ram[SendTag] # Number(1)
      <4>1. pc = "fire" /\ pc' = "spin"
        BY <2>4, <3>2, SendTagStep
      <4>2. sends' = Append(sends, <<made, len>>) /\ made' = made
        BY <1>5, <4>1, SendDriver DEF Stays, Begins, Fires
      <4>3. len \in SendLengths /\ ram[SendLen] = Number(len)
        BY <4>1 DEF SendMailInv
      <4>4. MailLen' = len
        <5>1. ram'[SendLen] = Number(len)
          BY <4>1, <4>3, SendLenStep
        <5> QED
          BY <5>1 DEF MailLen, SendLen, Number, Cell
      <4>5. PICK e \in Nat \X SendLengths : e = <<made, len>>
        BY <1>1, <4>3
      <4>6. sends' # << >> /\ sends'[Len(sends')] = e
        BY <1>1, <4>2, <4>5
      <4>7. e[1] = made /\ e[2] = len
        BY <4>5
      <4>8. LastId' = MaxIn + made
        BY <4>6, <4>7 DEF LastId
      <4>9. \A u \in 0 .. len - 1 : ram'[SendPkt + u] = Cell(MaxIn + made, u)
        BY <1>1, <1>2, <1>3, <2>1, <4>1, BoxHolds
      <4>10. SendHolds(LastId, MailLen)'
        BY <4>4, <4>8, <4>9 DEF SendHolds, SendPkt
      <4> QED
        BY <4>4, <4>6, <4>7, <4>10
    <3> QED
      BY <3>1, <3>2
  <2>5. Clearing' => ram'[SendTag] = Number(1)
    <3>1. SUFFICES ASSUME Clearing' PROVE ram'[SendTag] = Number(1)
      OBVIOUS
    <3>2. Reading /\ ram[SendTag] = Number(1) /\ ~Clearing
      BY <3>1, SendTagStep
    <3> QED
      BY <3>2, SendTagStep
  <2> QED
    BY <2>2, <2>3, <2>4, <2>5 DEF BoxInv, SendTag, Number, Cell
<1> QED
  BY <1>4, <1>5

(* The cells of a word, with one more. *)
LEMMA CellsOf ==
  ASSUME TypeInv
  PROVE  LET cells == [hw.dinSend.cells EXCEPT ![hw.count] = dout]
         IN  /\ \A u \in 0 .. hw.count - 1 : cells[u] = hw.dinSend.cells[u]
             /\ cells[hw.count] = dout
<1>1. /\ hw.dinSend.cells \in [0 .. Q - 1 -> CellRec] /\ hw.count \in 0 .. Q - 1 /\ Q \in Nat
  BY BoxOk DEF TypeInv, HwRec, LeavingRec
<1>2. \A u \in 0 .. hw.count - 1 : u \in 0 .. Q - 1 /\ u # hw.count
  BY <1>1
<1> QED
  BY <1>1, <1>2

LEMMA PipeStep ==
  ASSUME TypeInv, TypeInv', AccessInv, TagInv, SendTypeInv, SendMailInv, OpenInv, BoxInv, PipeInv,
         AccessInv', NEW go \in BOOLEAN, Driver(go), CheckPkt
  PROVE  PipeInv'
<1>1. /\ hw.addr \in Nat /\ SendPkt = Half + 2 /\ SendLen = Half + 1 /\ Half \in Nat /\ Half > 2
      /\ Q \in Nat /\ Q > 1 /\ hw.count \in 0 .. Q - 1 /\ hw.sendLength \in Int
  BY BoxOk DEF TypeInv, HwRec, Addresses
<1>2. hw.addr + 1 < 2 * Half => NextAddr = hw.addr + 1
  BY <1>1, NextAddrOk
<1>3. dout' = ramQ
  BY TagStep
<1>4. ASSUME ram[SendTag] = Number(1)
      PROVE  /\ LastId' = LastId /\ MailLen' = MailLen /\ MailLen \in Nat /\ MailLen > 1
             /\ MailLen + 2 <= Half
             /\ hw.addr > SendLen => ramQ' = ram[hw.addr]
             /\ \A u \in Nat : u < MailLen => ram[SendPkt + u] = Cell(LastId, u)
  <2>1. MailLen \in SendLengths /\ SendHolds(LastId, MailLen)
    BY <1>4 DEF SendMailInv, BoxInv
  <2>2. MailLen \in Nat /\ MailLen > 1 /\ MailLen + 2 <= Half
    BY <2>1, SendLengthFits
  <2>3. \A u \in Nat : u < MailLen => u \in 0 .. MailLen - 1
    BY <2>2
  <2>4. LastId' = LastId /\ MailLen' = MailLen /\ (hw.addr > SendLen => ramQ' = ram[hw.addr])
    BY <1>4, BoxKept
  <2> QED
    BY <2>1, <2>2, <2>3, <2>4 DEF SendHolds
<1>5. hw'.state = "CHECK_SEND" => hw'.addr = SendPkt
  <2>1. SUFFICES ASSUME hw'.state = "CHECK_SEND" PROVE hw'.addr = SendPkt
    OBVIOUS
  <2>2. hw.state = "WAIT_2" /\ hw.addr >= Half /\ hw'.addr = NextAddr
    BY <2>1, HwReads
  <2>3. hw.addr = Half + 1
    BY <1>1, <2>2, BoxOk DEF AccessInv
  <2> QED
    BY <1>1, <1>2, <2>2, <2>3
<1>6. hw'.state = "READ_SEND_LENGTH" => hw'.addr = SendPkt + 1 /\ ramQ' = Cell(LastId', 0)
  <2>1. SUFFICES ASSUME hw'.state = "READ_SEND_LENGTH"
                 PROVE  hw'.addr = SendPkt + 1 /\ ramQ' = Cell(LastId', 0)
    OBVIOUS
  <2>2. hw.state = "CHECK_SEND" /\ dout.val % 2 = 1 /\ hw'.addr = NextAddr
    BY <2>1, HwReads
  <2>3. hw.addr = SendPkt
    BY <2>2 DEF PipeInv
  <2>4. ram[SendTag] = Number(1)
    <3>1. dout \in {Number(0), ram[SendTag]} /\ ram[SendTag] \in {Number(0), Number(1)}
      BY <2>2 DEF TagInv
    <3>2. dout # Number(0)
      BY <2>2 DEF Number, Cell
    <3> QED
      BY <3>1, <3>2
  <2>5. ramQ' = ram[SendPkt] /\ LastId' = LastId /\ ram[SendPkt + 0] = Cell(LastId, 0)
    BY <1>1, <1>4, <2>3, <2>4
  <2> QED
    BY <1>1, <1>2, <1>4, <2>2, <2>3, <2>4, <2>5
<1>7. ASSUME hw.state = "READ_SEND_LENGTH"
      PROVE  PipeInv'
  <2>1. ram[SendTag] = Number(1) /\ dout = ram[SendLen]
    BY <1>7 DEF TagInv, SendMailInv
  <2>2. hw'.count = 0 /\ hw'.sendLength = dout.val - 1 /\ hw'.state = "READ_SEND_PKT"
    BY <1>7, HwSends DEF Reading, OpenInv, Open
  <2>3. hw.addr = SendPkt + 1 /\ ramQ = Cell(LastId, 0)
    BY <1>7 DEF PipeInv
  <2>4. hw'.sendLength = MailLen - 1
    BY <2>1, <2>2 DEF MailLen
  <2>5. Place' = 0
    BY <1>4, <2>1, <2>4 DEF Place
  <2>6. dout' = Cell(LastId', 0)
    BY <1>3, <1>4, <2>1, <2>3
  <2>7. ramQ' = Cell(LastId', 1)
    <3>1. hw.addr > SendLen
      BY <1>1, <2>3
    <3> QED
      BY <1>4, <2>1, <2>3, <3>1
  <2>8. hw'.sendLength >= 2 => hw'.addr = SendPkt + 2
    <3>1. SUFFICES ASSUME hw'.sendLength >= 2 PROVE hw'.addr = SendPkt + 2
      OBVIOUS
    <3>2. MailLen >= 3 /\ Half >= 5
      BY <1>1, <1>4, <2>1, <2>4, <3>1
    <3>3. hw.addr + 1 < 2 * Half /\ hw'.addr = NextAddr
      BY <1>1, <1>7, <2>3, <3>2, HwReads
    <3> QED
      BY <1>1, <1>2, <2>3, <3>3
  <2>9. 0 .. hw'.count - 1 = {} /\ hw'.sendLength >= 0
    BY <1>4, <2>1, <2>2, <2>4
  <2>10. /\ Place' >= hw'.count /\ dout' = Cell(LastId', Place') /\ ramQ' = Cell(LastId', Place' + 1)
         /\ hw'.sendLength >= 2 => hw'.addr = SendPkt + Place' + 2
    BY <1>1, <2>2, <2>5, <2>6, <2>7, <2>8
  <2> QED
    BY <2>2, <2>9, <2>10 DEF PipeInv, SendPkt, Cell
<1>8. ASSUME Reading, hw.sendLength # 0
      PROVE  PipeInv'
  <2> DEFINE cells == [hw.dinSend.cells EXCEPT ![hw.count] = dout]
  <2>1. ram[SendTag] = Number(1)
    BY <1>8 DEF TagInv, Reading
  <2>2. /\ hw'.sendLength = hw.sendLength - 1 /\ hw'.state = "READ_SEND_PKT"
        /\ hw'.count = IF hw.count = Q - 1 THEN 0 ELSE hw.count + 1
    BY <1>8, HwSends DEF Reading, OpenInv, Open
  <2>3. /\ hw.sendLength >= 1 /\ Place >= hw.count
        /\ dout = Cell(LastId, Place) /\ ramQ = Cell(LastId, Place + 1)
        /\ hw.sendLength >= 2 => hw.addr = SendPkt + Place + 2
        /\ \A u \in 0 .. hw.count - 1 :
            hw.dinSend.cells[u] = Cell(LastId, Place - hw.count + u)
    BY <1>1, <1>8 DEF PipeInv
  <2>4. PICK j \in Nat : j = Place /\ j = MailLen - 1 - hw.sendLength
    BY <1>1, <1>4, <2>1, <2>3 DEF Place
  <2>5. Place' = j + 1
    BY <1>1, <1>4, <2>1, <2>2, <2>4 DEF Place
  <2>6. dout' = Cell(LastId', Place')
    BY <1>3, <1>4, <2>1, <2>3, <2>4, <2>5
  <2>7. hw'.sendLength >= 1 => ramQ' = Cell(LastId', Place' + 1)
    <3>1. SUFFICES ASSUME hw'.sendLength >= 1 PROVE ramQ' = Cell(LastId', Place' + 1)
      OBVIOUS
    <3>2. hw.sendLength >= 2 /\ j + 2 \in Nat /\ j + 2 < MailLen
      BY <1>1, <1>4, <2>1, <2>2, <2>4, <3>1
    <3>3. hw.addr = SendPkt + (j + 2) /\ hw.addr > SendLen
      BY <1>1, <2>3, <2>4, <3>2
    <3>4. ram[SendPkt + (j + 2)] = Cell(LastId, j + 2)
      BY <1>4, <2>1, <3>2
    <3>5. ramQ' = Cell(LastId, j + 2)
      BY <1>4, <2>1, <3>3, <3>4
    <3>6. Place' + 1 = j + 2
      BY <2>5
    <3> QED
      BY <1>4, <2>1, <3>5, <3>6
  <2>8. hw'.sendLength >= 2 => hw'.addr = SendPkt + Place' + 2
    <3>1. SUFFICES ASSUME hw'.sendLength >= 2 PROVE hw'.addr = SendPkt + Place' + 2
      OBVIOUS
    <3>2. hw.sendLength >= 3 /\ j + 3 < MailLen
      BY <1>1, <1>4, <2>1, <2>2, <2>4, <3>1
    <3>3. hw.addr = SendPkt + j + 2
      BY <1>1, <2>3, <2>4, <3>2
    <3>4. hw.addr + 1 < 2 * Half
      BY <1>1, <1>4, <2>1, <3>2, <3>3
    <3>5. hw'.addr = hw.addr + 1
      BY <1>2, <1>8, <3>4, HwReads
    <3> QED
      BY <1>1, <2>5, <3>3, <3>5
  <2>9. Place' >= hw'.count /\ hw'.sendLength >= 0
    BY <1>1, <2>2, <2>3, <2>4, <2>5
  <2>10. ASSUME NEW u \in 0 .. hw'.count - 1
         PROVE  hw'.dinSend.cells[u] = Cell(LastId', Place' - hw'.count + u)
    <3>1. hw.count # Q - 1 /\ hw'.count = hw.count + 1
      BY <1>1, <2>2
    <3>2. hw'.dinSend.cells = cells
      BY <1>8, <3>1, HwReads
    <3>3. /\ \A v \in 0 .. hw.count - 1 : cells[v] = hw.dinSend.cells[v]
          /\ cells[hw.count] = dout
      BY CellsOf
    <3> HIDE DEF cells
    <3>4. Place' - hw'.count + u = j - hw.count + u
      BY <1>1, <2>4, <2>5, <3>1
    <3>5. CASE u = hw.count
      <4>1. j - hw.count + u = j
        BY <1>1, <2>4, <3>5
      <4> QED
        BY <1>4, <2>1, <2>3, <2>4, <3>2, <3>3, <3>4, <3>5, <4>1
    <3>6. CASE u # hw.count
      <4>1. u \in 0 .. hw.count - 1
        BY <1>1, <3>1, <3>6
      <4> QED
        BY <1>4, <2>1, <2>3, <2>4, <3>2, <3>3, <3>4, <4>1
    <3> QED
      BY <3>5, <3>6
  <2> QED
    BY <2>2, <2>6, <2>7, <2>8, <2>9, <2>10 DEF PipeInv, SendPkt, Cell
<1>9. hw'.state = "READ_SEND_PKT" =>
        hw.state = "READ_SEND_LENGTH" \/ (Reading /\ hw.sendLength # 0)
  <2>1. Reading /\ hw.sendLength = 0 => hw'.state = "IDLE"
    BY HwSends DEF OpenInv, Open, Reading
  <2> QED
    BY <2>1, HwReads
<1> QED
  BY <1>5, <1>6, <1>7, <1>8, <1>9 DEF PipeInv, Reading, SendPkt, Cell

(* Words in their order stay so when a packet is fired, and a word that goes *)
(* on where the last one ends may be put behind it.                          *)
LEMMA OrderKept ==
  ASSUME NEW q \in Seq(LeavingRec), NEW s \in Seq(Nat \X SendLengths), InOrder(q, s),
         NEW e \in Nat \X SendLengths
  PROVE  InOrder(q, Append(s, e))
<1>1. PICK t \in Seq(Nat \X SendLengths) : t = Append(s, e)
  BY AppendProperties
<1>2. Len(t) = Len(s) + 1 /\ Len(s) \in Nat /\ \A m \in 1 .. Len(s) : t[m] = s[m]
  BY <1>1
<1>3. /\ \A k \in 1 .. Len(q) : \E m \in 1 .. Len(s) : IsPiece(q[k], s[m])
      /\ \A k \in 1 .. Len(q) - 1 : Continues(q[k], q[k + 1])
      /\ q # << >> => q[1].cells[0] = Cell(MaxIn + s[1][1], 0)
  BY DEF InOrder
<1>4. \A k \in 1 .. Len(q) : \E m \in 1 .. Len(t) : IsPiece(q[k], t[m])
  <2>1. SUFFICES ASSUME NEW k \in 1 .. Len(q) PROVE \E m \in 1 .. Len(t) : IsPiece(q[k], t[m])
    OBVIOUS
  <2>2. PICK m \in 1 .. Len(s) : IsPiece(q[k], s[m])
    BY <1>3
  <2>3. m \in 1 .. Len(t) /\ t[m] = s[m]
    BY <1>2
  <2> QED
    BY <2>2, <2>3
<1>5. q # << >> => q[1].cells[0] = Cell(MaxIn + t[1][1], 0)
  <2>1. SUFFICES ASSUME q # << >> PROVE q[1].cells[0] = Cell(MaxIn + t[1][1], 0)
    OBVIOUS
  <2>2. 1 \in 1 .. Len(q)
    BY <2>1
  <2>3. PICK m \in 1 .. Len(s) : IsPiece(q[1], s[m])
    BY <1>3, <2>2
  <2>4. 1 \in 1 .. Len(s)
    BY <1>2, <2>3
  <2>5. t[1] = s[1]
    BY <1>2, <2>4
  <2> QED
    BY <1>3, <2>1, <2>5
<1> QED
  BY <1>1, <1>3, <1>4, <1>5 DEF InOrder

LEMMA OrderAppends ==
  ASSUME NEW q \in Seq(LeavingRec), NEW s \in Seq(Nat \X SendLengths), InOrder(q, s),
         NEW w \in LeavingRec, \E m \in 1 .. Len(s) : IsPiece(w, s[m]),
         q = << >> => w.cells[0] = Cell(MaxIn + s[1][1], 0),
         q # << >> => Continues(q[Len(q)], w)
  PROVE  InOrder(Append(q, w), s)
<1>1. PICK r \in Seq(LeavingRec), n \in Nat :
        /\ r = Append(q, w) /\ n = Len(q) /\ Len(r) = n + 1 /\ r[n + 1] = w
        /\ \A k \in 1 .. n : r[k] = q[k]
        /\ q = << >> <=> n = 0
  <2>1. Append(q, w) \in Seq(LeavingRec) /\ Len(q) \in Nat /\ Len(Append(q, w)) = Len(q) + 1
    OBVIOUS
  <2>2. /\ Append(q, w)[Len(q) + 1] = w
        /\ \A k \in 1 .. Len(q) : Append(q, w)[k] = q[k]
        /\ q = << >> <=> Len(q) = 0
    OBVIOUS
  <2> QED
    BY <2>1, <2>2
<1>2. /\ \A k \in 1 .. n : \E m \in 1 .. Len(s) : IsPiece(q[k], s[m])
      /\ \A k \in 1 .. n - 1 : Continues(q[k], q[k + 1])
      /\ q # << >> => q[1].cells[0] = Cell(MaxIn + s[1][1], 0)
  BY <1>1 DEF InOrder
<1>3. \A k \in 1 .. n + 1 : \E m \in 1 .. Len(s) : IsPiece(r[k], s[m])
  <2>1. SUFFICES ASSUME NEW k \in 1 .. n + 1 PROVE \E m \in 1 .. Len(s) : IsPiece(r[k], s[m])
    OBVIOUS
  <2>2. k \in 1 .. n \/ k = n + 1
    OBVIOUS
  <2> QED
    BY <1>1, <1>2, <2>2
<1>4. \A k \in 1 .. n : Continues(r[k], r[k + 1])
  <2>1. SUFFICES ASSUME NEW k \in 1 .. n PROVE Continues(r[k], r[k + 1])
    OBVIOUS
  <2>2. r[k] = q[k]
    BY <1>1
  <2>3. CASE k = n
    <3>1. q # << >>
      BY <1>1, <2>3
    <3>2. Continues(q[n], w)
      BY <1>1, <3>1
    <3> QED
      BY <1>1, <2>2, <2>3, <3>2
  <2>4. CASE k # n
    <3>1. k \in 1 .. n - 1 /\ k + 1 \in 1 .. n
      BY <2>4
    <3>2. r[k + 1] = q[k + 1]
      BY <1>1, <3>1
    <3> QED
      BY <1>2, <2>2, <3>1, <3>2
  <2> QED
    BY <2>3, <2>4
<1>5. r[1].cells[0] = Cell(MaxIn + s[1][1], 0)
  <2>1. CASE n = 0
    BY <1>1, <2>1
  <2>2. CASE n # 0
    <3>1. 1 \in 1 .. n
      BY <2>2
    <3>2. r[1] = q[1] /\ q # << >>
      BY <1>1, <2>2, <3>1
    <3> QED
      BY <1>2, <3>2
  <2> QED
    BY <2>1, <2>2
<1>6. Len(r) - 1 = n
  BY <1>1
<1> QED
  BY <1>1, <1>3, <1>4, <1>5, <1>6 DEF InOrder

(* What the machine that reads is about to push. *)
Piece == Reading /\ (hw.sendLength = 0 \/ hw.count = Q - 1)

LEMMA PieceOf ==
  ASSUME TypeInv, TypeInv', AccessInv, AccessInv', TagInv, SendMailInv, OpenInv, SendsInv, BoxInv,
         PipeInv, Stream \in Seq(LeavingRec), LatestInv, CheckPkt, Piece
  PROVE  LET w == hw'.dinSend
         IN /\ w \in LeavingRec /\ w.cells[0] = Cell(LastId, Place - hw.count)
            /\ IsPiece(w, sends[Len(sends)])
            /\ w.mark = "tail" <=> hw.sendLength = 0
            /\ w.mark # "tail" => w.n = Q
            /\ hw.head => Place = hw.count
<1> DEFINE cells == [hw.dinSend.cells EXCEPT ![hw.count] = dout]
           w == hw'.dinSend
<1>1. /\ Q \in Nat /\ Q > 1 /\ MaxIn \in Nat /\ hw.count \in 0 .. Q - 1 /\ hw.sendLength \in Int
      /\ w \in LeavingRec /\ hw.head \in BOOLEAN
  BY BoxOk DEF TypeInv, HwRec
<1>2. ram[SendTag] = Number(1) /\ Reading
  BY DEF Piece, TagInv, Reading
<1>3. /\ MailLen \in Nat /\ sends # << >> /\ sends[Len(sends)][2] = MailLen
      /\ LastId = MaxIn + sends[Len(sends)][1]
  BY <1>2, SendLengthFits DEF SendMailInv, BoxInv, LastId
<1>4. /\ hw.sendLength >= 0 /\ Place >= hw.count
      /\ dout = Cell(LastId, Place)
      /\ \A u \in 0 .. hw.count - 1 : hw.dinSend.cells[u] = Cell(LastId, Place - hw.count + u)
  BY <1>2 DEF PipeInv
<1>5. PICK j \in Nat : j = Place /\ j = MailLen - 1 - hw.sendLength
  BY <1>1, <1>3, <1>4 DEF Place
<1>6. hw.head => j = hw.count /\ hw.sendLength # 0
  <2>1. PICK m \in 0 .. Len(sendFifo) : Open(m)
    BY DEF OpenInv
  <2>2. m \in Nat /\ Pending \in Nat
    BY DEF Pending
  <2>3. /\ hw.head <=> m + Pending = 0
        /\ (m + Pending) * Q + hw.count + hw.sendLength + 1 = MailLen
    BY <1>2, <2>1 DEF Open
  <2>4. hw.sendLength = 0 => ~hw.head
    BY <1>2, <2>1, <2>2, OpenFits
  <2>5. hw.head => hw.count + hw.sendLength + 1 = MailLen
    <3>1. SUFFICES ASSUME hw.head PROVE hw.count + hw.sendLength + 1 = MailLen
      OBVIOUS
    <3>2. m + Pending = 0
      BY <2>3, <3>1
    <3>3. 0 * Q = 0
      BY <1>1
    <3>4. 0 + hw.count + hw.sendLength + 1 = MailLen
      BY <2>3, <3>2, <3>3
    <3> QED
      BY <1>1, <3>4
  <2> QED
    BY <1>1, <1>3, <1>5, <2>4, <2>5
<1>7. ~hw.head => j - hw.count > 0
  <2>1. SUFFICES ASSUME ~hw.head PROVE j - hw.count > 0
    OBVIOUS
  <2>2. Stream # << >> /\ Latest.cells[0].val + Q + hw.count = Place
    BY <1>2, <2>1 DEF LatestInv
  <2>3. Latest.cells[0].val \in Nat
    <3>1. Latest \in LeavingRec
      BY <2>2 DEF Latest
    <3>2. Latest.cells \in [0 .. Q - 1 -> CellRec] /\ 0 \in 0 .. Q - 1
      BY <1>1, <3>1 DEF LeavingRec
    <3>3. Latest.cells[0] \in CellRec
      BY <3>2
    <3> QED
      BY <3>3 DEF CellRec
  <2> QED
    BY <1>1, <1>5, <2>2, <2>3
<1>8. \A u \in 0 .. hw.count : cells[u] = Cell(LastId, (j - hw.count) + u)
  <2>1. /\ \A u \in 0 .. hw.count - 1 : cells[u] = hw.dinSend.cells[u]
        /\ cells[hw.count] = dout
    BY CellsOf
  <2> HIDE DEF cells
  <2>2. SUFFICES ASSUME NEW u \in 0 .. hw.count
                 PROVE  cells[u] = Cell(LastId, (j - hw.count) + u)
    OBVIOUS
  <2>3. CASE u = hw.count
    <3>1. (j - hw.count) + u = j
      BY <1>1, <1>5, <2>3
    <3> QED
      BY <1>4, <1>5, <2>1, <2>3, <3>1
  <2>4. CASE u # hw.count
    <3>1. u \in 0 .. hw.count - 1
      BY <1>1, <2>4
    <3> QED
      BY <1>4, <1>5, <2>1, <3>1
  <2> QED
    BY <2>3, <2>4
<1>9. /\ hw.sendLength = 0 => w = Leaving("tail", hw.count + 1, cells)
      /\ hw.sendLength # 0 => /\ hw.count = Q - 1
                              /\ w = Leaving(IF hw.head THEN "head" ELSE "body", Q, cells)
  BY <1>2, HwReads DEF Piece
<1> HIDE DEF cells
<1>10. w.cells = cells /\ w.n = hw.count + 1
  BY <1>1, <1>9 DEF Leaving
<1>11. w.mark = IF hw.sendLength = 0 THEN "tail" ELSE IF hw.head THEN "head" ELSE "body"
  BY <1>9 DEF Leaving
<1> HIDE DEF w
<1>12. PICK k \in Nat : k = j - hw.count
  BY <1>1, <1>4, <1>5
<1>13. w.cells[0] = Cell(LastId, k)
  <2>1. 0 \in 0 .. hw.count /\ k + 0 = k
    BY <1>1, <1>12
  <2> QED
    BY <1>8, <1>10, <1>12, <2>1
<1>14. IsPiece(w, sends[Len(sends)])
  <2>1. w.cells[0].pkt = LastId /\ w.cells[0].val = k
    BY <1>13 DEF Cell
  <2>2. k < MailLen /\ MailLen - k = hw.sendLength + hw.count + 1
    <3>1. hw.sendLength >= 0 /\ hw.sendLength \in Int /\ hw.count \in Nat /\ MailLen \in Nat
      BY <1>1, <1>3, <1>4
    <3>2. k = j - hw.count /\ j = MailLen - 1 - hw.sendLength
      BY <1>5, <1>12
    <3> QED
      BY <3>1, <3>2
  <2>3. w.n = IF MailLen - k < Q THEN MailLen - k ELSE Q
    BY <1>1, <1>4, <1>9, <1>10, <2>2
  <2>4. \A u \in 0 .. w.n - 1 : w.cells[u] = Cell(LastId, k + u)
    <3>1. w.n - 1 = hw.count
      BY <1>1, <1>10
    <3> QED
      BY <1>8, <1>10, <1>12, <3>1
  <2>5. k = 0 <=> hw.head
    BY <1>1, <1>5, <1>6, <1>7, <1>12
  <2>6. k + w.n = MailLen <=> hw.sendLength = 0
    BY <1>1, <1>3, <1>10, <2>2
  <2>7. w.mark = IF k = 0 THEN "head" ELSE IF k + w.n = MailLen THEN "tail" ELSE "body"
    BY <1>6, <1>11, <2>5, <2>6
  <2> QED
    BY <1>3, <2>1, <2>2, <2>3, <2>4, <2>7 DEF IsPiece
<1>15. /\ w.mark = "tail" <=> hw.sendLength = 0
       /\ w.mark # "tail" => w.n = Q
       /\ hw.head => Place = hw.count
  BY <1>1, <1>5, <1>6, <1>9, <1>10, <1>11
<1> QED
  BY <1>1, <1>5, <1>12, <1>13, <1>14, <1>15 DEF w

(* What is owed grows with every packet that is fired, and is paid with the *)
(* last word of one.                                                        *)
LEMMA OwedStep ==
  ASSUME TypeInv, AccessInv, AccessInv', TagInv, SendMailInv, SendsInv, BoxInv,
         CheckPkt, NEW go \in BOOLEAN, Driver(go)
  PROVE  /\ Owed \in {0, 1}
         /\ \/ sends' = sends /\ LastId' = LastId
               /\ (~(Reading /\ hw.sendLength = 0) => Owed' = Owed)
            \/ /\ ~Reading /\ Owed = 0 /\ Owed' = 1
               /\ \E e \in Nat \X SendLengths : sends' = Append(sends, e)
               /\ Len(sends') = Len(sends) + 1
               /\ sends # << >> => LastId' = LastId + 1
         /\ Reading => sends' = sends /\ LastId' = LastId /\ Owed = 1
         /\ Reading /\ hw.sendLength = 0 => Owed' = 0
<1>1. Owed \in {0, 1} /\ sends \in Seq(Nat \X SendLengths) /\ made \in Nat /\ MaxIn \in Nat
  BY BoxOk DEF Owed, SendsInv, TypeInv
<1>2. Reading => sends' = sends /\ LastId' = LastId /\ ram[SendTag] = Number(1) /\ ~Clearing
  BY SendTagStep, BoxKept
<1>3. Owed' = IF ram'[SendTag] = Number(1) /\ ~Clearing' THEN 1 ELSE 0
  BY DEF Owed, SendTag, Number, Cell
<1>4. Reading /\ hw.sendLength = 0 => Owed' = 0
  <2>1. SUFFICES ASSUME Reading, hw.sendLength = 0 PROVE Owed' = 0
    OBVIOUS
  <2>2. hw'.wren /\ hw'.addr = SendTag
    BY <2>1, HwReads
  <2>3. Clearing'
    BY <2>2 DEF Clearing, SendTag
  <2> QED
    BY <1>3, <2>3
<1>5. CASE Fires
  <2>1. /\ pc = "fire" /\ pc' = "spin" /\ sends' = Append(sends, <<made, len>>) /\ made' = made
    BY <1>5 DEF Fires
  <2>2. ram[SendTag] # Number(1) /\ ~Clearing /\ ~Reading
    BY <2>1, SendTagStep
  <2>3. ram'[SendTag] = Number(1) /\ ~Clearing'
    BY <2>1, <2>2, SendTagStep
  <2>4. Owed = 0 /\ Owed' = 1
    BY <1>3, <2>2, <2>3 DEF Owed
  <2>5. PICK e \in Nat \X SendLengths : e = <<made, len>>
    BY <1>1, <2>1 DEF SendMailInv
  <2>6. Len(sends') = Len(sends) + 1 /\ sends'[Len(sends')] = e /\ e[1] = made
    BY <1>1, <2>1, <2>5
  <2>7. sends # << >> => LastId' = LastId + 1
    <3>1. SUFFICES ASSUME sends # << >> PROVE LastId' = LastId + 1
      OBVIOUS
    <3>2. sends[Len(sends)][1] = made - 1
      BY <2>1, <3>1 DEF SendsInv
    <3>3. LastId' = MaxIn + made
      BY <2>6 DEF LastId
    <3>4. LastId = MaxIn + (made - 1)
      BY <3>2 DEF LastId
    <3> QED
      BY <1>1, <3>3, <3>4
  <2> QED
    BY <1>1, <2>1, <2>2, <2>4, <2>5, <2>6, <2>7
<1>6. CASE ~Fires
  <2>1. sends' = sends
    BY <1>6, SendDriver DEF Stays, Begins, Fills
  <2>2. LastId' = LastId
    BY <2>1 DEF LastId
  <2>3. ~(pc = "fire" /\ pc' = "spin")
    BY <1>6, SendDriver DEF Stays, Begins, Fills
  <2>4. ~(Reading /\ hw.sendLength = 0) => Owed' = Owed
    <3>1. SUFFICES ASSUME ~(Reading /\ hw.sendLength = 0) PROVE Owed' = Owed
      OBVIOUS
    <3>2. ~Clearing'
      BY <3>1, SendTagStep
    <3>3. Clearing => ram'[SendTag] # Number(1)
      BY SendTagStep
    <3>4. ~Clearing => ram'[SendTag] = ram[SendTag]
      BY <2>3, SendTagStep
    <3> QED
      BY <1>3, <3>2, <3>3, <3>4 DEF Owed
  <2> QED
    BY <1>1, <1>2, <1>4, <2>1, <2>2, <2>4 DEF Owed
<1> QED
  BY <1>5, <1>6

(* A word that is pushed goes on where the stream ends. *)
LEMMA LatestStep ==
  ASSUME TypeInv, TypeInv', AccessInv, AccessInv', TagInv, SendTypeInv, SendMailInv, OpenInv,
         SendsInv, BoxInv, PipeInv, InOrder(Stream, sends), LatestInv,
         Stream \in Seq(LeavingRec),
         Stream' = IF hw'.wrenSend THEN Append(Stream, hw'.dinSend) ELSE Stream,
         CheckPkt, NEW go \in BOOLEAN, Driver(go)
  PROVE  InOrder(Stream', sends') /\ LatestInv'
<1>1. /\ Q \in Nat /\ Q > 1 /\ hw.count \in 0 .. Q - 1 /\ hw.sendLength \in Int
      /\ sends \in Seq(Nat \X SendLengths) /\ hw.head \in BOOLEAN
  BY BoxOk DEF TypeInv, HwRec, SendsInv
<1>2. Piece <=> hw'.wrenSend
  <2>0. hw.wrenSend => hw.state \in {"READ_SEND_PKT", "IDLE"}
    BY DEF OpenInv, Open
  <2>1. Piece => hw'.wrenSend
    <3>1. Reading => hw.state # "READ_SEND_LENGTH"
      BY DEF Reading
    <3> QED
      BY <2>0, <3>1, HwSends DEF Piece
  <2>2. hw'.wrenSend => Piece
    BY <2>0, HwSends DEF Piece
  <2> QED
    BY <2>1, <2>2
<1>3. Reading => sends' = sends /\ LastId' = LastId /\ Owed = 1 /\ MailLen' = MailLen
  <2>1. Reading => ram[SendTag] = Number(1)
    BY DEF TagInv, Reading
  <2> QED
    BY <2>1, OwedStep, BoxKept
<1>4. CASE Piece
  <2> DEFINE w == hw'.dinSend
  <2>1. /\ w \in LeavingRec /\ w.cells[0] = Cell(LastId, Place - hw.count)
        /\ IsPiece(w, sends[Len(sends)])
        /\ w.mark = "tail" <=> hw.sendLength = 0
        /\ w.mark # "tail" => w.n = Q
        /\ hw.head => Place = hw.count
    BY <1>4, PieceOf
  <2>2. Reading /\ hw'.wrenSend
    BY <1>2, <1>4 DEF Piece
  <2>3. Stream' = Append(Stream, w) /\ sends' = sends /\ LastId' = LastId /\ Owed = 1
    BY <1>3, <2>2
  <2>4. sends # << >> /\ Len(sends) \in 1 .. Len(sends)
    <3>1. sends # << >>
      BY <2>2 DEF BoxInv, TagInv, Reading
    <3> QED
      BY <1>1, <3>1
  <2> HIDE DEF w
  <2>5. hw.head => LatestInv /\ ~(Reading /\ ~hw.head) /\ Place - hw.count = 0
    BY <1>1, <2>1
  <2>6. Stream = << >> => w.cells[0] = Cell(MaxIn + sends[1][1], 0)
    <3>1. SUFFICES ASSUME Stream = << >> PROVE w.cells[0] = Cell(MaxIn + sends[1][1], 0)
      OBVIOUS
    <3>2. hw.head /\ Len(sends) = 1
      BY <2>2, <2>3, <3>1 DEF LatestInv
    <3>3. LastId = MaxIn + sends[1][1]
      BY <3>2 DEF LastId
    <3> QED
      BY <2>1, <2>5, <3>2, <3>3
  <2>7. Stream # << >> => Continues(Stream[Len(Stream)], w)
    <3>1. SUFFICES ASSUME Stream # << >> PROVE Continues(Latest, w)
      BY DEF Latest
    <3>2. CASE hw.head
      <4>1. Latest.mark = "tail" /\ Latest.cells[0].pkt + 1 = LastId
        BY <2>3, <3>1, <3>2 DEF LatestInv
      <4> QED
        BY <2>1, <2>5, <3>2, <4>1 DEF Continues
    <3>3. CASE ~hw.head
      <4>1. /\ Latest.mark # "tail" /\ Latest.n = Q /\ Latest.cells[0].pkt = LastId
            /\ Latest.cells[0].val + Q + hw.count = Place
        BY <2>2, <3>3 DEF LatestInv
      <4>2. Latest.cells[0].val \in Nat
        <5>1. Latest \in LeavingRec
          BY <3>1 DEF Latest
        <5>2. Latest.cells \in [0 .. Q - 1 -> CellRec] /\ 0 \in 0 .. Q - 1
          BY <1>1, <5>1 DEF LeavingRec
        <5>3. Latest.cells[0] \in CellRec
          BY <5>2
        <5> QED
          BY <5>3 DEF CellRec
      <4>3. Place - hw.count = Latest.cells[0].val + Latest.n
        BY <1>1, <4>1, <4>2
      <4> QED
        BY <2>1, <4>1, <4>3 DEF Continues
    <3> QED
      BY <3>2, <3>3
  <2>8. InOrder(Append(Stream, w), sends)
    BY <1>1, <2>1, <2>4, <2>6, <2>7, OrderAppends
  <2>9. Stream' # << >> /\ Latest' = w
    BY <2>1, <2>3 DEF Latest
  <2>10. w.cells[0].pkt = LastId /\ w.cells[0].val = Place - hw.count
    BY <2>1 DEF Cell
  <2>11. CASE hw.sendLength = 0
    <3>1. ~Reading' /\ Owed' = 0
      BY <1>4, <2>2, <2>11, HwSends, OwedStep DEF Reading, OpenInv, Open
    <3>2. LastId \in Nat
      <4>1. LastId \in Int
        BY <1>1, <2>4, BoxOk DEF LastId
      <4>2. w.cells \in [0 .. Q - 1 -> CellRec] /\ 0 \in 0 .. Q - 1
        BY <1>1, <2>1 DEF LeavingRec
      <4>3. w.cells[0] \in CellRec
        BY <4>2
      <4> QED
        BY <2>10, <4>3 DEF CellRec
    <3>3. Latest'.cells[0].pkt + Owed' = LastId'
      BY <2>3, <2>9, <2>10, <3>1, <3>2
    <3> QED
      BY <2>1, <2>3, <2>4, <2>8, <2>9, <2>11, <3>1, <3>3 DEF LatestInv
  <2>12. CASE hw.sendLength # 0
    <3>1. /\ hw.count = Q - 1 /\ ~hw'.head /\ hw'.count = 0 /\ hw'.sendLength = hw.sendLength - 1
          /\ hw'.state = "READ_SEND_PKT"
      BY <1>1, <1>4, <2>2, <2>12, HwSends DEF Piece, OpenInv, Open, Reading
    <3>2. Place' = Place + 1 /\ Place \in Int
      <4>1. MailLen' = MailLen /\ MailLen \in Nat
        BY <1>3, <2>2, SendLengthFits DEF SendMailInv, TagInv, Reading
      <4> QED
        BY <1>1, <3>1, <4>1 DEF Place
    <3>3. Latest'.cells[0].val + Q + hw'.count = Place'
      BY <1>1, <2>9, <2>10, <3>1, <3>2
    <3>4. Latest'.mark # "tail" /\ Latest'.n = Q /\ Latest'.cells[0].pkt = LastId'
      BY <2>1, <2>3, <2>9, <2>10, <2>12
    <3> QED
      BY <2>3, <2>8, <2>9, <3>1, <3>3, <3>4 DEF LatestInv, Reading
  <2> QED
    BY <2>11, <2>12
<1>5. CASE ~Piece
  <2>1. Stream' = Stream /\ Latest' = Latest
    BY <1>2, <1>5 DEF Latest
  <2>2. InOrder(Stream', sends')
    BY <1>1, <2>1, OwedStep, OrderKept
  <2>3. CASE Reading
    <3>1. /\ hw.sendLength # 0 /\ hw.count # Q - 1
      BY <1>5, <2>3 DEF Piece
    <3>2. /\ hw'.head = hw.head /\ hw'.count = hw.count + 1 /\ hw'.state = "READ_SEND_PKT"
          /\ hw'.sendLength = hw.sendLength - 1
      BY <1>1, <2>3, <3>1, HwSends DEF OpenInv, Open, Reading
    <3>3. Owed' = Owed /\ sends' = sends /\ LastId' = LastId
      BY <2>3, <3>1, OwedStep
    <3>4. CASE hw.head
      BY <2>1, <2>2, <3>2, <3>3, <3>4 DEF LatestInv
    <3>5. CASE ~hw.head
      <4>1. /\ Stream # << >> /\ Latest.mark # "tail" /\ Latest.n = Q
            /\ Latest.cells[0].pkt = LastId
            /\ Latest.cells[0].val + Q + hw.count = Place
        BY <2>3, <3>5 DEF LatestInv
      <4>2. Latest.cells[0].val \in Nat
        <5>1. Latest \in LeavingRec
          BY <4>1 DEF Latest
        <5>2. Latest.cells \in [0 .. Q - 1 -> CellRec] /\ 0 \in 0 .. Q - 1
          BY <1>1, <5>1 DEF LeavingRec
        <5>3. Latest.cells[0] \in CellRec
          BY <5>2
        <5> QED
          BY <5>3 DEF CellRec
      <4>3. Place' = Place + 1 /\ Place \in Int
        <5>1. MailLen' = MailLen /\ MailLen \in Nat
          BY <1>3, <2>3, SendLengthFits DEF SendMailInv, TagInv, Reading
        <5> QED
          BY <1>1, <3>2, <5>1 DEF Place
      <4>4. Latest.cells[0].val + Q + hw'.count = Place'
        <5> DEFINE v == Latest.cells[0].val
                   p == Place
        <5>1. v \in Nat /\ v + Q + hw.count = p /\ Place' = p + 1 /\ p \in Int
          BY <4>1, <4>2, <4>3
        <5> HIDE DEF v, p
        <5>2. Q \in Nat /\ hw.count \in Nat /\ hw'.count = hw.count + 1
          BY <1>1, <3>2
        <5>3. v + Q + hw'.count = Place'
          BY <5>1, <5>2
        <5> QED
          BY <5>3 DEF v
      <4> QED
        BY <2>1, <2>2, <3>2, <3>3, <3>5, <4>1, <4>4 DEF LatestInv, Reading
    <3> QED
      BY <3>4, <3>5
  <2>4. CASE ~Reading
    <3>1. ~(Reading' /\ ~hw'.head)
      BY <2>4, HwSends DEF OpenInv, Open, Reading
    <3>2. /\ Stream = << >> => Len(sends) = Owed
          /\ Stream # << >> =>
               sends # << >> /\ Latest.mark = "tail" /\ Latest.cells[0].pkt + Owed = LastId
      BY <2>4 DEF LatestInv
    <3>3. CASE sends' = sends /\ LastId' = LastId /\ Owed' = Owed
      BY <2>1, <2>2, <3>1, <3>2, <3>3 DEF LatestInv
    <3>4. CASE /\ Owed = 0 /\ Owed' = 1
               /\ \E e \in Nat \X SendLengths : sends' = Append(sends, e)
               /\ Len(sends') = Len(sends) + 1
               /\ sends # << >> => LastId' = LastId + 1
      <4>1. Stream = << >> => Len(sends') = Owed'
        BY <3>2, <3>4
      <4>2. ASSUME Stream # << >>
            PROVE  /\ sends' # << >> /\ Latest.mark = "tail"
                   /\ Latest.cells[0].pkt + Owed' = LastId'
        <5>1. Latest \in LeavingRec
          BY <4>2 DEF Latest
        <5>2. Latest.cells \in [0 .. Q - 1 -> CellRec] /\ 0 \in 0 .. Q - 1
          BY <1>1, <5>1 DEF LeavingRec
        <5>3. Latest.cells[0] \in CellRec
          BY <5>2
        <5>4. Latest.cells[0].pkt \in Nat
          BY <5>3 DEF CellRec
        <5>5. sends' # << >>
          BY <1>1, <3>4
        <5> QED
          BY <3>2, <3>4, <4>2, <5>4, <5>5
      <4> QED
        BY <2>1, <2>2, <3>1, <4>1, <4>2 DEF LatestInv
    <3> QED
      BY <2>4, <3>3, <3>4, OwedStep
  <2> QED
    BY <2>3, <2>4
<1> QED
  BY <1>4, <1>5

(* A restart leaves nothing of the stream, and of the packets fired the one *)
(* in the mailbox.                                                          *)
TStart ==
  /\ pc = "app" /\ sentWords = << >> /\ valid = FALSE /\ sendFifo = << >>
  /\ hw = HwReset
  /\ IF ram[SendTag] = Number(1)
     THEN /\ sends = <<sends[1]>> /\ sends[1] \in Nat \X SendLengths /\ sends[1][1] = made
          /\ sends[1][2] = MailLen /\ SendHolds(MaxIn + sends[1][1], MailLen)
     ELSE sends = << >>

LEMMA TInvStart == TStart => TInv
<1> SUFFICES ASSUME TStart
             PROVE  TInv
  OBVIOUS
<1>1. /\ pc = "app" /\ sentWords = << >> /\ valid = FALSE /\ sendFifo = << >>
      /\ hw.state = "IDLE" /\ hw.wren = FALSE /\ hw.wrenSend = FALSE
  BY DEF TStart, HwReset
<1>2. Stream = << >> /\ Stream \in Seq(LeavingRec) /\ Len(Stream) = 0
  BY <1>1 DEF Stream
<1>3. sends \in Seq(Nat \X SendLengths)
  <2>1. CASE ram[SendTag] = Number(1)
    <3>1. PICK e \in Nat \X SendLengths : e = sends[1]
      BY <2>1 DEF TStart
    <3>2. sends = <<e>>
      BY <2>1, <3>1 DEF TStart
    <3> QED
      BY <3>2
  <2>2. CASE ram[SendTag] # Number(1)
    BY <2>2 DEF TStart
  <2> QED
    BY <2>1, <2>2
<1>4. CASE ram[SendTag] = Number(1)
  <2>1. PICK e : e = sends[1]
    OBVIOUS
  <2>2. sends = <<e>> /\ e[1] = made /\ e[2] = MailLen /\ SendHolds(MaxIn + e[1], MailLen)
    BY <1>4, <2>1 DEF TStart
  <2>3. sends # << >> /\ Len(sends) = 1 /\ sends[Len(sends)] = e
    BY <2>2
  <2>4. SendsInv
    BY <1>1, <1>3, <2>2, <2>3 DEF SendsInv
  <2>5. BoxInv
    BY <1>1, <2>2, <2>3 DEF BoxInv, LastId, Clearing
  <2>6. PipeInv
    BY <1>1 DEF PipeInv, Reading
  <2>7. LatestInv
    BY <1>1, <1>2, <1>4, <2>3 DEF LatestInv, Reading, Owed, Clearing
  <2> QED
    BY <1>1, <1>2, <2>4, <2>5, <2>6, <2>7 DEF TInv, StreamType, InOrder
<1>5. CASE ram[SendTag] # Number(1)
  <2>1. sends = << >> /\ Len(sends) = 0
    BY <1>5 DEF TStart
  <2>2. SendsInv
    BY <1>3, <2>1 DEF SendsInv
  <2>3. BoxInv
    BY <1>1, <1>5 DEF BoxInv, Clearing
  <2>4. PipeInv
    BY <1>1 DEF PipeInv, Reading
  <2>5. LatestInv
    BY <1>1, <1>2, <1>5, <2>1 DEF LatestInv, Reading, Owed, Clearing
  <2> QED
    BY <1>1, <1>2, <2>2, <2>3, <2>4, <2>5 DEF TInv, StreamType, InOrder
<1> QED
  BY <1>4, <1>5

LEMMA TInvInit == Init => TInv
<1> SUFFICES ASSUME Init
             PROVE  TInv
  OBVIOUS
<1>1. ram[SendTag] # Number(1)
  BY Sizes DEF Init, SendTag, Number, Cell
<1>2. TStart
  BY <1>1 DEF Init, TStart
<1> QED
  BY <1>2, TInvStart

LEMMA TInvRestart ==
  ASSUME TInv, TypeInv, TagInv, SendMailInv, Restart
  PROVE  TInv'
<1>1. /\ pc' = "app" /\ sentWords' = << >> /\ valid' = FALSE /\ sendFifo' = << >>
      /\ hw' = HwReset /\ ram' = ram /\ made' = made
      /\ sends' = IF ram[SendTag] = Number(1) THEN <<Last(sends)>> ELSE << >>
  BY DEF Restart
<1>2. ASSUME ram[SendTag] = Number(1)
      PROVE  /\ sends' = <<sends'[1]>> /\ sends'[1] \in Nat \X SendLengths /\ sends'[1][1] = made
             /\ sends'[1][2] = MailLen /\ SendHolds(MaxIn + sends'[1][1], MailLen)
  <2>1. /\ sends \in Seq(Nat \X SendLengths) /\ sends # << >>
        /\ sends[Len(sends)][2] = MailLen /\ SendHolds(LastId, MailLen)
    BY <1>2 DEF TInv, SendsInv, BoxInv
  <2>2. pc \notin {"fill", "fire"}
    BY <1>2 DEF TagInv
  <2>3. sends[Len(sends)][1] = made
    BY <2>1, <2>2 DEF TInv, SendsInv
  <2>4. PICK e \in Nat \X SendLengths : e = sends[Len(sends)]
    BY <2>1
  <2>5. sends' = <<e>>
    BY <1>1, <1>2, <2>4 DEF Last
  <2>6. sends'[1] = e
    BY <2>5
  <2>7. LastId = MaxIn + e[1]
    BY <2>4 DEF LastId
  <2> QED
    BY <2>1, <2>3, <2>4, <2>5, <2>6, <2>7
<1>3. TStart'
  BY <1>1, <1>2 DEF TStart, MailLen, SendHolds, SendTag, SendLen, SendPkt, Number, Cell, HwReset, Leaving, NoWord, NoCells, Arriving
<1> QED
  BY <1>3, TInvStart, PTL

LEMMA TInvClock ==
  ASSUME MInv, MInv', SInv, SInv', TInv, NEW start \in BOOLEAN, NEW go \in BOOLEAN, Clock(start, go)
  PROVE  TInv'
<1>1. /\ CheckPkt /\ SendFifo /\ SendPacket /\ Driver(go)
      /\ TypeInv /\ TypeInv' /\ AccessInv /\ AccessInv' /\ TagInv
      /\ SendTypeInv /\ SendMailInv /\ SendMailInv' /\ OpenInv /\ CountInv /\ RoomInv
      /\ SendsInv /\ BoxInv /\ PipeInv /\ StreamType /\ InOrder(Stream, sends) /\ LatestInv
  BY DEF Clock, MInv, SInv, TInv
<1>2. hw.wrenSend => Len(sendFifo) < Cap
  BY <1>1, SendRoom
<1>3. /\ Stream \in Seq(LeavingRec) /\ StreamType'
      /\ Stream' = IF hw'.wrenSend THEN Append(Stream, hw'.dinSend) ELSE Stream
  BY <1>1, <1>2, StreamGrows
<1>4. SendsInv'
  BY <1>1, SendsStep
<1>5. BoxInv'
  BY <1>1, BoxStep
<1>6. PipeInv'
  BY <1>1, PipeStep
<1>7. InOrder(Stream', sends') /\ LatestInv'
  BY <1>1, <1>3, LatestStep
<1>8. InOrder(Stream, sends)'
  BY <1>7 DEF InOrder, IsPiece, Continues, Cell
<1> QED
  BY <1>3, <1>4, <1>5, <1>6, <1>7, <1>8 DEF TInv

(* The packet in the mailbox and the words on their way out are those that  *)
(* the driver has put in.                                                   *)
THEOREM PacketsLeaveInOrder == Spec => []TInv
<1>1. Init => TInv
  BY TInvInit
<1>2. MInv /\ MInv' /\ SInv /\ SInv' /\ TInv /\ [Next]_vars => TInv'
  <2> SUFFICES ASSUME MInv, MInv', SInv, SInv', TInv, [Next]_vars
               PROVE  TInv'
    OBVIOUS
  <2>1. CASE UNCHANGED vars
    <3>1. UNCHANGED <<hw, ram, ramQ, dout, sendFifo, valid, out, sentWords, pc, i, len, made, sends>>
      BY <2>1 DEF vars, memory, output, driver
    <3>2. SendsInv'
      BY <3>1 DEF TInv, SendsInv
    <3>3. LastId' = LastId /\ Clearing' = Clearing /\ Owed' = Owed /\ MailLen' = MailLen
          /\ Place' = Place /\ Reading' = Reading
      BY <3>1 DEF LastId, Clearing, Owed, MailLen, Place, Reading, SendTag, SendLen, Number, Cell
    <3>4. BoxInv'
      BY <3>1, <3>3 DEF TInv, BoxInv, SendHolds, SendTag, SendPkt, Number, Cell
    <3>5. PipeInv'
      BY <3>1, <3>3 DEF TInv, PipeInv, SendPkt, Cell
    <3>6. Stream' = Stream /\ StreamType'
      BY <3>1 DEF TInv, Stream, StreamType
    <3>7. Latest' = Latest
      BY <3>6 DEF Latest
    <3>8. LatestInv'
      BY <3>1, <3>3, <3>6, <3>7 DEF TInv, LatestInv
    <3>9. InOrder(Stream, sends)'
      BY <3>1, <3>6 DEF TInv, InOrder, IsPiece, Continues, Cell
    <3> QED
      BY <3>2, <3>4, <3>5, <3>6, <3>8, <3>9 DEF TInv
  <2>2. CASE Restart
    BY <2>2, TInvRestart DEF MInv, SInv
  <2>3. CASE \E start, go \in BOOLEAN : Clock(start, go)
    BY <2>3, TInvClock
  <2> QED
    BY <2>1, <2>2, <2>3 DEF Next
<1> QED
  BY <1>1, <1>2, Invariant, SendInvariant, PTL DEF Spec

(* Whatever is sent is what the driver has put into the mailbox before it   *)
(* set the tag, whole, once and in its order, a packet that a restart left  *)
(* there included (procPkt.v, tapdev_send, low_level_output).               *)
THEOREM PacketsAreSentIntact == Spec => []SentIntact
<1>1. MInv /\ SInv /\ TInv => SentIntact
  BY SentOfStream DEF MInv, SInv, TInv
<1> QED
  BY <1>1, Invariant, SendInvariant, PacketsLeaveInOrder, PTL
=============================================================================
