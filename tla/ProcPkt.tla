------------------------------ MODULE ProcPkt -------------------------------
(***************************************************************************)
(* procPkt.v, the network interface of timelyRV v1.0, and the two drivers  *)
(* (tapdev.c, riscvnetif.c) that share its dual-port RAM: each half of the *)
(* RAM is a mailbox of a tag, a length and a packet.  Packets wait in      *)
(* front of the RAM and behind it in FIFOs.  A step is one clock; the      *)
(* driver may spend any number of clocks between two accesses.             *)
(* conf_sel restarts all of it but the RAM.                                *)
(***************************************************************************)
EXTENDS Naturals, Sequences, SequencesExt

CONSTANTS
  Q,          (* RAM words in a packet word (4 in the hardware)               *)
  Half,       (* RAM words of a mailbox (512)                                 *)
  Cap,        (* packet words a FIFO holds (512)                              *)
  Thr,        (* a packet is taken while fewer words wait (400)               *)
  Gap,        (* clocks between the tail of a packet and the next head        *)
  Lengths,    (* lengths of packets that arrive, in RAM words                 *)
  SendLengths,(* lengths of packets software sends                            *)
  MaxIn,      (* bound: packets that arrive                                   *)
  MaxOut,     (* bound: packets that are sent, and one more for each restart  *)
  MaxRestarts (* bound: restarts                                              *)

WordsOf(n) == (n + Q - 1) \div Q

(* A packet has two words or more, leaves room in its mailbox and, with its *)
(* length word, in the FIFO above the threshold.  The length word takes a   *)
(* clock of its own after the tail.  What the FIFO holds above the          *)
(* threshold is also less than cnt_pkt, of eight bits, can count.           *)
ASSUME Sizes ==
  /\ Q \in Nat /\ Q > 1 /\ Half \in Nat /\ Half > 2 /\ Cap \in Nat /\ Thr \in Nat \ {0}
  /\ Gap \in Nat /\ Gap > 1 /\ MaxIn \in Nat /\ MaxOut \in Nat /\ MaxRestarts \in Nat
  /\ Cap < Thr + 255
  /\ \A n \in Lengths \cup SendLengths :
       n \in Nat /\ n > Q /\ WordsOf(n) * Q + 2 <= Half /\ Thr + WordsOf(n) <= Cap

VARIABLES
  pkt, left, idle,    (* the packet on data_in, its words left, clocks since  *)
  taken,              (* history: the packets for the driver since the start  *)
  din, wren, recvLength, (* din_pktRecv, wren_pktRecv, recv_length            *)
  recvFifo,           (* fifo_pktRecv                                         *)
  hw,                 (* the registers around state_checkPkt                  *)
  ram, ramQ, dout,    (* the RAM and the two registers of its hardware port   *)
  sendFifo,           (* fifo_pktSend                                         *)
  cntPkt, stateSend, rdenSend, valid, out,  (* the sending state machine      *)
  sentWords,          (* history: the words sent                              *)
  pc, i, len, buf,    (* the driver, its index, its length and its buffer     *)
  made, got, sends,   (* history: the packet it makes, those it has read and  *)
                      (* those it has sent since the start                    *)
  restarts            (* history: how often conf_sel has been set             *)

input  == <<pkt, left, idle, taken, din, wren, recvLength>>
memory == <<ram, ramQ, dout>>
output == <<sendFifo, cntPkt, stateSend, rdenSend, valid, out, sentWords>>
driver == <<pc, i, len, buf, made, got, sends>>
vars   == <<input, recvFifo, hw, memory, output, driver, restarts>>

(* A RAM word: a number (pkt 0) or word val of packet pkt. *)
Cell(p, v)  == [pkt |-> p, val |-> v]
Number(v)   == Cell(0, v)

(* Word k of packet p that arrives; n of its RAM words count. *)
Arriving(p, k, mark, n) == [pkt |-> p, idx |-> k, mark |-> mark, n |-> n]
NoWord == Arriving(0, 0, "none", 0)

(* A word that leaves: its RAM words and how many of them count. *)
Leaving(mark, n, cells) == [mark |-> mark, n |-> n, cells |-> cells]
NoCells == [k \in 0 .. Q - 1 |-> Number(0)]

RecvTag == 0
RecvLen == 1
RecvPkt == 2
SendTag == Half
SendLen == Half + 1
SendPkt == Half + 2
-----------------------------------------------------------------------------
HwReset == [state |-> "IDLE", addr |-> 0, wren |-> FALSE, din |-> Number(0),
            rden |-> FALSE, count |-> 0, temp |-> NoWord, sendLength |-> 0,
            head |-> FALSE, dinSend |-> Leaving("tail", 0, NoCells), wrenSend |-> FALSE]

Init ==
  /\ din = NoWord /\ wren = FALSE /\ recvLength = 0 /\ recvFifo = << >>
  /\ hw = HwReset
  /\ sendFifo = << >> /\ cntPkt = 0 /\ stateSend = "IDLE" /\ rdenSend = FALSE
  /\ valid = FALSE /\ out = Leaving("none", 0, NoCells) /\ sentWords = << >>
  /\ pc = "app" /\ i = 0 /\ len = 0 /\ buf = << >> /\ got = << >>
  /\ pkt = [id |-> 0, len |-> 0, mine |-> FALSE] /\ left = 0 /\ idle = Gap
  /\ taken = << >> /\ sends = << >> /\ made = 0 /\ restarts = 0
  /\ ram = [a \in 0 .. 2 * Half - 1 |-> Number(0)]
  /\ ramQ = Number(0) /\ dout = Number(0)

-----------------------------------------------------------------------------
(* data_in: a packet without a pause, its first and last words marked. *)
DataValid == left > 0

DataIn ==
  LET k == WordsOf(pkt.len) - left
  IN  IF ~DataValid THEN NoWord
      ELSE Arriving(pkt.id, k,
                    IF k = 0 THEN "head" ELSE IF left = 1 THEN "tail" ELSE "body",
                    IF left = 1 THEN pkt.len - k * Q ELSE Q)

(* mine: no configuration packet and, with FILT_PKT_WITH_MAC, for this MAC. *)
Line(start) ==
  IF DataValid
  THEN left' = left - 1 /\ idle' = 0 /\ ~start /\ UNCHANGED pkt
  ELSE \/ ~start /\ idle' = (IF idle < Gap THEN idle + 1 ELSE idle) /\ UNCHANGED <<pkt, left>>
       \/ /\ start /\ idle + 1 >= Gap /\ pkt.id < MaxIn
          /\ \E n \in Lengths, mine \in BOOLEAN :
               pkt' = [id |-> pkt.id + 1, len |-> n, mine |-> mine] /\ left' = WordsOf(n)
          /\ UNCHANGED idle

(* Variant: a word more may wait. *)
TakesHeadLate == DataIn.mark = "head" /\ pkt.mine /\ Len(recvFifo) <= Thr

(* A head is taken if there is room for its packet. *)
TakesHead == DataIn.mark = "head" /\ pkt.mine /\ Len(recvFifo) < Thr

(* Variant: the length goes on from the packet before. *)
ReceiveKeepsLength ==
  LET complete == ~TakesHead /\ wren /\ din.mark = "tail"
  IN  /\ taken' = IF TakesHead THEN Append(taken, <<pkt.id, pkt.len>>) ELSE taken
      /\ wren' = (TakesHead \/ complete \/ (wren /\ DataValid))
      /\ din' = IF complete THEN Arriving(0, 0, "length", recvLength + din.n) ELSE DataIn
      /\ recvLength' = IF wren THEN recvLength + Q ELSE recvLength

(* recv pkt: a packet that is taken is followed by a word with its length.  *)
Receive ==
  LET complete == ~TakesHead /\ wren /\ din.mark = "tail"
  IN  /\ taken' = IF TakesHead THEN Append(taken, <<pkt.id, pkt.len>>) ELSE taken
      /\ wren' = (TakesHead \/ complete \/ (wren /\ DataValid))
      /\ din' = IF complete THEN Arriving(0, 0, "length", recvLength + din.n) ELSE DataIn
      /\ recvLength' = IF TakesHead THEN 0 ELSE IF wren THEN recvLength + Q ELSE recvLength

(* A FIFO that shows its first word; written when full, it drops. *)
FifoAfter(fifo, push, word, pop) ==
  LET popped == IF pop /\ fifo # << >> THEN Tail(fifo) ELSE fifo
  IN  IF push /\ Len(fifo) < Cap THEN Append(popped, word) ELSE popped

ReceiveFifo == recvFifo' = FifoAfter(recvFifo, wren, din, hw.rden)
Shown       == IF recvFifo = << >> THEN NoWord ELSE Head(recvFifo)
-----------------------------------------------------------------------------
(* state_checkPkt.  The RAM answers two clocks after its address. *)
NextAddr == (hw.addr + 1) % (2 * Half)
UnitOf(word, k) == Cell(word.pkt, word.idx * Q + k)

(* Variant: the receive mailbox is looked at without a packet, too. *)
IdleAlwaysRecv ==
  /\ hw.state = "IDLE"
  /\ hw' = [hw EXCEPT !.wren = FALSE, !.wrenSend = FALSE, !.state = "WAIT_1",
                      !.addr = RecvTag]

Idle ==
  /\ hw.state = "IDLE"
  /\ hw' = [hw EXCEPT !.wren = FALSE, !.wrenSend = FALSE, !.state = "WAIT_1",
                      !.addr = IF recvFifo # << >> THEN RecvTag ELSE SendTag]

(* Variant: one clock for the RAM. *)
WaitOneClock ==
  /\ hw.state = "WAIT_1"
  /\ hw' = [hw EXCEPT !.addr = NextAddr,
                      !.state = IF hw.addr < Half THEN "CHECK_RECV" ELSE "CHECK_SEND"]

Wait ==
  \/ /\ hw.state = "WAIT_1"
     /\ hw' = [hw EXCEPT !.addr = NextAddr, !.state = "WAIT_2"]
  \/ /\ hw.state = "WAIT_2"
     /\ hw' = [hw EXCEPT !.addr = NextAddr,
                         !.state = IF hw.addr < Half THEN "CHECK_RECV" ELSE "CHECK_SEND"]

(* Variant: while the mailbox is busy, it is looked at again. *)
CheckRecvAgain ==
  /\ hw.state = "CHECK_RECV"
  /\ hw' = IF dout.val % 2 = 0
           THEN [hw EXCEPT !.rden = TRUE, !.count = 0, !.addr = RecvLen,
                           !.state = "WRITE_RECV_PKT"]
           ELSE [hw EXCEPT !.state = "IDLE"]

(* The receive mailbox is free unless bit 24, the lowest of the tag, is set. *)
CheckRecv ==
  /\ hw.state = "CHECK_RECV"
  /\ hw' = IF dout.val % 2 = 0
           THEN [hw EXCEPT !.rden = TRUE, !.count = 0, !.addr = RecvLen,
                           !.state = "WRITE_RECV_PKT"]
           ELSE [hw EXCEPT !.addr = SendTag, !.state = "WAIT_1"]

WriteRecvPkt ==
  LET last == hw.count = Q - 1
  IN  /\ hw.state = "WRITE_RECV_PKT"
      /\ hw' = [hw EXCEPT !.rden = last, !.wren = TRUE, !.addr = NextAddr,
                 !.count = (hw.count + 1) % Q,
                 !.din = UnitOf(IF hw.count = 0 THEN Shown ELSE hw.temp, hw.count),
                 !.temp = IF hw.rden THEN Shown ELSE hw.temp,
                 !.state = IF last /\ hw.temp.mark = "tail" THEN "WRITE_RECV_LENGTH"
                           ELSE "WRITE_RECV_PKT"]

WriteRecvLength ==
  /\ hw.state = "WRITE_RECV_LENGTH"
  /\ hw' = [hw EXCEPT !.rden = FALSE, !.wren = TRUE, !.addr = RecvLen,
                      !.din = Number(Shown.n), !.state = "WRITE_RECV_TAG"]

WriteRecvTag ==
  /\ hw.state = "WRITE_RECV_TAG"
  /\ hw' = [hw EXCEPT !.wren = TRUE, !.addr = RecvTag, !.din = Number(1), !.state = "IDLE"]

CheckSend ==
  /\ hw.state = "CHECK_SEND"
  /\ hw' = [hw EXCEPT !.addr = NextAddr,
                      !.state = IF dout.val % 2 = 1 THEN "READ_SEND_LENGTH" ELSE "IDLE"]

ReadSendLength ==
  /\ hw.state = "READ_SEND_LENGTH"
  /\ hw' = [hw EXCEPT !.addr = NextAddr, !.count = 0, !.head = TRUE,
                      !.sendLength = dout.val - 1, !.state = "READ_SEND_PKT"]

(* Variant: the last word but one ends the packet. *)
ReadSendPktShort ==
  LET cells == [hw.dinSend.cells EXCEPT ![hw.count] = dout]
      base  == [hw EXCEPT !.wrenSend = FALSE, !.addr = NextAddr,
                 !.count = (hw.count + 1) % Q, !.sendLength = hw.sendLength - 1,
                 !.dinSend.cells = cells]
  IN  /\ hw.state = "READ_SEND_PKT"
      /\ hw' = IF hw.sendLength <= 1
               THEN [base EXCEPT !.wrenSend = TRUE, !.sendLength = 0,
                       !.dinSend = Leaving("tail", hw.count + 1, cells),
                       !.wren = TRUE, !.din = Number(0), !.addr = SendTag, !.state = "IDLE"]
               ELSE IF hw.count = Q - 1
               THEN [base EXCEPT !.wrenSend = TRUE, !.head = FALSE,
                       !.dinSend = Leaving(IF hw.head THEN "head" ELSE "body", Q, cells)]
               ELSE base

(* The tag is cleared when the last word is read. *)
ReadSendPkt ==
  LET cells == [hw.dinSend.cells EXCEPT ![hw.count] = dout]
      base  == [hw EXCEPT !.wrenSend = FALSE, !.addr = NextAddr,
                 !.count = (hw.count + 1) % Q, !.sendLength = hw.sendLength - 1,
                 !.dinSend.cells = cells]
  IN  /\ hw.state = "READ_SEND_PKT"
      /\ hw' = IF hw.sendLength = 0
               THEN [base EXCEPT !.wrenSend = TRUE, !.sendLength = 0,
                       !.dinSend = Leaving("tail", hw.count + 1, cells),
                       !.wren = TRUE, !.din = Number(0), !.addr = SendTag, !.state = "IDLE"]
               ELSE IF hw.count = Q - 1
               THEN [base EXCEPT !.wrenSend = TRUE, !.head = FALSE,
                       !.dinSend = Leaving(IF hw.head THEN "head" ELSE "body", Q, cells)]
               ELSE base

CheckPkt ==
  \/ Idle \/ Wait
  \/ CheckRecv \/ WriteRecvPkt \/ WriteRecvLength \/ WriteRecvTag
  \/ CheckSend \/ ReadSendLength \/ ReadSendPkt
-----------------------------------------------------------------------------
SendFifo == sendFifo' = FifoAfter(sendFifo, hw.wrenSend, hw.dinSend, rdenSend)

(* Variant: down with every word that leaves. *)
CountPacketsEveryWord ==
  LET up   == hw.wrenSend /\ hw.dinSend.mark = "tail"
      down == valid
  IN  cntPkt' = IF up /\ ~down THEN (cntPkt + 1) % 256
                ELSE IF down /\ ~up THEN (cntPkt + 255) % 256
                ELSE cntPkt

(* cnt_pkt: up with a tail that is written, down with a head that has left. *)
CountPackets ==
  LET up   == hw.wrenSend /\ hw.dinSend.mark = "tail"
      down == valid /\ out.mark = "head"
  IN  cntPkt' = IF up /\ ~down THEN (cntPkt + 1) % 256
                ELSE IF down /\ ~up THEN (cntPkt + 255) % 256
                ELSE cntPkt

(* send pkt: a packet leaves without a pause. *)
SendPacket ==
  LET shown == IF sendFifo = << >> THEN Leaving("none", 0, NoCells) ELSE Head(sendFifo)
  IN  /\ sentWords' = IF valid THEN Append(sentWords, out) ELSE sentWords
      /\ \/ /\ stateSend = "IDLE"
            /\ valid' = FALSE /\ UNCHANGED out
            /\ IF cntPkt # 0 THEN rdenSend' = TRUE /\ stateSend' = "WAIT_TAIL"
                             ELSE UNCHANGED <<rdenSend, stateSend>>
         \/ /\ stateSend = "WAIT_TAIL"
            /\ valid' = TRUE /\ out' = shown
            /\ IF shown.mark = "tail" THEN rdenSend' = FALSE /\ stateSend' = "IDLE"
                                      ELSE UNCHANGED <<rdenSend, stateSend>>
-----------------------------------------------------------------------------
(* The driver's access of this clock reads cell a.  A cell that the other   *)
(* port writes on the same edge may show its old or its new value.          *)
SeesAt(a) == {ram[a]} \cup (IF hw.wren /\ hw.addr = a THEN {hw.din} ELSE {})

(* Both ports of the RAM; writes is the driver's write, a set of at most    *)
(* one <<address, cell>>.                                                   *)
Memory(writes) ==
  /\ ram' = [a \in DOMAIN ram |->
               IF hw.wren /\ hw.addr = a THEN hw.din
               ELSE IF \E w \in writes : w[1] = a THEN (CHOOSE w \in writes : TRUE)[2]
               ELSE ram[a]]
  /\ ramQ' \in {ram[hw.addr]} \cup {w[2] : w \in {v \in writes : v[1] = hw.addr}}
  /\ dout' = ramQ

(* tapdev_read, ethernetif_input and low_level_input: the tag, the length,  *)
(* the packet, then the tag is given back.  lwIP leaves the packet out when *)
(* it has no buffer for it.                                                 *)
Read ==
  \/ /\ pc = "app" /\ \E v \in SeesAt(RecvTag) : pc' = IF v = Number(1) THEN "len" ELSE "app"
     /\ Memory({}) /\ UNCHANGED <<i, len, buf, made, got, sends>>
  \/ /\ pc = "len" /\ \E v \in SeesAt(RecvLen) : len' = v.val
     /\ i' = 0 /\ buf' = << >> /\ pc' \in {"copy", "release"}
     /\ Memory({}) /\ UNCHANGED <<made, got, sends>>
  \/ /\ pc = "copy" /\ \E v \in SeesAt(RecvPkt + i) : buf' = Append(buf, v)
     /\ i' = i + 1 /\ pc' = IF i + 1 = len THEN "release" ELSE "copy"
     /\ Memory({}) /\ UNCHANGED <<len, made, got, sends>>
  \/ /\ pc = "release" /\ Memory({<<RecvTag, Number(2)>>})
     /\ got' = Append(got, buf) /\ buf' = << >> /\ pc' = "app"
     /\ UNCHANGED <<i, len, made, sends>>

(* tapdev_send and low_level_output: the length, the packet, the tag, then  *)
(* wait until the tag is cleared.  Its first access does not look at the    *)
(* tag; that it is clear after a restart, too, is a matter of time: the     *)
(* program's start takes longer than hardware with the packet of before.    *)
Send ==
  \/ /\ pc = "app" /\ made < MaxOut + restarts /\ ram[SendTag] # Number(1)
     /\ \E n \in SendLengths : len' = n /\ Memory({<<SendLen, Number(n)>>})
     /\ made' = made + 1
     /\ i' = 0 /\ pc' = "fill" /\ UNCHANGED <<buf, got, sends>>
  \/ /\ pc = "fill" /\ Memory({<<SendPkt + i, Cell(MaxIn + made, i)>>})
     /\ i' = i + 1 /\ pc' = IF i + 1 = len THEN "fire" ELSE "fill"
     /\ UNCHANGED <<len, buf, made, got, sends>>
  \/ /\ pc = "fire" /\ Memory({<<SendTag, Number(1)>>})
     /\ sends' = Append(sends, <<made, len>>) /\ pc' = "spin"
     /\ UNCHANGED <<i, len, buf, made, got>>
  \/ /\ pc = "spin" /\ \E v \in SeesAt(SendTag) : pc' = IF v = Number(1) THEN "spin" ELSE "app"
     /\ Memory({}) /\ UNCHANGED <<i, len, buf, made, got, sends>>

(* go: the driver makes an access in this clock. *)
Driver(go) == IF go THEN Read \/ Send ELSE Memory({}) /\ UNCHANGED driver

Clock(start, go) ==
  /\ Line(start)
  /\ Receive
  /\ ReceiveFifo
  /\ CheckPkt
  /\ SendFifo
  /\ CountPackets
  /\ SendPacket
  /\ Driver(go)
  /\ UNCHANGED restarts

(* conf_sel is set, by a packet, and after a while cleared: registers,      *)
(* FIFOs and program start anew, the RAM keeps what it holds.  A packet     *)
(* whose tag is set is the next one that the new program reads, or the      *)
(* first that leaves.                                                       *)
Restart ==
  /\ restarts < MaxRestarts /\ restarts' = restarts + 1
  /\ din' = NoWord /\ wren' = FALSE /\ recvLength' = 0 /\ recvFifo' = << >>
  /\ hw' = HwReset
  /\ sendFifo' = << >> /\ cntPkt' = 0 /\ stateSend' = "IDLE" /\ rdenSend' = FALSE
  /\ valid' = FALSE /\ out' = Leaving("none", 0, NoCells) /\ sentWords' = << >>
  /\ pc' = "app" /\ i' = 0 /\ len' = 0 /\ buf' = << >> /\ got' = << >>
  /\ taken' = IF ram[RecvTag] = Number(1) THEN <<taken[Len(got) + 1]>> ELSE << >>
  /\ sends' = IF ram[SendTag] = Number(1) THEN <<Last(sends)>> ELSE << >>
  /\ ramQ' = ram[RecvTag] /\ dout' = ram[RecvTag]
  /\ idle' = IF left = 0 THEN Gap ELSE idle
  /\ UNCHANGED <<pkt, left, ram, made>>

Next == Restart \/ \E start, go \in BOOLEAN : Clock(start, go)
Spec == Init /\ [][Next]_vars

(* The clock runs, the driver goes on and polls for ever. *)
FairSpec ==
  /\ Spec
  /\ WF_vars(\E start, go \in BOOLEAN : Clock(start, go))
  /\ WF_vars(\E start, go \in BOOLEAN : Clock(start, go) /\ driver' # driver)
-----------------------------------------------------------------------------
HwStates == {"IDLE", "WAIT_1", "WAIT_2", "CHECK_RECV", "WRITE_RECV_PKT", "WRITE_RECV_LENGTH",
             "WRITE_RECV_TAG", "CHECK_SEND", "READ_SEND_LENGTH", "READ_SEND_PKT"}

TypeOK ==
  /\ hw.state \in HwStates /\ hw.addr \in DOMAIN ram /\ hw.count \in 0 .. Q - 1
  /\ hw.sendLength \in 0 .. Half /\ recvLength \in 0 .. Half + Q
  /\ \A a \in DOMAIN ram : ram[a].pkt \in 0 .. MaxIn + MaxOut + MaxRestarts /\ ram[a].val \in 0 .. Half
  /\ ram[RecvTag] \in {Number(v) : v \in 0 .. 2}
  /\ ram[SendTag] \in {Number(v) : v \in 0 .. 1}
  /\ cntPkt \in 0 .. Cap /\ Len(sendFifo) <= Cap
  /\ pc \in {"app", "len", "copy", "release", "fill", "fire", "spin"}

(* The packets the driver has read are the packets that were taken, in      *)
(* their order, each once, with all their words and their length; one that  *)
(* lwIP had no buffer for is empty and disturbs no other.  Whenever the     *)
(* program is restarted, what it finds in the mailbox is whole.             *)
ReceivedIntact ==
  /\ Len(got) <= Len(taken)
  /\ \A k \in 1 .. Len(got) :
       got[k] # << >> => got[k] = [j \in 1 .. taken[k][2] |-> Cell(taken[k][1], j - 1)]

(* Word w is a piece of the packet s that software has fired: the RAM words *)
(* from one place on, as many as fit or are left, marked at both ends.      *)
IsPiece(w, s) ==
  LET p == w.cells[0].pkt
      k == w.cells[0].val
  IN  /\ p = MaxIn + s[1] /\ k < s[2]
      /\ w.n = IF s[2] - k < Q THEN s[2] - k ELSE Q
      /\ \A u \in 0 .. w.n - 1 : w.cells[u] = Cell(p, k + u)
      /\ w.mark = IF k = 0 THEN "head" ELSE IF k + w.n = s[2] THEN "tail" ELSE "body"

(* Word w goes on where v ends: in its packet, or with the next one. *)
Continues(v, w) ==
  w.cells[0] = IF v.mark = "tail" THEN Cell(v.cells[0].pkt + 1, 0)
               ELSE Cell(v.cells[0].pkt, v.cells[0].val + v.n)

InOrder(words, fired) ==
  /\ \A k \in 1 .. Len(words) : \E m \in 1 .. Len(fired) : IsPiece(words[k], fired[m])
  /\ \A k \in 1 .. Len(words) - 1 : Continues(words[k], words[k + 1])
  /\ words # << >> => words[1].cells[0] = Cell(MaxIn + fired[1][1], 0)

(* What leaves is what the driver has put into the mailbox before it set    *)
(* the tag: no word of it missing, doubled or of another packet.  After a   *)
(* restart a packet that was not taken yet is sent, from its first word.    *)
SentIntact == InOrder(sentWords, sends)

(* Neither side writes into a mailbox that belongs to the other: hardware   *)
(* puts nothing where the driver reads, the driver fills nothing while      *)
(* hardware may read, and they never write the same word.                   *)
MailboxOwned ==
  /\ pc \in {"len", "copy", "release"} => ~(hw.wren /\ hw.addr < Half)
  /\ pc \in {"fill", "fire"} => hw.state \notin {"READ_SEND_LENGTH", "READ_SEND_PKT"}

(* The copy into the RAM, which starts before the packet is complete, takes *)
(* a word only when there is one, and fifo_pktRecv, whose full is not       *)
(* connected, has room for every word of a packet that the threshold let    *)
(* in, and for its length.                                                  *)
ReceiveFifoSound ==
  /\ hw.rden => recvFifo # << >>
  /\ wren => Len(recvFifo) < Cap

(* And so does the sending machine, which looks at its count of packets and *)
(* never at empty.                                                          *)
FifosSound == ReceiveFifoSound /\ (rdenSend => sendFifo # << >>)

(* The last word that has left ends the packet that was fired last. *)
AllSent ==
  sends # << >> => /\ sentWords # << >> /\ Last(sentWords).mark = "tail"
                   /\ Last(sentWords).cells[0].pkt = MaxIn + Last(sends)[1]

(* Driver and hardware never wait for each other: every packet taken        *)
(* reaches the driver, which gives the mailbox back; the driver, which      *)
(* waits for the tag with nothing else to do, goes on, and the packet       *)
(* leaves, whatever mailboxes a restart left behind.                        *)
NobodyWaitsForEver ==
  <>[](pc = "app" /\ Len(got) = Len(taken) /\ AllSent)
=============================================================================
