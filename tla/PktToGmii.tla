----------------------------- MODULE PktToGmii -----------------------------
(***************************************************************************)
(* How a packet leaves: pkt_134b_to_gmii.v divides words into bytes behind *)
(* a preamble, gmii_crc_calc.v appends the CRC.  A step is one clock of    *)
(* the 125 MHz domain.  Bytes are bytes here and the CRC is computed, by   *)
(* the equations of the code and, in the properties, as IEEE 802.3 defines *)
(* it.                                                                     *)
(***************************************************************************)
EXTENDS Naturals, Sequences, FiniteSetsExt, SequencesExt

CONSTANTS
  W,          (* bytes of a word (16)                                         *)
  Cap,        (* words the FIFO holds (512)                                   *)
  Payloads,   (* what packets carry: sequences of bytes                       *)
  Burst,      (* clocks of work that may wait when a packet comes             *)
  MaxPackets  (* packets that come: a bound of the model                      *)

Pre  == 8     (* bytes of a preamble with its 0xd5                            *)
Wait == 12    (* clocks of WAIT_S                                             *)
Ifg  == 10    (* clocks between two frames on the wire                        *)

(* A byte is the set of its bits that are one. *)
Byte == SUBSET (0 .. 7)
X55  == {0, 2, 4, 6}
XD5  == {0, 2, 4, 6, 7}

WordsOf(bytes) == (Len(bytes) + W - 1) \div W

(* Clocks from taking a packet until the next one can be taken. *)
Service(bytes) == 1 + Pre + Len(bytes) + 1 + Wait

(* Words that may wait in the FIFO when a packet comes. *)
Waiting == IF Burst <= Wait THEN 0 ELSE (Burst - Wait - 1) \div W + 1

(* A word takes no longer to come and go than what a packet costs beside    *)
(* its bytes, and a packet fits the FIFO behind what waits.                 *)
ASSUME Sizes ==
  /\ W \in 2 .. Pre + Wait + 3 /\ Cap \in Nat /\ Burst \in Nat /\ MaxPackets \in Nat
  /\ \A bytes \in Payloads :
       /\ bytes \in Seq(Byte) /\ Len(bytes) > W
       /\ WordsOf(bytes) + Waiting <= Cap

VARIABLES
  packet, pos, due,   (* the packet on pkt_data, its word, clocks of work that
                         wait                                                 *)
  sent,               (* history: the packets that came                       *)
  fifo,               (* fifo_pkt                                             *)
  div,                (* the registers around state_div                       *)
  data, valid,        (* gmii_data and gmii_data_valid                        *)
  crc,                (* the registers around ctrl_state                      *)
  quiet, wire, remainder (* history: clocks since the last byte, the frames
                         that left, the CRC register of what receives them    *)

source == <<packet, pos, due, sent>>
output == <<crc, quiet, wire, remainder>>
vars   == <<source, fifo, div, data, valid, output>>
-----------------------------------------------------------------------------
(* Word k of a packet: its mark, how many bytes follow its first one, and   *)
(* its bytes, zeros behind the last one.                                    *)
Word(bytes, k) ==
  [mark  |-> IF k = 1 THEN "head" ELSE IF k = WordsOf(bytes) THEN "tail" ELSE "body",
   valid |-> IF k < WordsOf(bytes) THEN W - 1 ELSE Len(bytes) - (k - 1) * W - 1,
   bytes |-> [i \in 0 .. W - 1 |->
                IF (k - 1) * W + i < Len(bytes) THEN bytes[(k - 1) * W + i + 1] ELSE {}]]

NoWord == [mark |-> "none", valid |-> 0, bytes |-> [i \in 0 .. W - 1 |-> {}]]

Init ==
  /\ packet = << >> /\ pos = 0 /\ due = 0 /\ sent = << >>
  /\ fifo = << >>
  /\ div = [state |-> "IDLE", rden |-> FALSE, word |-> NoWord, cntValid |-> 0,
            cntGmii |-> 0, cntHead |-> 0, cntWait |-> 0]
  /\ data = {} /\ valid = FALSE
  /\ crc = [state |-> "IDLE", dv |-> FALSE, cnt |-> 0, next |-> 0 .. 31,
            en |-> FALSE, data |-> {}]
  /\ quiet = Ifg /\ wire = << >> /\ remainder = 0 .. 31

PktValid == pos \in 1 .. WordsOf(packet)

(* A packet comes without a pause.  The FIFO has no full line: all that     *)
(* protects it is that packets come no faster, but for a burst, than they   *)
(* leave.                                                                   *)
Source(start) ==
  IF start
  THEN /\ due <= Burst /\ Len(sent) < MaxPackets
       /\ ~PktValid \/ pos = WordsOf(packet)
       /\ \E bytes \in Payloads :
            /\ packet' = bytes /\ pos' = 1 /\ sent' = Append(sent, bytes)
            /\ due' = due + Service(bytes)
  ELSE /\ pos' = IF PktValid THEN pos + 1 ELSE pos
       /\ due' = IF due > 0 THEN due - 1 ELSE 0
       /\ UNCHANGED <<packet, sent>>

(* The FIFO shows its first word; written when full, it drops. *)
Fifo ==
  LET popped == IF div.rden /\ fifo # << >> THEN Tail(fifo) ELSE fifo
  IN  fifo' = IF PktValid /\ Len(fifo) < Cap THEN Append(popped, Word(packet, pos)) ELSE popped

Dout == IF fifo = << >> THEN NoWord ELSE Head(fifo)
-----------------------------------------------------------------------------
(* state_div. *)
Idle ==
  /\ div.state = "IDLE"
  /\ div' = [div EXCEPT !.cntGmii = (@ + 1) % W, !.rden = FALSE,
               !.cntHead = IF fifo # << >> THEN 0 ELSE @,
               !.state = IF fifo # << >> THEN "PAD_PKT_TAG" ELSE "IDLE"]
  /\ UNCHANGED <<data, valid>>

(* Variant: the counter has a fourth bit. *)
PadPktTagWide ==
  /\ div.state = "PAD_PKT_TAG"
  /\ LET last == div.cntHead = Pre - 1
     IN  /\ div' = [div EXCEPT !.cntGmii = (@ + 1) % W, !.cntHead = @ + 1,
                      !.rden = IF last THEN TRUE ELSE @,
                      !.state = IF last THEN "READ_PKT" ELSE @]
         /\ data' = (IF last THEN XD5 ELSE X55) /\ valid' = TRUE

PadPktTag ==
  /\ div.state = "PAD_PKT_TAG"
  /\ LET last == div.cntHead = Pre - 1
     IN  /\ div' = [div EXCEPT !.cntGmii = (@ + 1) % W, !.cntHead = (@ + 1) % 8,
                      !.rden = IF last THEN TRUE ELSE @,
                      !.state = IF last THEN "READ_PKT" ELSE @]
         /\ data' = (IF last THEN XD5 ELSE X55) /\ valid' = TRUE

(* Variant: the word stays in the FIFO. *)
ReadPktKeeps ==
  /\ div.state = "READ_PKT"
  /\ div' = [div EXCEPT !.rden = (Dout.mark = "head"), !.word = Dout, !.cntValid = Dout.valid,
               !.cntGmii = 0, !.state = "TRANS_PKT"]
  /\ data' = Dout.bytes[0] /\ valid' = TRUE

(* A word is taken and its first byte sent. *)
ReadPkt ==
  /\ div.state = "READ_PKT"
  /\ div' = [div EXCEPT !.rden = FALSE, !.word = Dout, !.cntValid = Dout.valid,
               !.cntGmii = 0, !.state = "TRANS_PKT"]
  /\ data' = Dout.bytes[0] /\ valid' = TRUE

(* The bytes of a word after its first one; one clock more ends a packet.   *)
TransPkt ==
  /\ div.state = "TRANS_PKT"
  /\ LET done == div.cntValid = 0 /\ div.word.mark = "tail"
         more == div.cntValid = 1 /\ div.word.mark # "tail"
     IN  /\ div' = [div EXCEPT !.cntGmii = (@ + 1) % W, !.cntValid = (@ + W - 1) % W,
                      !.rden = IF more THEN TRUE ELSE @,
                      !.cntWait = IF done THEN 0 ELSE @,
                      !.state = IF done THEN "WAIT" ELSE IF more THEN "READ_PKT" ELSE @]
         /\ valid' = ~done
         /\ data' = div.word.bytes[(div.cntGmii + 1) % W]

(* Variant: waits for a count that four bits do not reach. *)
WaitClocksLonger ==
  /\ div.state = "WAIT"
  /\ div' = [div EXCEPT !.cntGmii = (@ + 1) % W, !.cntWait = (@ + 1) % 16,
               !.state = IF div.cntWait = Wait + 4 THEN "IDLE" ELSE @]
  /\ UNCHANGED <<data, valid>>

WaitClocks ==
  /\ div.state = "WAIT"
  /\ div' = [div EXCEPT !.cntGmii = (@ + 1) % W, !.cntWait = (@ + 1) % 16,
               !.state = IF div.cntWait = Wait - 1 THEN "IDLE" ELSE @]
  /\ UNCHANGED <<data, valid>>

Divide == Idle \/ PadPktTag \/ ReadPkt \/ TransPkt \/ WaitClocks
-----------------------------------------------------------------------------
(* gmii_crc_calc.v.  Bit i of the register is next_crc[i]; its next value   *)
(* is the sum of data_in[j] and next_crc[24 + j] for j in Taps[i + 1], and  *)
(* of next_crc[i - 8].                                                      *)

(* Variant: a term is missing. *)
TapsTypo ==
  <<{0, 6}, {0, 1, 6, 7}, {0, 1, 2, 6, 7}, {1, 2, 3, 7},
    {0, 2, 3, 4, 6}, {0, 1, 3, 4, 5, 6, 7}, {1, 2, 4, 5, 6, 7}, {0, 2, 3, 5, 7},
    {0, 1, 3, 4}, {1, 2, 4, 5}, {0, 2, 3, 5}, {0, 1, 3, 4},
    {0, 1, 2, 4, 5, 6}, {1, 2, 3, 5, 6, 7}, {2, 3, 4, 6}, {3, 4, 5, 7},
    {0, 4, 5}, {1, 5, 6}, {2, 6, 7}, {3, 7},
    {4}, {5}, {0}, {0, 1, 6},
    {1, 2, 7}, {2, 3}, {0, 3, 4, 6}, {1, 4, 5, 7},
    {2, 5, 6}, {3, 6, 7}, {4, 7}, {5}>>

Taps ==
  <<{0, 6}, {0, 1, 6, 7}, {0, 1, 2, 6, 7}, {1, 2, 3, 7},
    {0, 2, 3, 4, 6}, {0, 1, 3, 4, 5, 6, 7}, {1, 2, 4, 5, 6, 7}, {0, 2, 3, 5, 7},
    {0, 1, 3, 4}, {1, 2, 4, 5}, {0, 2, 3, 5}, {0, 1, 3, 4},
    {0, 1, 2, 4, 5, 6}, {1, 2, 3, 5, 6, 7}, {2, 3, 4, 6, 7}, {3, 4, 5, 7},
    {0, 4, 5}, {1, 5, 6}, {2, 6, 7}, {3, 7},
    {4}, {5}, {0}, {0, 1, 6},
    {1, 2, 7}, {2, 3}, {0, 3, 4, 6}, {1, 4, 5, 7},
    {2, 5, 6}, {3, 6, 7}, {4, 7}, {5}>>

Odd(set) == Cardinality(set) % 2 = 1

(* The byte goes in with its bits reversed. *)
NextCrc(next, byte) ==
  LET dataIn == {7 - b : b \in byte}
  IN  {i \in 0 .. 31 :
         Odd({j \in Taps[i + 1] : (j \in dataIn) # (24 + j \in next)}) # (i - 8 \in next)}

(* Byte k of the complement of the reversed register (lastcrc). *)
LastCrc(k) == {b \in 0 .. 7 : 31 - (8 * k + b) \notin crc.next}

CrcIdle ==
  /\ crc.state = "IDLE"
  /\ crc' = IF valid /\ ~crc.dv
            THEN [crc EXCEPT !.dv = valid, !.en = TRUE, !.data = data, !.state = "RCV"]
            ELSE [crc EXCEPT !.dv = valid]

CrcReceive ==
  /\ crc.state = "RCV"
  /\ crc' = [crc EXCEPT !.dv = valid, !.en = valid, !.data = data,
                        !.state = IF valid /\ data = XD5 THEN "CRC" ELSE @]

CrcSum ==
  /\ crc.state = "CRC"
  /\ crc' = IF crc.dv /\ ~valid
            THEN [crc EXCEPT !.dv = valid, !.en = TRUE, !.data = LastCrc(0), !.state = "OUT"]
            ELSE [crc EXCEPT !.dv = valid, !.en = valid, !.data = data, !.next = NextCrc(@, data)]

CrcOut ==
  /\ crc.state = "OUT"
  /\ crc' = IF crc.cnt < 3
            THEN [crc EXCEPT !.dv = valid, !.en = TRUE, !.data = LastCrc(crc.cnt + 1), !.cnt = @ + 1]
            ELSE [crc EXCEPT !.dv = valid, !.en = FALSE, !.data = {}, !.cnt = 0,
                             !.next = 0 .. 31, !.state = "IDLE"]

Crc == CrcIdle \/ CrcReceive \/ CrcSum \/ CrcOut
-----------------------------------------------------------------------------
(* What receives the frames checks them as IEEE 802.3 says: a register of   *)
(* 32 bits that starts with ones is the remainder of a division by the      *)
(* Polynomial, to which each byte is added from its lowest bit, and is this *)
(* Remainder behind the CRC.                                                *)
Polynomial == {0, 1, 2, 4, 5, 7, 8, 10, 11, 12, 16, 22, 23, 26}
Remainder  == {0, 1, 3, 4, 5, 6, 8, 10, 11, 12, 14, 15, 18, 24, 25, 26, 30, 31}

(* The remainder of a polynomial times x. *)
TimesX(p) == {i \in 0 .. 31 : (i - 1 \in p) # (31 \in p /\ i \in Polynomial)}

(* The remainders of the powers 32 to 39 of x. *)
Powers ==
  LET p33 == TimesX(Polynomial)  p34 == TimesX(p33)  p35 == TimesX(p34)
      p36 == TimesX(p35)         p37 == TimesX(p36)  p38 == TimesX(p37)
  IN  <<Polynomial, p33, p34, p35, p36, p37, p38, TimesX(p38)>>

Divided(register, byte) ==
  LET high == {j \in 0 .. 7 : (24 + j \in register) # (7 - j \in byte)}
  IN  {i \in 0 .. 31 : Odd({j \in high : i \in Powers[j + 1]}) # (i - 8 \in register)}

(* The frames on the wire.  Two with less than Ifg clocks between them      *)
(* count as one.                                                            *)
Record ==
  /\ quiet' = IF crc.en THEN 0 ELSE IF quiet < Ifg THEN quiet + 1 ELSE quiet
  /\ wire' = IF ~crc.en THEN wire
             ELSE IF quiet = Ifg THEN Append(wire, <<crc.data>>)
             ELSE [wire EXCEPT ![Len(wire)] = Append(@, crc.data)]
  /\ remainder' = IF ~crc.en THEN remainder
                  ELSE IF quiet = Ifg \/ Len(Last(wire)) < Pre THEN 0 .. 31
                  ELSE Divided(remainder, crc.data)

Clock(start) ==
  /\ Source(start)
  /\ Fifo
  /\ Divide
  /\ Crc
  /\ Record

Next     == \E start \in BOOLEAN : Clock(start)
Spec     == Init /\ [][Next]_vars
FairSpec == Spec /\ WF_vars(Next)
-----------------------------------------------------------------------------
TypeOK ==
  /\ sent \in Seq(Payloads) /\ due \in Nat /\ Len(fifo) <= Cap
  /\ div.state \in {"IDLE", "PAD_PKT_TAG", "READ_PKT", "TRANS_PKT", "WAIT"}
  /\ div.cntHead \in 0 .. 7 /\ div.cntWait \in 0 .. Wait
  /\ div.cntValid \in 0 .. W - 1 /\ div.cntGmii \in 0 .. W - 1
  /\ data \in Byte /\ crc.data \in Byte /\ crc.next \subseteq 0 .. 31 /\ crc.cnt \in 0 .. 3
  /\ {valid, div.rden, crc.dv, crc.en} \subseteq BOOLEAN
  /\ crc.state \in {"IDLE", "RCV", "CRC", "OUT"}
  /\ quiet \in 0 .. Ifg

(* A frame is a preamble, the bytes of its packet and a CRC that a receiver *)
(* accepts; frames leave in the order of their packets, Ifg clocks apart.   *)
FramesOnWire ==
  /\ Len(wire) <= Len(sent)
  /\ quiet = 1 /\ wire # << >> =>
       LET frame == Last(wire)
       IN  /\ SubSeq(frame, 1, Pre) = [k \in 1 .. Pre |-> IF k < Pre THEN X55 ELSE XD5]
           /\ SubSeq(frame, Pre + 1, Len(frame) - 4) = sent[Len(wire)]
           /\ remainder = Remainder

(* A word is there whenever one is read, and there is room whenever one is  *)
(* written: neither machine asks.                                           *)
FifoSound ==
  /\ div.state = "READ_PKT" => fifo # << >>
  /\ PktValid => Len(fifo) < Cap

(* Every packet leaves. *)
EveryPacketLeaves ==
  \A n \in 1 .. MaxPackets : Len(sent) >= n ~> (Len(wire) >= n /\ quiet > 0)
=============================================================================
