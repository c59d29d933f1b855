------------------------------ MODULE AsynRecv ------------------------------
(***************************************************************************)
(* How a frame gets from the receive clock of the PHY to the clock of the  *)
(* SoC: asyn_recv_packet.v writes the bytes of frames, with a separator    *)
(* behind each, into a FIFO of two clocks and reads them without their     *)
(* preamble; gmii_crc_check.v takes the four bytes of the CRC off.         *)
(*                                                                         *)
(* A step is one clock of both domains.  The clocks differ by 200 ppm at   *)
(* most, a third of a period over the longest frame.  So each clock of the *)
(* reader follows one clock of the writer, but whether it sees what is     *)
(* written in that clock already may change from one clock to the next.    *)
(* The clocks a word always needs through the FIFO are left out: they      *)
(* shift all that the reader sees by as much.                              *)
(***************************************************************************)
EXTENDS Naturals, Sequences

CONSTANTS
  Preamble,   (* bytes of a preamble with its 0xd5 (8)                        *)
  Lengths,    (* bytes of frames behind the preamble, their CRC included      *)
  Gap,        (* clocks between two frames on the line, at least (12)         *)
  RecvCap,    (* words the FIFO holds (1024)                                  *)
  MaxFrames   (* frames that arrive: a bound of the model                     *)

CRC == 4      (* bytes of a CRC                                               *)

VARIABLES
  lens, left, idle, (* the line: lengths of the frames so far, bytes left of
                       the last one, clocks since                             *)
  tempDv, dinRecv, wrenRecv,
                    (* temp_gmii_rx_dv, din_recv_fifo_9b, wren_recv_fifo_1b   *)
  asFifo,           (* asfifo_recv_data                                       *)
  late,             (* the reader does not see the word written last yet      *)
  stale,            (* what the FIFO shows while it is empty                  *)
  stateRd, rdenRecv,(* state_rd, rden_recv_fifo_1b                            *)
  tx,               (* gmii_tx_en and gmii_txd of asyn_recv_packet.v          *)
  temp,             (* temp_gmii_dv and temp_gmii_data of gmii_crc_check.v    *)
  gmiiOut           (* gmii_en_o and gmii_data_o of gmii_crc_check.v          *)

line   == <<lens, left, idle>>
writer == <<tempDv, dinRecv, wrenRecv>>
reader == <<stateRd, rdenRecv, tx>>
check  == <<temp, gmiiOut>>
vars   == <<line, writer, asFifo, late, stale, reader, check>>

(* Bytes: those of a preamble, and byte i of frame f as <<f, i>>. *)
Zero == <<0, 0>>
X55  == <<0, 85>>
XD5  == <<0, 213>>

(* A FIFO word: bit 8 and the byte. *)
Entry(bit8, data) == [bit8 |-> bit8, data |-> data]
Separator         == Entry(FALSE, Zero)

Wire(en, data) == [en |-> en, data |-> data]
NoByte         == Wire(FALSE, Zero)
-----------------------------------------------------------------------------
(* A register that reset leaves alone (rden_recv_fifo_1b) is undefined. *)
Init ==
  /\ lens = << >> /\ left = 0 /\ idle = Gap
  /\ tempDv = FALSE /\ dinRecv = Separator /\ wrenRecv = FALSE
  /\ asFifo = << >> /\ late = FALSE /\ stale = Separator
  /\ stateRd = "IDLE" /\ rdenRecv \in BOOLEAN /\ tx = NoByte
  /\ temp = [k \in 1 .. CRC |-> NoByte] /\ gmiiOut = NoByte

(* gmii_rx_dv and gmii_rxd in this clock. *)
DataValid == left > 0

Rxd ==
  LET n == lens[Len(lens)]
      k == Preamble + n - left + 1
  IN  IF k < Preamble THEN X55
      ELSE IF k = Preamble THEN XD5
      ELSE <<Len(lens), k - Preamble>>

(* The line: a frame is a preamble and its bytes, frames are Gap apart. *)
Line(start) ==
  IF DataValid
  THEN left' = left - 1 /\ idle' = 0 /\ ~start /\ UNCHANGED lens
  ELSE \/ /\ ~start /\ idle' = (IF idle < Gap THEN idle + 1 ELSE idle)
          /\ UNCHANGED <<lens, left>>
       \/ /\ start /\ idle + 1 >= Gap /\ Len(lens) < MaxFrames
          /\ \E n \in Lengths : lens' = Append(lens, n) /\ left' = Preamble + n
          /\ UNCHANGED idle

(* Variant: no separator. *)
WriteNoSeparator ==
  /\ tempDv' = DataValid
  /\ wrenRecv' = DataValid
  /\ dinRecv' = IF DataValid THEN Entry(TRUE, Rxd) ELSE dinRecv

(* write fifo: each byte, then one separator. *)
Write ==
  /\ tempDv' = DataValid
  /\ wrenRecv' = (DataValid \/ tempDv)
  /\ dinRecv' = IF DataValid THEN Entry(TRUE, Rxd)
            ELSE IF tempDv THEN Separator ELSE dinRecv
-----------------------------------------------------------------------------
(* The reader's side of the FIFO. *)
IsEmpty == Len(asFifo) = IF late THEN 1 ELSE 0
Dout    == IF IsEmpty THEN stale ELSE Head(asFifo)

(* The FIFO keeps showing the word it showed last when it is empty.  A word *)
(* is seen with the next clock or the one after it, as the phase of the two *)
(* clocks will have it.                                                     *)
Fifo ==
  LET push   == wrenRecv /\ Len(asFifo) < RecvCap
      popped == IF rdenRecv /\ ~IsEmpty THEN Tail(asFifo) ELSE asFifo
  IN  /\ asFifo' = IF push THEN Append(popped, dinRecv) ELSE popped
      /\ stale' = Dout
      /\ late' \in IF push THEN BOOLEAN ELSE {FALSE}

(* Variant: the first byte is taken a clock earlier. *)
ReadEarly ==
  \/ /\ stateRd = "IDLE" /\ tx' = tx
     /\ rdenRecv' = TRUE
     /\ stateRd' = IF IsEmpty THEN "IDLE" ELSE "DISCARD_PKT_HEAD"
  \/ /\ stateRd = "DISCARD_PKT_HEAD" /\ UNCHANGED <<rdenRecv, tx>>
     /\ stateRd' = IF Dout.data = XD5 THEN "WAIT_TAIL" ELSE stateRd
  \/ /\ stateRd = "WAIT_TAIL"
     /\ tx' = Wire(Dout.bit8, Dout.data)
     /\ rdenRecv' = (rdenRecv /\ Dout.bit8)
     /\ stateRd' = IF Dout.bit8 THEN stateRd ELSE "IDLE"

(* Variant: the enable is forgotten. *)
ReadNoEnable ==
  \/ /\ stateRd = "IDLE" /\ tx' = tx
     /\ rdenRecv' = FALSE
     /\ stateRd' = IF IsEmpty THEN "IDLE" ELSE "DISCARD_PKT_HEAD"
  \/ /\ stateRd = "DISCARD_PKT_HEAD" /\ UNCHANGED <<rdenRecv, tx>>
     /\ stateRd' = IF Dout.data = XD5 THEN "WAIT_TAIL" ELSE stateRd
  \/ /\ stateRd = "WAIT_TAIL"
     /\ tx' = Wire(Dout.bit8, Dout.data)
     /\ rdenRecv' = (rdenRecv /\ Dout.bit8)
     /\ stateRd' = IF Dout.bit8 THEN stateRd ELSE "IDLE"

(* read fifo: neither of the two states that read looks at empty, and the   *)
(* first one looks at no separator.                                         *)
Read ==
  \/ /\ stateRd = "IDLE" /\ tx' = tx
     /\ rdenRecv' = ~IsEmpty
     /\ stateRd' = IF IsEmpty THEN "IDLE" ELSE "DISCARD_PKT_HEAD"
  \/ /\ stateRd = "DISCARD_PKT_HEAD" /\ UNCHANGED <<rdenRecv, tx>>
     /\ stateRd' = IF Dout.data = XD5 THEN "WAIT_TAIL" ELSE stateRd
  \/ /\ stateRd = "WAIT_TAIL"
     /\ tx' = Wire(Dout.bit8, Dout.data)
     /\ rdenRecv' = (rdenRecv /\ Dout.bit8)
     /\ stateRd' = IF Dout.bit8 THEN stateRd ELSE "IDLE"

-----------------------------------------------------------------------------
(* A byte goes on when there are four behind it. *)
Check ==
  /\ temp' = <<tx>> \o SubSeq(temp, 1, CRC - 1)
  /\ gmiiOut' = Wire(tx.en /\ temp[CRC].en, temp[CRC].data)

Clock(start) ==
  /\ Line(start)
  /\ Write
  /\ Fifo
  /\ Read
  /\ Check
-----------------------------------------------------------------------------
Data == {Zero, X55, XD5} \cup (1 .. MaxFrames) \X Nat

(* Besides the ranges: the FIFO, whose full is not connected, has room. *)
TypeOK ==
  /\ lens \in Seq(Lengths) /\ left \in Nat /\ idle \in 0 .. Gap
  /\ {tempDv, wrenRecv, late, rdenRecv, tx.en, gmiiOut.en} \subseteq BOOLEAN
  /\ {dinRecv.data, stale.data, tx.data, gmiiOut.data} \subseteq Data
  /\ Len(asFifo) < RecvCap /\ (late => asFifo # << >>)
  /\ stateRd \in {"IDLE", "DISCARD_PKT_HEAD", "WAIT_TAIL"}

(* Inside a frame the reader always finds a byte, though it never looks     *)
(* whether there is one: the clock between seeing the first byte and taking *)
(* it is all it is ahead.                                                   *)
NeverReadsEmpty == stateRd = "WAIT_TAIL" => ~IsEmpty
=============================================================================
