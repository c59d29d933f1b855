---------------------------- MODULE ReceivePath -----------------------------
(***************************************************************************)
(* The receive side of soc_runtime.v: what asyn_recv_packet.v and          *)
(* gmii_crc_check.v (AsynRecv) put out is what gmii_to_134b_pkt.v          *)
(* (GmiiTo134b) takes in.  The frames of the line become packets of        *)
(* words.                                                                  *)
(***************************************************************************)
EXTENDS Naturals, Sequences

CONSTANTS Preamble, Lengths, Gap, RecvCap, MaxFrames, W, T, PktCap

VARIABLES
  lens, left, idle, tempDv, dinRecv, wrenRecv, asFifo, late, stale,
  stateRd, rdenRecv, tx, temp, gmiiOut,
  stateAccu, pktTag, cntValid, cnt16, head, wrenPkt, dinPkt, finish,
  fifoPkt, dout, cntPkt, rdenPkt, rdenTemp, stateRead, pktValid, pktData, got

A == INSTANCE AsynRecv
G == INSTANCE GmiiTo134b WITH rx <- gmiiOut

(* A frame with less than 64 bytes is no frame of Ethernet; one of a word, *)
(* or a byte less, would be counted as a packet and not be written.  The   *)
(* counters of packets and of words have eight bits.                       *)
ASSUME Sizes ==
  /\ Preamble \in Nat /\ Preamble >= 2 /\ Lengths \subseteq Nat \ {0}
  /\ Lengths \cap {A!CRC + W - 1, A!CRC + W} = {}
  /\ {Gap, T} \subseteq Nat \ {0, 1} /\ W \in Nat /\ W > 2
  /\ {RecvCap, PktCap, MaxFrames} \subseteq Nat /\ RecvCap > 3
  /\ T <= PktCap /\ T < 255

vars == <<A!vars, G!accu, G!read>>

Init == A!Init /\ G!Init

(* asyn_recv_packet_inst, checkCRC and gmii2pkt: one clock of all three. *)
Clock(start) == A!Clock(start) /\ G!Clock

Next     == \E start \in BOOLEAN : Clock(start)
Spec     == Init /\ [][Next]_vars
FairSpec == Spec /\ WF_vars(Next)
-----------------------------------------------------------------------------
TypeOK == A!TypeOK /\ G!TypeOK

(* The bytes of a frame that come out: without its CRC, and cut after T     *)
(* words; none if that leaves no more than one word.                        *)
Kept(f) == IF lens[f] <= A!CRC + W THEN 0
           ELSE IF lens[f] > A!CRC + T * W THEN T * W
           ELSE lens[f] - A!CRC

FrameOf(w) == w.bytes[0][1]
FirstOf(w) == w.bytes[0][2]
LastOf(w)  == FirstOf(w) + w.n - 1

(* The word w is W bytes of a frame in a row, or as many as it has left,    *)
(* and is marked at both ends of the packet.                                *)
IsPiece(w) ==
  LET kept == Kept(FrameOf(w))
      rest == kept - FirstOf(w) + 1
  IN  /\ FrameOf(w) \in 1 .. Len(lens) /\ FirstOf(w) \in 1 .. kept
      /\ w.n = IF rest < W THEN rest ELSE W
      /\ \A i \in 0 .. w.n - 1 : w.bytes[i] = <<FrameOf(w), FirstOf(w) + i>>
      /\ w.mark = IF FirstOf(w) = 1 THEN "head" ELSE IF LastOf(w) = kept THEN "tail" ELSE "body"

(* It opens the first packet behind frame f. *)
Opens(w, f) ==
  /\ FirstOf(w) = 1 /\ FrameOf(w) > f
  /\ \A e \in f + 1 .. FrameOf(w) - 1 : Kept(e) = 0

Continues(v, w) ==
  IF LastOf(v) < Kept(FrameOf(v))
  THEN FrameOf(w) = FrameOf(v) /\ FirstOf(w) = LastOf(v) + 1
  ELSE Opens(w, FrameOf(v))

(* From the line to the packet words: words come out in the order of the    *)
(* bytes on the line, no byte of a preamble or a CRC among them, a packet   *)
(* is never interrupted, mixed with another or short of its tail, and every *)
(* byte up to the cut is there once, however the phase of the two clocks    *)
(* moves and however close the frames are.                                  *)
PacketsIntact ==
  /\ \A k \in 1 .. Len(got) : IsPiece(got[k])
  /\ got # << >> => Opens(got[1], 0)
  /\ \A k \in 2 .. Len(got) : Continues(got[k - 1], got[k])

(* Neither of the two readers, which never look at empty inside a frame or  *)
(* a packet, takes a word that is not there, and no word is written to a    *)
(* FIFO that is full.                                                       *)
FifosSound == A!NeverReadsEmpty /\ G!NeverReadsEmpty /\ G!NeverFull

(* After the last frame every packet has come out. *)
AllPacketsOut ==
  (Len(lens) = MaxFrames) ~>
    \A f \in 1 .. Len(lens) : Kept(f) > 0 =>
      \E k \in 1 .. Len(got) : FrameOf(got[k]) = f /\ got[k].mark = "tail"
=============================================================================
