----------------------------- MODULE GmiiTo134b -----------------------------
(***************************************************************************)
(* gmii_to_134b_pkt.v: frames that arrive byte by byte become packets of   *)
(* words with a head and a tail mark.  A first state machine accumulates   *)
(* the bytes and writes words into a FIFO, a counter holds the number of   *)
(* packets in the FIFO, and a second state machine empties it a packet at  *)
(* a time.  A step is one clock of the 125 MHz domain.                      *)
(***************************************************************************)
EXTENDS Naturals, Sequences

CONSTANTS
  W,          (* bytes of a word (16 in the hardware)                         *)
  T,          (* words after which a packet is cut (131)                      *)
  PktCap      (* words the FIFO holds (512)                                   *)

VARIABLES
  rx,         (* gmii_data_valid and gmii_data                                *)
  stateAccu,  (* state_accu                                                   *)
  pktTag,     (* pkt_tag: the bytes of the word being filled                  *)
  cntValid,   (* cnt_valid: where the next byte goes                          *)
  cnt16,      (* cnt_16B: words of the packet written so far                  *)
  head,       (* head_tag = 01                                                *)
  wrenPkt, dinPkt, (* wren_pkt and din_pkt                                    *)
  finish,     (* gmii_pkt_finish                                              *)
  fifoPkt, dout,   (* fifo_pkt and the word it shows                          *)
  cntPkt,     (* cnt_pkt_fifo, eight bits                                     *)
  rdenPkt, rdenTemp,
  stateRead,  (* state_read                                                   *)
  pktValid, pktData, (* pkt_data_valid and pkt_data                           *)
  got         (* history: the words that came out                             *)

accu == <<stateAccu, pktTag, cntValid, cnt16, head, wrenPkt, dinPkt, finish>>
read == <<fifoPkt, dout, cntPkt, rdenPkt, rdenTemp, stateRead, pktValid, pktData, got>>

Pad  == <<0, 0>>
Byte == Nat \X Nat

(* A word: its mark, the number of its bytes that count (its valid tag plus *)
(* one) and all its bytes.                                                  *)
Word(mark, n, bytes) == [mark |-> mark, n |-> n, bytes |-> bytes]
NoWord == Word("none", 0, [i \in 0 .. W - 1 |-> Pad])
-----------------------------------------------------------------------------
Init ==
  /\ stateAccu = "IDLE" /\ pktTag = [i \in 0 .. W - 1 |-> Pad]
  /\ cntValid = 0 /\ cnt16 = 0 /\ head = FALSE
  /\ wrenPkt = FALSE /\ dinPkt = NoWord /\ finish = FALSE
  /\ fifoPkt = << >> /\ dout = NoWord
  /\ cntPkt = 0 /\ rdenPkt = FALSE /\ rdenTemp = FALSE
  /\ stateRead = "IDLE" /\ pktValid = FALSE /\ pktData = NoWord
  /\ got = << >>

DataValid == rx.en
Data      == rx.data

-----------------------------------------------------------------------------
(* Variant: the count of words goes on over frames. *)
FirstWordKeepsCount ==
  /\ finish' = FALSE /\ wrenPkt' = FALSE /\ dinPkt' = NoWord /\ head' = TRUE
  /\ IF DataValid
     THEN /\ pktTag' = [pktTag EXCEPT ![cntValid] = Data]
          /\ cntValid' = (cntValid + 1) % W
     ELSE cntValid' = 0 /\ UNCHANGED pktTag
  /\ stateAccu' = IF cntValid = W - 1 THEN "WAIT_TAIL" ELSE "IDLE"
  /\ UNCHANGED cnt16

(* state_accu = IDLE_S: the first word of a frame. *)
FirstWord ==
  /\ finish' = FALSE /\ wrenPkt' = FALSE /\ dinPkt' = NoWord /\ head' = TRUE /\ cnt16' = 0
  /\ IF DataValid
     THEN /\ pktTag' = [pktTag EXCEPT ![cntValid] = Data]
          /\ cntValid' = (cntValid + 1) % W
     ELSE cntValid' = 0 /\ UNCHANGED pktTag
  /\ stateAccu' = IF cntValid = W - 1 THEN "WAIT_TAIL" ELSE "IDLE"

(* Variant: the packet is cut a word too late. *)
MoreBytesLateCut ==
  /\ pktTag' = [pktTag EXCEPT ![cntValid] = Data]
  /\ cntValid' = (cntValid + 1) % W
  /\ head' = FALSE
  /\ wrenPkt' = (cntValid = 0)
  /\ IF cntValid = 0
     THEN /\ cnt16' = (cnt16 + 1) % 256
          /\ IF cnt16 = T
             THEN /\ stateAccu' = "OVERFLOW" /\ finish' = TRUE
                  /\ dinPkt' = Word("tail", W, pktTag)
             ELSE /\ dinPkt' = Word(IF head THEN "head" ELSE "body", W, pktTag)
                  /\ UNCHANGED <<stateAccu, finish>>
     ELSE UNCHANGED <<cnt16, stateAccu, finish, dinPkt>>

(* Variant: a packet that is cut is not reported complete. *)
MoreBytesNoFinish ==
  /\ pktTag' = [pktTag EXCEPT ![cntValid] = Data]
  /\ cntValid' = (cntValid + 1) % W
  /\ head' = FALSE
  /\ wrenPkt' = (cntValid = 0)
  /\ finish' = finish
  /\ IF cntValid = 0
     THEN /\ cnt16' = (cnt16 + 1) % 256
          /\ IF cnt16 = T - 1
             THEN stateAccu' = "OVERFLOW" /\ dinPkt' = Word("tail", W, pktTag)
             ELSE /\ dinPkt' = Word(IF head THEN "head" ELSE "body", W, pktTag)
                  /\ UNCHANGED stateAccu
     ELSE UNCHANGED <<cnt16, stateAccu, dinPkt>>

(* state_accu = WAIT_TAIL_S with a byte: every W bytes a word is written,   *)
(* the T-th of a packet is its last.                                        *)
MoreBytes ==
  /\ pktTag' = [pktTag EXCEPT ![cntValid] = Data]
  /\ cntValid' = (cntValid + 1) % W
  /\ head' = FALSE
  /\ wrenPkt' = (cntValid = 0)
  /\ IF cntValid = 0
     THEN /\ cnt16' = (cnt16 + 1) % 256
          /\ IF cnt16 = T - 1
             THEN /\ stateAccu' = "OVERFLOW" /\ finish' = TRUE
                  /\ dinPkt' = Word("tail", W, pktTag)
             ELSE /\ dinPkt' = Word(IF head THEN "head" ELSE "body", W, pktTag)
                  /\ UNCHANGED <<stateAccu, finish>>
     ELSE UNCHANGED <<cnt16, stateAccu, finish, dinPkt>>

(* Variant: a full last word is written with no valid byte. *)
EndOfFrameNoWrap ==
  /\ finish' = TRUE
  /\ dinPkt' = Word("tail", cntValid, pktTag)
  /\ wrenPkt' = ~head
  /\ stateAccu' = "IDLE"
  /\ cntValid' = 0
  /\ UNCHANGED <<pktTag, cnt16, head>>

(* state_accu = WAIT_TAIL_S without a byte: the last word of the packet; a  *)
(* packet of one word is not written.                                       *)
EndOfFrame ==
  /\ finish' = TRUE
  /\ dinPkt' = Word("tail", ((cntValid + W - 1) % W) + 1, pktTag)
  /\ wrenPkt' = ~head
  /\ stateAccu' = "IDLE"
  /\ cntValid' = 0
  /\ UNCHANGED <<pktTag, cnt16, head>>

(* state_accu = OVERFLOW_S: the rest of a frame that was cut. *)
RestOfFrame ==
  /\ wrenPkt' = FALSE /\ finish' = FALSE
  /\ stateAccu' = IF DataValid THEN "OVERFLOW" ELSE "IDLE"
  /\ UNCHANGED <<pktTag, cntValid, cnt16, head, dinPkt>>

Accumulate ==
  \/ stateAccu = "IDLE" /\ FirstWord
  \/ stateAccu = "WAIT_TAIL" /\ DataValid /\ MoreBytes
  \/ stateAccu = "WAIT_TAIL" /\ ~DataValid /\ EndOfFrame
  \/ stateAccu = "OVERFLOW" /\ RestOfFrame
-----------------------------------------------------------------------------
(* fifo_134b_512 shows its first word; written when full, it drops. *)
Fifo ==
  LET popped == IF rdenPkt /\ fifoPkt # << >> THEN Tail(fifoPkt) ELSE fifoPkt
  IN  /\ fifoPkt' = IF wrenPkt /\ Len(fifoPkt) < PktCap THEN Append(popped, dinPkt) ELSE popped
      /\ dout' = IF fifoPkt' = << >> THEN dout ELSE Head(fifoPkt')

(* One up when a packet is complete, one down when the reader starts one. *)
PacketCount ==
  LET starts == rdenPkt /\ ~rdenTemp
  IN  /\ rdenTemp' = rdenPkt
      /\ cntPkt' = CASE finish /\ ~starts -> (cntPkt + 1) % 256
                     [] starts /\ ~finish -> (cntPkt + 255) % 256
                     [] OTHER -> cntPkt

(* Variant: the reader starts as soon as there is a word. *)
ReadPacketEarly ==
  CASE stateRead = "IDLE" ->
         /\ pktValid' = FALSE /\ UNCHANGED pktData
         /\ IF fifoPkt # << >> THEN rdenPkt' = TRUE /\ stateRead' = "WAIT_TAIL"
                            ELSE rdenPkt' = FALSE /\ stateRead' = "IDLE"
    [] stateRead = "WAIT_TAIL" ->
         /\ pktValid' = TRUE /\ pktData' = dout
         /\ IF dout.mark = "tail" THEN rdenPkt' = FALSE /\ stateRead' = "WAIT_1_CLK"
                                  ELSE UNCHANGED <<rdenPkt, stateRead>>
    [] stateRead = "WAIT_1_CLK" ->
         pktValid' = FALSE /\ stateRead' = "IDLE" /\ UNCHANGED <<rdenPkt, pktData>>

(* state_read: a packet leaves word by word up to its tail. *)
ReadPacket ==
  CASE stateRead = "IDLE" ->
         /\ pktValid' = FALSE /\ UNCHANGED pktData
         /\ IF cntPkt # 0 THEN rdenPkt' = TRUE /\ stateRead' = "WAIT_TAIL"
                          ELSE rdenPkt' = FALSE /\ stateRead' = "IDLE"
    [] stateRead = "WAIT_TAIL" ->
         /\ pktValid' = TRUE /\ pktData' = dout
         /\ IF dout.mark = "tail" THEN rdenPkt' = FALSE /\ stateRead' = "WAIT_1_CLK"
                                  ELSE UNCHANGED <<rdenPkt, stateRead>>
    [] stateRead = "WAIT_1_CLK" ->
         pktValid' = FALSE /\ stateRead' = "IDLE" /\ UNCHANGED <<rdenPkt, pktData>>

Collect == got' = IF pktValid THEN Append(got, pktData) ELSE got

Clock ==
  /\ Accumulate
  /\ Fifo
  /\ PacketCount
  /\ ReadPacket
  /\ Collect
-----------------------------------------------------------------------------
Marks == {"none", "head", "body", "tail"}

TypeOK ==
  /\ stateAccu \in {"IDLE", "WAIT_TAIL", "OVERFLOW"}
  /\ \A i \in 0 .. W - 1 : pktTag[i] \in Byte
  /\ cntValid \in 0 .. W - 1 /\ cnt16 \in 0 .. T
  /\ {head, wrenPkt, finish, rdenPkt, rdenTemp, pktValid} \subseteq BOOLEAN
  /\ \A w \in {dinPkt, dout, pktData} : w.mark \in Marks /\ w.n \in 0 .. W
  /\ cntPkt \in 0 .. 255
  /\ stateRead \in {"IDLE", "WAIT_TAIL", "WAIT_1_CLK"}

(* The reader, which looks at the word shown and never at empty_pkt, has a  *)
(* word whenever it reads: a packet counted is complete in the FIFO.        *)
NeverReadsEmpty == stateRead = "WAIT_TAIL" => fifoPkt # << >>

(* The FIFO, whose full_pkt nobody reads, has room for a packet that is cut *)
(* and the beginning of the next one.                                       *)
NeverFull == wrenPkt => Len(fifoPkt) < PktCap
=============================================================================
