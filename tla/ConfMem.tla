------------------------------ MODULE ConfMem -------------------------------
(***************************************************************************)
(* The configuration path of timelyRV v1.0: conf_mem.v, which a host       *)
(* drives with packets of type 0x9001 .. 0x9004, the configuration port of *)
(* the instruction and data RAM (mm_ram_modified.v), the reset of the      *)
(* processor and the packet multiplexer of um_for_cpu.v, behind which the  *)
(* answers leave beside the packets of the network interface.  A step is   *)
(* one clock.                                                              *)
(***************************************************************************)
EXTENDS Naturals, Sequences, SequencesExt

CONSTANTS
  Index,      (* words of a RAM (16384)                                       *)
  Data,       (* what a RAM word can hold                                     *)
  Blank,      (* what it holds before it is written                           *)
  Images,     (* what a WR_PROG packet can write: sequences of [to, data]     *)
  Words,      (* words of a configuration packet (4 in an Ethernet frame of
                 minimal size)                                                *)
  Space,      (* clocks from a head to the next one, at least (84 and more:
                 bytes of such a frame with its preamble and gap)             *)
  MaxPackets, (* packets of the host: a bound of the model                    *)
  MaxSoft     (* packets of the network interface: a bound of the model       *)

Banks   == {"instr", "data"}
Address == [bank : Banks, index : Index]

ASSUME Requests ==
  /\ Index # {} /\ Blank \in Data
  /\ \A image \in Images : image \in Seq([to : Address, data : Data]) /\ Len(image) = Words - 1
  /\ Words \in Nat /\ Words >= 4 /\ Space \in Nat /\ Space >= Words + 2
  /\ MaxPackets \in Nat /\ MaxSoft \in Nat

VARIABLES
  packet, pos, since, sent, (* the host: its packet, the word on data_in, the
                               clocks since its head, packets so far          *)
  promised,   (* history: the answers its requests call for                   *)
  written,    (* history: what its packets have written                       *)
  running,    (* history: whether it has let the processor run                *)
  stored,     (* history: where the core has stored since the host last wrote *)
  conf,       (* the registers around state_conf                              *)
  ram, ramQ, rdata, (* both RAMs, the two registers of conf_rdata             *)
  temp,       (* rden_temp and addr_temp                                      *)
  buffer,     (* rdata_buffer                                                 *)
  send,       (* the registers around state_out                               *)
  soft, softs,(* the network interface: its word on data_out, packets so far  *)
  mux,        (* data_out_valid, data_out and type_mem of um_for_cpu.v        *)
  output      (* history: the words that left                                 *)

host == <<packet, pos, since, sent, promised, written, running>>
vars == <<host, stored, conf, ram, ramQ, rdata, temp, buffer, send, soft, softs, mux, output>>

Answer(type, value) == [type |-> type, value |-> value]

(* A word that leaves: its mark, its source and what the host looks at. *)
Word(mark, from, value) == [mark |-> mark, from |-> from, value |-> value]
NoWord == Word("none", "none", "none")

Origin == [bank |-> "instr", index |-> CHOOSE x \in Index : TRUE]
NoPacket == [type |-> "NONE"]
-----------------------------------------------------------------------------
Init ==
  /\ packet = NoPacket /\ pos = Words /\ since = Space /\ sent = 0
  /\ promised = << >> /\ running = FALSE
  /\ written = [a \in Address |-> Blank] /\ stored = {}
  /\ conf = [state |-> "IDLE", rden |-> FALSE, wren |-> FALSE, addr |-> Origin,
             wdata |-> Blank, sel |-> TRUE, tag |-> FALSE]
  /\ ram = [a \in Address |-> Blank] /\ ramQ = Blank /\ rdata = Blank
  /\ temp = [r0 |-> FALSE, r1 |-> FALSE, a0 |-> Origin, a1 |-> Origin]
  /\ buffer = << >>
  /\ send = [state |-> "IDLE", valid |-> FALSE, word |-> NoWord, rdreq |-> FALSE, tag |-> FALSE]
  /\ soft = 0 /\ softs = 0
  /\ mux = [valid |-> FALSE, word |-> NoWord, mem |-> FALSE]
  /\ output = << >>
-----------------------------------------------------------------------------
(* The host. *)
Packets ==
  {NoPacket, [type |-> "RD_SEL"]}
  \cup [type : {"WR_SEL"}, sel : BOOLEAN]
  \cup [type : {"WR_PROG"}, image : Images]
  \cup [type : {"RD_PROG"}, to : Address]

(* What is in the RAMs when all words of an image are: the last one to an   *)
(* address stays.                                                           *)
Loaded(old, image) ==
  [a \in Address |->
     LET to == {k \in 1 .. Len(image) : image[k].to = a}
     IN  IF to = {} THEN old[a] ELSE image[Max(to)].data]

(* What a packet of the host asks for. *)
Asks(p) ==
  /\ written' = IF p.type = "WR_PROG" THEN Loaded(written, p.image) ELSE written
  /\ running' = IF p.type = "WR_SEL" THEN ~p.sel ELSE running
  /\ promised' = CASE p.type = "RD_SEL"  -> Append(promised, Answer("SEL", ~running))
                   [] p.type = "RD_PROG" -> Append(promised, Answer("PROG", <<p.to, written[p.to]>>))
                   [] OTHER -> promised

Host(p) ==
  /\ since' = IF p # NoPacket THEN 1 ELSE IF since < Space THEN since + 1 ELSE since
  /\ IF p # NoPacket
     THEN /\ pos = Words /\ since >= Space /\ sent < MaxPackets
          /\ packet' = p /\ pos' = 0 /\ sent' = sent + 1
          /\ Asks(p)
     ELSE /\ pos' = IF pos < Words THEN pos + 1 ELSE pos
          /\ UNCHANGED <<packet, sent, promised, written, running>>

(* data_in keeps its last word between packets. *)
DataValid == pos < Words
HeadIn    == pos = 0
TailIn    == pos >= Words - 1
-----------------------------------------------------------------------------
(* state_conf. *)
Distinguish ==
  /\ conf.state = "IDLE"
  /\ conf' = [conf EXCEPT !.wren = FALSE, !.rden = FALSE,
                          !.state = IF HeadIn THEN packet.type ELSE "IDLE"]

WriteSel ==
  /\ conf.state = "WR_SEL"
  /\ conf' = [conf EXCEPT !.sel = packet.sel, !.state = "DISCARD"]

(* Variant: the tag is set. *)
ReadSelSet ==
  /\ conf.state = "RD_SEL"
  /\ conf' = [conf EXCEPT !.tag = TRUE, !.state = "DISCARD"]

(* The answer is asked for by a change of the tag. *)
ReadSel ==
  /\ conf.state = "RD_SEL"
  /\ conf' = [conf EXCEPT !.tag = ~conf.tag, !.state = "DISCARD"]

(* Variant: the last word does not write. *)
WriteProgNoLast ==
  /\ conf.state = "WR_PROG"
  /\ conf' = [conf EXCEPT !.wren = ~TailIn, !.addr = packet.image[pos].to,
                          !.wdata = packet.image[pos].data,
                          !.state = IF TailIn THEN "IDLE" ELSE "WR_PROG"]

(* Every word after the head writes, the last one too. *)
WriteProg ==
  /\ conf.state = "WR_PROG"
  /\ conf' = [conf EXCEPT !.wren = TRUE, !.addr = packet.image[pos].to,
                          !.wdata = packet.image[pos].data,
                          !.state = IF TailIn THEN "IDLE" ELSE "WR_PROG"]

ReadProg ==
  /\ conf.state = "RD_PROG"
  /\ conf' = [conf EXCEPT !.rden = TRUE, !.addr = packet.to, !.state = "DISCARD"]

Discard ==
  /\ conf.state = "DISCARD"
  /\ conf' = [conf EXCEPT !.rden = FALSE, !.state = IF TailIn THEN "IDLE" ELSE "DISCARD"]

Configure == Distinguish \/ WriteSel \/ ReadSel \/ WriteProg \/ ReadProg \/ Discard

(* The processor runs while conf_sel is low: resetn & ~conf_sel. *)
CpuRuns == ~conf.sel

(* The core may store a word, or bytes of it, in the data RAM in each clock  *)
(* it runs; the port that reads its instructions does not write.            *)
NoStore == [to |-> Origin]
Stores  == {NoStore} \cup [to : [bank : {"data"}, index : Index], data : Data]

(* The configuration port writes both RAMs and reads the instruction RAM:   *)
(* the port of the data RAM leaves its output open.  A word both ports      *)
(* write is undefined, as any data of the store.                            *)
Ram(store) ==
  LET configured == IF conf.wren THEN [ram EXCEPT ![conf.addr] = conf.wdata] ELSE ram
  IN  /\ store # NoStore => CpuRuns
      /\ ram' = IF store = NoStore THEN configured
                ELSE [configured EXCEPT ![store.to] = store.data]
  /\ ramQ' = ram[[conf.addr EXCEPT !.bank = "instr"]]
  /\ rdata' = ramQ
  /\ stored' = (stored \ (IF conf.wren THEN {conf.addr} ELSE {}))
               \cup (IF store = NoStore THEN {} ELSE {store.to})

(* Variant: a clock early. *)
ReadPipeEarly ==
  LET popped == IF send.rdreq /\ buffer # << >> THEN Tail(buffer) ELSE buffer
  IN  /\ temp' = [r0 |-> conf.rden, r1 |-> temp.r0, a0 |-> conf.addr, a1 |-> temp.a0]
      /\ buffer' = IF temp.r0 THEN Append(popped, <<temp.a0, rdata>>) ELSE popped

(* Variant: nothing is taken out. *)
ReadPipeNoPop ==
  /\ temp' = [r0 |-> conf.rden, r1 |-> temp.r0, a0 |-> conf.addr, a1 |-> temp.a0]
  /\ buffer' = IF temp.r1 THEN Append(buffer, <<temp.a1, rdata>>) ELSE buffer

(* The address goes with the data into rdata_buffer. *)
ReadPipe ==
  LET popped == IF send.rdreq /\ buffer # << >> THEN Tail(buffer) ELSE buffer
  IN  /\ temp' = [r0 |-> conf.rden, r1 |-> temp.r0, a0 |-> conf.addr, a1 |-> temp.a0]
      /\ buffer' = IF temp.r1 THEN Append(popped, <<temp.a1, rdata>>) ELSE popped
-----------------------------------------------------------------------------
(* state_out: an answer is a head with its type, a word with the value and  *)
(* two more words.                                                          *)
SelAsked == send.tag # conf.tag

SendAnswer ==
  send' =
    CASE send.state = "IDLE" ->
           [send EXCEPT !.valid = FALSE,
              !.state = IF SelAsked \/ buffer # << >> THEN "SEND_HEAD_0" ELSE "IDLE"]
      [] send.state = "SEND_HEAD_0" ->
           [send EXCEPT !.valid = TRUE, !.rdreq = (IF SelAsked THEN send.rdreq ELSE TRUE),
              !.word = Word("head", "mem", IF SelAsked THEN "SEL" ELSE "PROG"),
              !.state = "SEND_HEAD_1"]
      [] send.state = "SEND_HEAD_1" ->
           [send EXCEPT !.rdreq = FALSE, !.tag = conf.tag,
              !.word = Word("body", "mem",
                         IF SelAsked THEN conf.sel
                         ELSE IF buffer = << >> THEN "none" ELSE Head(buffer)),
              !.state = "SEND_HEAD_2"]
      [] send.state = "SEND_HEAD_2" ->
           [send EXCEPT !.word = Word("body", "mem", "pad"), !.state = "SEND_HEAD_3"]
      [] send.state = "SEND_HEAD_3" ->
           [send EXCEPT !.word = Word("tail", "mem", "pad"), !.state = "IDLE"]

(* The network interface sends packets while the processor runs and is in   *)
(* reset with it: words 1 to Words, then it is silent and keeps its tail.   *)
SoftValid == soft \in 1 .. Words

Soft(start) ==
  /\ start => ~SoftValid /\ softs < MaxSoft /\ CpuRuns
  /\ soft' = IF ~CpuRuns THEN 0
             ELSE IF start THEN 1
             ELSE IF SoftValid THEN soft + 1 ELSE soft
  /\ softs' = IF start THEN softs + 1 ELSE softs

SoftWord ==
  IF soft = 0 THEN NoWord
  ELSE Word(IF soft = 1 THEN "head" ELSE IF soft >= Words THEN "tail" ELSE "body", "soft", soft)

(* Variant: the choice is a clock late. *)
MultiplexLate ==
  /\ mux' = [valid |-> send.valid \/ SoftValid, mem |-> send.valid,
             word |-> IF mux.mem THEN send.word ELSE SoftWord]
  /\ output' = IF mux.valid THEN Append(output, mux.word) ELSE output

(* pkt dmux: the source is chosen while nothing leaves. *)
Multiplex ==
  LET mem == IF mux.valid THEN mux.mem ELSE send.valid
  IN  /\ mux' = [valid |-> send.valid \/ SoftValid, mem |-> mem,
                 word |-> IF mem THEN send.word ELSE SoftWord]
      /\ output' = IF mux.valid THEN Append(output, mux.word) ELSE output

Clock(p, start, store) ==
  /\ Host(p)
  /\ Configure
  /\ Ram(store)
  /\ ReadPipe
  /\ SendAnswer
  /\ Soft(start)
  /\ Multiplex

Next     ==
  \E p \in Packets, start \in BOOLEAN, store \in Stores : Clock(p, start, store)
Spec     == Init /\ [][Next]_vars
FairSpec == Spec /\ WF_vars(Next)
-----------------------------------------------------------------------------
TypeOK ==
  /\ pos \in 0 .. Words /\ since \in 0 .. Space /\ sent \in 0 .. MaxPackets
  /\ conf.state \in {"IDLE", "WR_SEL", "RD_SEL", "WR_PROG", "RD_PROG", "DISCARD"}
  /\ conf.addr \in Address /\ conf.wdata \in Data
  /\ {conf.rden, conf.wren, conf.sel, conf.tag, send.valid, send.rdreq, send.tag} \subseteq BOOLEAN
  /\ ram \in [Address -> Data]
  /\ stored \subseteq [bank : {"data"}, index : Index]
  /\ Len(buffer) <= 1
  /\ send.state \in {"IDLE", "SEND_HEAD_0", "SEND_HEAD_1", "SEND_HEAD_2", "SEND_HEAD_3"}
  /\ soft \in 0 .. Words + 1 /\ softs \in 0 .. MaxSoft

(* Answers that begin in the first n words that left. *)
IsHead(word)     == word.mark = "head" /\ word.from = "mem"
Heads(words, n)  == Cardinality({k \in 1 .. n : IsHead(words[k])})

Matches(answer, request) ==
  /\ answer.type = request.type
  /\ IF request.type = "SEL" THEN answer.value = request.value
     ELSE /\ answer.value[1] = request.value[1]
          /\ request.value[1].bank = "instr" => answer.value = request.value

(* The answers are those the requests call for, in their order: the running *)
(* mode at the time of the request, and the word last written to the        *)
(* address.  A read of the data RAM is answered with the word of the        *)
(* instruction RAM: douta of the data RAM is not connected.                 *)
AnswersMatch ==
  \A n \in 1 .. Len(output) - 1 :
    IsHead(output[n]) =>
      /\ Heads(output, n) <= Len(promised)
      /\ Matches(Answer(output[n].value, output[n + 1].value), promised[Heads(output, n)])

(* When the host's last packet is done, the running mode is what its        *)
(* packets said, and so is each word of both RAMs that the core has not     *)
(* stored over since, whatever answers are on their way and whatever the    *)
(* core stores while the host writes.                                       *)
ConfigurationDone ==
  since = Space =>
    /\ CpuRuns = running
    /\ \A a \in Address \ stored : ram[a] = written[a]

(* Every request is answered. *)
EveryRequestAnswered ==
  \A n \in 1 .. MaxPackets : Len(promised) >= n ~> Heads(output, Len(output) - 1) >= n

(* um_for_cpu.v, line 18: "2'b01 is head, 2'b00 is body, and 2'b10 is       *)
(* tail".  What leaves is a sequence of packets, a head after each tail and *)
(* nowhere else, and a packet has one source.                               *)
PacketsWellFormed ==
  \A k \in 2 .. Len(output) :
    /\ output[k].mark = "head" <=> output[k - 1].mark = "tail"
    /\ output[k].mark # "head" => output[k].from = output[k - 1].from
=============================================================================
