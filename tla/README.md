# FL-M32: a TLA+ model of the timelyRV SoC

FL-M32 is a RISC-V micro-controller for time-sensitive networking, written in
Verilog, with its firmware in C.  This directory models the logic the project
itself has written around the third-party processor core (the data bus, the
interrupt path, the network interface, the path of a frame in and out, and the path by
which a host configures the chip) and the two TCP servers its firmware runs, on
uIP and on lwIP, each with its main loop, its timers and its echo application.  The reference is
`src/src/fpga/zynq_7020/timelyRV_v1.0` (called v1.0 below), the version for the
Zynq 7020, with the macros its `global_head.v` sets, and the software under
`src/src/software`.

Most modules are synchronous circuits.  Their models share one form: **a
step is one rising clock edge**, the VARIABLES are the registers (and the
contents of RAMs and FIFOs), a wire is an operator, `Clock(..)` is the
conjunction of what each `always` block does on the edge, and the inputs of the
clock (does a byte arrive, does software make its next access in this clock)
are quantified in `Next`.  Interleaving therefore appears as timing: which
inputs fall on which clock.  Software that touches
registers is a program counter that may stay where it is for any number of clocks.

The protocol stacks are single threaded (`NO_SYS`; the timer interrupt only counts),
so in their models **a step is one call from the main loop**: a packet handled to the
end with everything it sends, or one round of the timers over all connections.  The
hosts and a network that loses, repeats and reorders are the environment.

## 1. Inventory

| Part | State | Operations and interactions | What is hard | What makes it correct | Module |
|---|---|---|---|---|---|
| Load/store unit of cv32e40p, glue of `timelyRV_top.sv` | the access in EX, the counter of outstanding accesses | raises a request, counts grants and responses; sees RAM and all peripherals as one slave through OR gates | grants and responses carry no name; matched by position only | the counter equals the responses on their way; a grant and a response belong to the right access | `DataBus`, `ObiBus` |
| Data RAM (`mm_ram_modified.v`) | words, a pipeline of two clocks, a second port for the host | grants at once, answers two clocks later | answers overlap with those of peripherals | two answers never coincide | `DataBus`, `ConfMem` |
| `connect_bus.v` | one pulse per request and peripheral, ready and read data | makes a pulse from a held request | a second request right behind a grant has no edge | every command lands, every access is granted | `DataBus` |
| UART, RS485, LCD, CAN register interfaces | the valid line, the CAN bus cycle of 12 states | answer a pulse after 1 or about 20 clocks | CAN answers a read before it is ready for the next command | a command is carried out exactly once | `DataBus` |
| UART receive path | FIFO, pop one clock after the read | bytes arrive, interrupt while not empty | read and pop are two clocks apart; the interrupt is an edge of a level | no byte lost, doubled or forgotten | `IrqPath` |
| CAN interrupt generator (`can_top.v`) | tag and a counter of 1024 clocks | pulse on the falling line, repeated while it stays low | repeated while the first is still unserved | each frame handled | `IrqPath` |
| `interrupt_bus.v`, interrupt controller of the core, `irq.c`, `can.c` | last levels, pending bits, the handler | edges set, acknowledgements clear | an edge and an acknowledgement on one clock | as above | `IrqPath` |
| `gmii_to_134b_pkt.v` | accumulator, FIFO, packet counter, reader | 16 bytes to a word, head and tail marks, cut after 131 words | counts packets in one machine, words in the other; boundary lengths | frames come out whole, in order, each once | `GmiiTo134b` in `ReceivePath` |
| `procPkt.v`, `tapdev.c`, `riscvnetif.c` | two FIFOs, a dual-port RAM of two mailboxes, three machines | hardware and driver exchange mailboxes by tags in the RAM, which outlives a restart | RAM answers two clocks late; both sides write tags; no interrupt, software polls | packets intact both ways, a mailbox has one owner, both directions go on | `ProcPkt` |
| `conf_mem.v`, `um_for_cpu.v` multiplexer | request and answer machines, a buffer of words read, `conf_sel` | a host writes and reads the RAMs, starts and stops the core | requests handed over as a *change* of a bit; answers share the output with packets | answers match requests, answers leave whole | `ConfMem` |
| `pkt.v` (memPkt) | the register variant of `procPkt.v` | words through registers instead of RAM | count register read while packets arrive | packets intact | planned: `MemPkt` |
| `asyn_recv_packet.v`, `gmii_crc_check.v` | a FIFO of two clocks, a reader of three states, a shift register of four bytes | bytes of the PHY clock to the core clock; takes preamble and CRC off | the reader never looks at empty, across clocks whose phase moves; the shift register outlives a frame | frames whole, none runs into the next | `AsynRecv` in `ReceivePath` |
| `pkt_134b_to_gmii.v`, `gmii_crc_calc.v` | FIFO, dividing machine, CRC machine and register | words to bytes behind a preamble; appends the CRC | the CRC leaves during the pause of another machine; a FIFO without a full line; 32 equations by hand | frames whole with a CRC that receivers accept, no word lost | `PktToGmii` |
| UART line (`transmitter.v`, `receiver.v`, `baud_rate_gen.v`), `rs485.v` | bit and phase counters, direction line held 32 clocks | serial line | 1086 against 16 x 68 clocks per bit; the direction line against the last bit | bytes intact over accumulated drift | planned: `UartLine` |
| `pwm.v`, `lcd_part/` | counters; pixels | outputs | byte pairing over two clocks domains | | planned: `Pwm`, `Lcd` |
| picorv32 with `distance_measure` | pending interrupts, masks | alternative core and its firmware | pulses instead of levels; else-if chain of causes | no interrupt lost | planned: `PicoIrq` |
| uIP TCP server: `uip.c`, `echo_tcp.c`, loop of `main.c` | the table of connections, one packet buffer shared by input and output | a packet to `uip_input`, answers to `tapdev_send`; a periodic pass over all connections | no copy of what was sent is kept: the application makes it again; one segment outstanding; few slots | streams intact, what is acknowledged was read, slots come free and are not stolen | `Uip`, `TcpHosts` |
| Clock of the uIP firmware: `irq.c`, `clock-arch.c`, `timer.c` | the interrupt count, the starts of two timers | the interrupt counts, the loop asks whether a timer expired | a count of 16 bits against a start of 32 | timers keep expiring | `UipTimer` |
| lwIP TCP server: `tcp.c`, `tcp_in.c`, `tcp_out.c`, `echo.c`, loop of `main.c` | control blocks, the queue of early segments, heap and buffer pool, backlog count | a packet to `tcp_input`, `tcp_tmr` from the loop, callbacks of the echo application | overlaps with the queue at both ends, FINs within it; blocks taken over or given up below the application; buffers held by the queue | streams intact, the queue sorted, memory accounted for, half-open connections end, the pool comes free | `LwipTcp`, `TcpHosts` |

How the parts meet: the core reaches everything through the data bus; UART and
CAN reach the core through `interrupt_bus.v`; a frame goes PHY ->
`asyn_recv_packet` -> `gmii_to_134b_pkt` -> `um_for_cpu`, which gives type
0x9001 .. 0x9004 to `conf_mem` and the rest to the network interface; the
driver moves packets between mailbox and stack (one of the two, by the firmware that
is loaded); answers and packets meet in the
multiplexer and leave through `pkt_134b_to_gmii`.

`PROJECT.json` lists each part with its source files, and under `hazards` each
place where this code could go wrong in a way a test would hardly reach.

## 2. The modules

### ObiBus and DataBus
`ObiBus` is the promise of a bus to a load/store unit, without any hardware:
one access presented, accepted at most once, answered once, in order of
acceptance, at most `Depth` outstanding.  `DataBus` is the circuit.

| DataBus | code |
|---|---|
| `ex`, `LsuReadyEx`, `ExStage` | the instruction in EX and `lsu_ready_ex_o` |
| `cnt`, `LsuCount` | `cnt_q`, the `unique case` over `count_up`, `count_down` |
| `TransValid`, `Gnt`, `Rvalid` | the request line and the OR gates of `timelyRV_top.sv` |
| `mem0`, `mem1`, `MemPipe` | `temp_ready_data` of `mm_ram_modified.v` |
| `cmd`, `preWrRd`, `periReady`, `rdataSrc`, `ConnectBus` | `connect_bus.v` |
| `can`, `wait`, `canRd`, `CanStep`, `ReadWriteCan`, `valid`, `CanValid` | `read_write_can.v` |
| `Performs`, `PeriValid` | `uart_control.v`, `lcd_top.v` |
| `served` | history: how often the access in EX was carried out |

Data values, byte enables and addresses within a peripheral are left out, but
whether the decoder of a peripheral knows the register (`hit`).  `Program` is
the set of accesses software makes, `Spaced` says whether it leaves a cycle
between two accesses to one peripheral.  The refinement maps `req` to the
access in EX (while the counter lets it be presented) and `outst` to the targets
in the order their answers will come: the RAM word in the second stage of its
pipeline, the peripheral held in `peri_ready_o`, the RAM word in the first.

### IrqPath
`UartRegisters`, `CanChip`, `CanInterrupt`, `InterruptCtrl` and the two handlers
are the blocks of one clock.  The first-word-fall-through FIFOs are vendor
parts whose source is not in the repository; how the code uses them is modelled
and marked external: a FIFO shows its head some clocks after it was written,
`shown` is `~empty`.  The CAN controller is a chip outside the FPGA, modelled by the
registers `can.c` uses.  The program counter distinguishes the clock in which
an access takes effect (`Pulses`), which cannot be stretched.

### ReceivePath, AsynRecv and GmiiTo134b
`AsynRecv` (`asyn_recv_packet.v` and `gmii_crc_check.v`) and `GmiiTo134b`
(`gmii_to_134b_pkt.v`) are components without a specification of their own:
`ReceivePath` joins them as `soc_runtime.v` does, the GMII that the first puts out
(`gmiiOut`) being what the second takes in (`rx`), and one `Clock` moves both.

In AsynRecv `Write` is the writer on the clock of the PHY, `Read` the three states of
`stateRd` on the clock of the SoC, `Check` the shift register of `gmii_crc_check.v`,
`Line` what the PHY delivers: frames with a start delimiter, `Gap` clocks apart.  The FIFO of two
clocks is a vendor part.  The clocks differ by 200 ppm at most, a third of a
period over the longest frame; therefore a step is one clock of both, and the
phase is `late`: whether the reader sees a word in the clock after it is
written or one clock later, chosen anew for each word (the clocks that every word needs
through the FIFO only shift what the reader sees).  `Read` enters its
reading state without a look at the FIFO; the clock it spends in IDLE is all its
lead, and `FifosSound` shows that it is enough.

In GmiiTo134b `FirstWord`, `MoreBytes`, `EndOfFrame` and `RestOfFrame` are the states of
`stateAccu`, `PacketCount` the counter, `ReadPacket` the reading machine.  A
byte is (frame, index), so a word shows which bytes it holds.  `PacketsIntact` compares
what comes out with the frames on the line, not with what lies between the two circuits: each word is
a piece of a frame (`IsPiece`: its bytes in a row, its number of bytes, its mark), and each
goes on where the one before ended, with the same frame or, when that one is used up, with the next
frame of which anything is kept (`Continues`, `Opens`; `Kept` is the length without CRC, cut).

### PktToGmii
`Idle` .. `WaitClocks` are the states of `state_div`, `CrcIdle` .. `CrcOut` those of
`ctrl_state`.  A byte is the set of its bits.  `Taps` are the equations of
`next_crc`; the property compares them with the division by the polynomial of IEEE
802.3, which is defined independently (`Polynomial`, `Divided`).  `Source`
gives the packets of `um_for_cpu.v` at any distance that the FIFO, whose full line is open,
can bear: on average no faster than they leave, with `Burst` clocks of work waiting.
`Sizes` says what that asks of the FIFO: it holds any packet behind the words that may wait when it comes (`Waiting`),
which with 512 words and frames of 96 leaves 416 words for a burst; and a word of
up to 23 bytes takes no longer to leave than a frame costs beside its bytes.

### ProcPkt
`Receive` is the input stage with its length word, `CheckPkt` the machine of ten
states that looks at both mailboxes in turn, `SendPacket` the output,
`Memory` both ports of the RAM, `Read` and `Send` the accesses of the drivers of uIP
and lwIP, which are the same.  Where both ports meet in one word in one clock
the reader may see the old or the new value: the RAM is configured so that
neither is promised.  A RAM word carries (packet, index) or a number.

`Restart` is the fault model: `conf_sel` resets the interface and the program at any
point of an exchange, while the RAM keeps its tags, lengths and half of a packet, and
nothing clears them (`tapdev_init` does not touch the mailboxes).  What the
tags say is then the new program's: a packet whose tag is set is delivered, or sent,
once more or for the first time.  One assumption is about time and not in the code's logic: the
driver fills the send mailbox without a look at its tag, so the program's start must
take longer than hardware takes for a packet left there (some thousand clocks).

The network interface is off in the build as checked in (`PKT` is not defined in
`global_head.v`, `NUM_PERI` is 3); with it, `PKT_LWIP_UIP` chooses between
`procPkt.v` (modelled) and `pkt.v`.

### ConfMem
`Host` sends packets with a gap of at least `Space` clocks between heads;
`Configure` is `state_conf`, `ReadPipe` the registers that accompany a RAM read,
`SendAnswer` is `state_out`, `Multiplex` the choice at the output of `um_for_cpu.v`, `Soft`
a stand-in for the network interface as that choice sees it: packets of
`Words` words while the core runs.  The core is otherwise seen only by its stores: while it runs
(`CpuRuns`) any word of the data RAM may be written in any clock through the second port (`Stores`, `Ram`), also in the
clock in which the host writes the same word; the second port of the instruction RAM does not write.  `stored`
is where the core has stored since the host last wrote there, and `ConfigurationDone` promises nothing of these words.
A store of some bytes of a word counts as one of the word.  `data_in` keeps its last word between
packets, which is why a request of two words does not swallow the next one.  `written` is
what the images of all packets so far leave in each RAM (`Loaded`: the last word to an address
stays), `promised` the answers the requests call for.  `AnswersMatch` lets the n-th answer head that
leaves, with the word behind it, be the n-th of them (`Heads` counts the heads).

### TcpHosts
The environment of both servers; it models no code.  A host of `Peers` opens its
connections one after the other, sends a stream and a FIN, and may give up at any
time; `Arriving` is the set of segments that may reach the server now: **every** cut of
what the host has sent so far, with any number it has acknowledged, its SYN, and the resets of
a connection that is over; and all of these of every earlier connection too, as far as it had come (`past`,
`SegmentsOf`, `ResetsOf`).  Because nothing is ever taken out of the set, loss, duplication, delay, reordering and retransmission in other cuts are all
in it.  Answers are a set of at most `Wire` segments, from which any may be received,
again and again, or lost.  `Knockers` send SYNs and never answer.  A byte is its
sequence number, so a stream shows what was lost, doubled or misplaced.

### Uip
| Uip | code |
|---|---|
| `conns`, `Closed` | `uip_conns`, with history fields `got`, `base`, `age` |
| `Listen`, `Reset` | `uip_process` from `found_listen`, and the `reset` label |
| `RecvRst`, `RecvOutOfOrder`, `AfterAck` | the tests at `found`, before the switch on the state |
| `RecvInSynRcvd` .. `RecvInTimeWait`, `RecvFin` | the cases of that switch |
| `AppSend` | the call of the application and `appsend`, `apprexmit` |
| `Periodic`, `Timer`, `Rexmit`, `GivesUp` | `UIP_TIMER` of `uip_process` and the loop over `UIP_CONNS` in `main.c` |

One action is one whole path through `uip_process`, with its answer.  The two
shared features of uIP are in it: an answer is made in the buffer of the segment that
arrived, and while something is outstanding the length sent is the old one
(`AppSend`), so bytes the application did not write may go out (`Junk`).  The
application of MCUip may send or close whenever uIP allows it, which covers every
application that sends back what it gets; the echo application of the
repository is `Reactions = {"echo"}`.

The timer of a connection and the estimate of its retransmission time are `u8_t`: `TimerMod` is 256, `Rtos` any values
below it.  Nothing else is assumed of the estimate (`uip.c:1437-1454`), and this matters in FIN_WAIT_2, which begins with the timer
at the estimate (`:1751`), counts up and ends when the timer *equals* `TimeWait` (120): an estimate of 120 or more makes it
last until the timer has wrapped, up to 256 passes.  `HalfOpenEnds` promises that much and no less; TIME_WAIT,
whose timer starts at 0, ends after `TimeWait` passes.  `UipAssumption` asks that the back-off fits the timer, as 3 << 4 does.

### UipTimer
`TimerIrq` is the interrupt, `Periodic` a turn of the loop that finds no packet and
the timer expired.  `timer_set` is only called before the loop; `timer_reset` adds the
interval.

### LwipTcp
| LwipTcp | code |
|---|---|
| `pcbs`, `pending`, `heap` | `tcp_active_pcbs`, `accepts_pending`, the memory of echo_state |
| `Listen`, `ListenRefused`, `ListenReset`, `Allocated` | `tcp_listen_input`, `tcp_alloc` with `tcp_kill_prio` and `tcp_kill_state`, `echo_accept` with NULL |
| `RecvRst`, `RecvSyn`, `RecvInSynRcvd` .. `RecvInLastAck` | `tcp_process` |
| `AckPart`, `DataPart` | the two halves of `tcp_receive` |
| `FrontTrimmed`, `FitWindow`, `Swallow`, `OosInsert`, `Queued` | its cuts and `tcp_oos_insert_segment` |
| `InSequence`, `Consume`, `TakeQueued`, `Remaining` | the next segment, and the loop that takes the queued ones behind it |
| `EchoClose`, `Answered` | `echo_recv`, `echo_close`, `tcp_close_shutdown`, the end of `tcp_input` |
| `Aborted` | `tcp_abandon` with `tcp_pcb_remove`: the reset, and the ACK that was delayed |
| `Tmr`, `Fast`, `Slow`, `Backoff` | `tcp_tmr`, `tcp_fasttmr`, `tcp_slowtmr`, `tcp_backoff` |

What the application does bounds what the stack can reach: `echo.c` never sends data
(its `echo_send` waits for a state that nothing enters), never calls `tcp_recved`
and closes inside its receive callback.  So the server's segments carry only SYN, FIN
and ACK, the window never opens again, and CLOSE_WAIT is entered and left in one step.
Sending, the congestion window and the persist timer are therefore not modelled, nor is
active open, which nothing calls.  An early segment occupies one buffer of the pool
(`Held`), and without a buffer no packet comes in (`Input`), as in `riscvnetif.c`.

## 3. Runs

All properties of the passing runs are complete explorations of the given bounds.

| Run | States | What it shows |
|---|---|---|
| MCDataBus | 674 | UART, LCD, CAN and RAM, every legal program that is spaced: the counter is right, commands land, grants are unambiguous, `ObiBus` is implemented, every access is granted |
| MCIrqPath | 36,754 | three bytes, one of them the command '/', two frames: no byte lost or doubled, no byte or frame forgotten |
| MCReceivePath | 44,756 | all sequences of three frames of six lengths from the line to the packet words, every course of the phase of the two clocks: packets are the frames without preamble and CRC, no FIFO is read empty or written full |
| MCPktToGmii | 6,372 | three packets out, with their CRC |
| MCProcPkt | 112,779 | two packets in behind a slow driver, one out, all timings of the driver, with and without a buffer for a packet, a restart at every point and another packet out after it |
| MCConfMem | 54,916 | all sequences of three requests at every distance, and every store of the running core in between |
| MCConfMemMux | - | violation: an answer next to a packet of the network interface |
| MCUip | 611,480 | one slot, a host with two connections, the first of which may arrive again during the second, and one that never answers, the application free to send and close: streams intact, nothing acknowledged that was not read, slots come free in time and are not stolen |
| MCUipEcho | - | violation: a lost echo is not repeated as it was |
| MCUipTimer | - | violation: after the wrap of the count the timers do not expire |
| MCLwipTcp | 124,528 | one block, a host with two connections, the first of three bytes cut and ordered in every way and arriving again during the second, one that never answers: streams intact, the queue of early segments sound, memory accounted for; half-open connections end and the buffer pool never stays exhausted |
| MCLwipClose | - | violation: a FIN behind data is answered with a reset |

### Bounds and why they are enough
* **DataBus**: no bound; all counters have their real widths.  Two fast
  peripherals and one slow one cover each pair of kinds; the proofs cover every
  number.
* **IrqPath**: `Depth` = 2 of 512 bytes, so that three bytes overfill it;
  `Release` = 3 of 1024 clocks, so that several repetitions fall within one
  handler.  `MaxBytes`, `MaxFrames` bound arrivals: a byte behind a byte
  behind a pop, and a second frame that arrives at every point of the handler
  of the first, are the longest dependencies in the code.
* **ReceivePath**: a preamble of 3 (8) bytes and a gap of 2 (12) clocks are harder than
  what the line has: two bytes of preamble are the least that keeps the CRC of one
  frame out of the next.  Words of 3 (16) bytes, packets cut after 3 (131) words, a FIFO
  for 3: behind preamble and CRC the lengths leave nothing, less than a word, more than one,
  two full ones, a packet as long as can be and one that is cut.  The FIFO need hold
  only one packet because the reader is as fast as the line; three frames let the
  reader be behind by one.  A frame that leaves exactly one word, or a byte less, is excluded (see Findings).
* **PktToGmii**: words of 4 (16) bytes, last words of one byte, three and all; the
  bytes hold each bit alone, none and all, and 0xd5, which ctrl_state looks for.
  `Cap` = 2 of 512 is the least with which `FifoSound` holds, so its margin is
  tested.  The pause, the preamble and the CRC have their real widths.
* **ProcPkt**: packet words of 2 RAM words (4 in the hardware), mailboxes of
  8 (512): a packet of 5 words nearly fills a mailbox and has a last word that is half full.
  `Thr` and `Cap` keep the relation of 400 and 512: room for one packet
  and its length word above the threshold, and two packets behind a busy machine reach it.  `Sizes` states
  this relation for every value.  It holds for Ethernet frames; the 131 words at which
  `gmii_to_134b_pkt.v` cuts would be too many for mailbox and FIFO alike.  `MaxRestarts` is
  1: all that outlives a restart is the RAM, and one restart meets it in every state.
* **ConfMem**: two words in each RAM, packets of 4 words, `Space` = 6, the
  smallest distance that `gmii_to_134b_pkt.v` can produce (4 words and 2 clocks between
  packets), while a real frame takes 37 clocks or more.
* **Uip**: one slot, so that the table is full in every state of its connection and the
  second host competes for it; two connections of one host, one byte and a FIN, then a FIN alone, so that segments of
  each meet a slot of the other.  MCUipEcho has a stream of two bytes, which may come in one segment or in two.
  `MaxRtx` 2 (8), `MaxSynRtx` 1 (5) and `RTO` 1 (3) passes are the least values with which
  every branch of the timer is taken, the back-off among them.  `TimeWait` is 1 (120), the estimate 1 too and `TimerMod` 3 (256):
  FIN_WAIT_2 begins at the very value at which it would end and so lasts a whole turn, the worst case of the code.
  `HalfOpenEnds` is computed from these.  `Room` (the window) is wider than the streams: uIP's application
  takes each segment at once, and `Gap` 4 is the least distance of the two
  connections' numbers that keeps their segments apart.  `Wire` 1: with one answer under way and any number
  lost or repeated, a late answer still meets every later state of the host.  That with one slot
  there is no choice among several in TIME_WAIT is left to the theorem, which holds for any number.
* **LwipTcp**: a window of 4 (2144) bytes and a stream of three with its FIN, sent as every
  segment there is: early segments with gaps and overlaps at both ends, FINs in
  them, and the probe just beyond the window.  `Pool` 2 (16), so that early segments
  fill it.  `Gap` 6 keeps the numbers of the two connections further apart than the window, and
  `IdleMax` 3, where the time a connection has been idle stops, is behind every limit it is compared with.  `MaxRtx` 1 (12),
  `DupAcks` 1 (3), `SynTicks` 1 (40) and `FinTicks` 2 (240) let every timer
  go off.  The second connection carries no data because that is the one that can close
  (see Findings); it reuses the block while all of the first still arrives, and a server that has kept the first
  meets the second.  With one block `Oldest` has nothing to choose from; the theorems hold for any number.
* **UipTimer**: a count of 32 (65536) and intervals of 5 and 10 (500 and 10000); the theorems below
  speak of every value.

### Fairness
`WF_vars(Next)` says that the clock runs; nothing else is needed in circuits.
With software there is one more condition, that the program goes on
(`WF_vars(Next /\ pc' # pc)` in IrqPath, a `Clock` with `driver' # driver` in
ProcPkt, whose `Restart` has no fairness): the core has no other work that could keep it from its handler for
ever, and the main loop of both stacks polls the interface.  IrqPath also
assumes that the FIFO shows what was written at last.  In ProcPkt no fairness
between receiving and sending is assumed: `Read` and `Send` stay a free choice.

LwipTcp assumes `WF_vars(Tmr)`: the loop of `main.c` turns, each of its calls
returns, and the timer interrupt, which picorv32 reloads by itself
(`picorv32_simplified.v:622-626`), comes back.  The loop tests and clears a flag that
the interrupt sets, so single ticks may merge; that they keep coming is all that is used, and
the hosts may be as busy as they like between two.  `HalfOpenEnds` and `HearsAgain` rest
on it.  In Uip the loop serves timers only in a turn without a packet, so hosts that never
pause starve them; `HalfOpenEnds` is therefore counted in passes, an invariant without
fairness.  UipTimer, whose run shows a violation, assumes that interrupts come and that the
loop is not kept busy for ever: the timers fail even so.

### Findings
Four runs exhibit disagreements between the code and what it or its comments
say; `PROJECT.json` quotes the lines.  In short:
1. MCConfMemMux: the multiplexer mixes answers and packets (`um_for_cpu.v:356`).  `MCConfMem` has the core
   stopped or not sending, which is how the host tool uses it;
2. MCUipEcho: `echo_tcp.c:46` sends only on new data.  uIP keeps no copy of what it sent and asks
   for it again (`uip_rexmit`, `uip.h:695-698`: "the exact same data"); the echo server sends
   nothing then, or the bytes that have just arrived under the old numbers;
3. MCUipTimer: `clock-arch.c:52` reads an `unsigned short`, the timers compare it as an `int`
   (`timer.c:55-57`, `:123`); after 65536 interrupts `uip_periodic` is never called again.  `PeriodicEnds`
   proves that it is called 131 times at most;
4. MCLwipClose: `echo.c` never confirms what it read (`tcp_recved`), so `tcp_close` resets every
   connection that carried data (`tcp.c:353`), where `echo.c:38-39` says it "passively closes".

Visible in the hardware's source without a run of its own:
* back-to-back accesses to one peripheral: the second request has no edge, no command is sent and
  the core waits for ever (`connect_bus.v:72`; MCDataBus with `Spaced = FALSE` shows it).
  Software escapes because compiled code mostly leaves a cycle between them;
* a UART register that the table of `uart_control.v:47-73` lists and its decoder does not
  know is never answered (`hit` in DataBus);
* the CAN interrupt is repeated while the line stays low (`can_top.v:95`), where line 87-88 says "only
  one interrupt once"; harmless, the second handler finds no cause, and the repetition is what makes
  `EverythingHandled` true (the mutant without it loses frames);
* `to_recv_can` (`can.c:189`) releases the receive buffer also when the frame was not read;
* a frame that leaves exactly 16 bytes, or 15, is "discarded" (`gmii_to_134b_pkt.v:124`) and counted as a packet
  (`:116`): a runt frame, which MCReceivePath leaves out (with 7 in `MCLengths`
  `FifosSound` is violated);
* a frame without 0xd5 is not ended by its separator in `asyn_recv_packet.v:92`;
* packets of more than 2040 bytes run from one mailbox into the other (`procPkt.v:156`);
* the data RAM cannot be read back (`mm_ram_modified.v:83`), so
  `AnswersMatch` speaks of the instruction RAM; `conf_mem.v:56-57` describes the values of `conf_sel`
  the other way round than the code, in which 1 holds the core in reset;
* `conf_sel` resets the core and not the bus (`timelyRV_top.sv:104`); answers to accesses of before are
  gone by the time it is cleared, since two requests of the host are at least 37 clocks apart and the slowest
  answer takes about 20;
* a packet that is leaving when `conf_sel` is set is cut short: its tail never comes, and
  `pkt_134b_to_gmii.v`, which does not look at empty within a packet, sends until the tail of the next one;
* the handlers of `firmware_cv32e40p/custom/irq.c:53` are plain functions that end in an inline `mret`;
* `gmii_to_134b_pkt.v:14` says that the invalid part of a last word is zero, where it
  holds older bytes; frames leave ten clocks apart, where the standard asks twelve (the
  pause of 14 less the four bytes of the CRC); a host that sent some
  thousand requests without a pause would be answered faster than the answers can leave; the
  full line of the FIFO in `pkt_134b_to_gmii.v` is not connected.

And of the two servers:
* the lwIP server echoes nothing, although it is an echo server: a state that lets it send
  is never entered, and a client that has sent exactly the 2144 bytes of the window cannot even
  have its FIN accepted;
* `ret_err` in `echo_recv` is returned uninitialised when data arrived; at `-Os`, which the Makefile
  sets, the compiler folds it into ERR_OK, and the model takes that build;
* when no control block is free the accept callback is called with NULL (`tcp_in.c:663-669`) and
  `echo_accept` leaks an `echo_state` (`leaked`, in `Accounted`); when the heap is used up every
  new connection is reset;
* `PBUF_CHECK_FREE_OOSEQ`, which `pbuf.h:260-262` asks for without an operating system, is never
  called; `HearsAgain` shows that the timer of `tcp_slowtmr` suffices;
* `main.c` calls `tcp_tmr` alone, and far less often than every 250 ms; `etharp_tmr` and `ip_reass_tmr` are
  never called, so address entries do not age and the fragments of an incomplete datagram keep their
  buffers; the `firmware.elf` beside it is of an older `echo.c`;
* uIP drops a FIN that arrives while its own data is outstanding (the host repeats it), throws away
  data that comes with a FIN or after `uip_close` though it acknowledges it (`AcksHonest` counts it as
  taken), and enters FIN_WAIT_2 without starting its timer anew: answers so slow that the estimate has reached 120
  passes keep the slot until the `u8_t` has wrapped;
* `uip_arp_out` replaces a packet to an unknown address by a request: for TCP a lost segment.

## 4. Proofs

`DataBus_proofs` proves, for every set of peripherals of both kinds, every
`Program` and both values of `Spaced`, from the assumption `Targets` alone:

* `TypeCorrect`: `Spec => []TypeOK`;
* `Inductive`: `Spec => []IInv`;
* `CountCorrect`, `CommandsCorrect`, `GrantsCorrect`: the three safety invariants
  of MCDataBus;
* `Refinement`: `Spec => ImplementsObi`.

None of the three invariants is inductive.  That the counter equals the answers
in flight can only be kept if no peripheral answers an access that is not
there, for which one has to know where the CAN interface, the command, the grant and
the response of the one access in EX can be at the same time.  `IInv` says it:
`CommandInv` (a command on its way is for the access in EX, not yet carried
out, with nothing else in flight), `AnswerInv` (a valid line belongs to it, carried out once,
and CAN is then in IDLE or at the sixth wait of CLK_13), `CanInv` (CAN is at work
for it up to the answer; in CLK_13 and CLK_14 behind the answer no command can be coming,
because `connect_bus.v` needs two clocks to send one) and `FreshInv` (a request in its first
cycle has not been carried out; with two accesses outstanding the one in EX
is for the RAM).  `Working` names the situation the first three share.  The step
has one lemma per conjunct (`CountStep`, `CommandStep`, `AnswerStep`, `CanStepInv`,
`FreshStep`), on `PeriGntMeans` (a peripheral grant leaves nothing in flight),
`HeldCycle` (a request not granted stays) and `WorkGoesOn`.  The refinement adds
what the queue of `ObiBus` does when it is answered (`QueueAnswered`) and extended
(`QueueAccepts`).

`IrqPath_proofs` proves, for every depth of the receive FIFO, every release time and any number
of bytes and frames, from `Bounds` alone:
* `TypeCorrect`;
* `BytesIntact`: `Spec => []NoLossNoDup`, and `BytesCovered`: `Spec => []IrqCoversBytes`;
* `Inductive`: `Spec => []IInv`, which both rest on.

`NoLossNoDup` is not inductive: the pop comes a clock after the read, and only stays right because
`rden_rx` rises with a read that showed a byte, the program is then in the clock behind that read
(a bus access lasts one clock) and the byte is still the head, which an arrival cannot change
(`PopInv`).  `IrqCoversBytes` is not inductive either: a handler that has read Empty will return, so a
byte that appeared since must have its edge yet to be seen or its interrupt pending (`EmptyInv`);
the acknowledgement cannot take that away, because it falls on the clock in which the handler is
entered.  There is one lemma per part (`TypeStep`, `PopStep`, `BytesStep`, `IrqStep`), on `Goes` (what
the program does around a read) and on facts about sequences (`HeadMoves`, `ConcatAppend`,
`AppendNonEmpty`).  That the bytes are all handled in the end (`EverythingHandled`) is liveness and
stays with the run.

`Uip_proofs` ends with the timers (UipTimer, as `Clock`): for every width of the count and both intervals,
* `ClockTypeCorrect`: `Clock!Spec => []Clock!TypeOK`;
* `PeriodicEnds`: `Clock!Spec => []Clock!PassesBounded`, that is, `uip_periodic` is called fewer than
  `CountMod / Interval` times in the life of the firmware.  A timer that expires has its start and
  interval below the count, so below the wrap (`ExpiredBelowWrap`); its new start is therefore below it
  too, and each pass has moved it by `Interval`.  `PassesBounded` with `TypeOK` is inductive.

`ReceivePath_proofs` proves, for every length of preamble from two bytes, every gap from two clocks,
all lengths of frames and any number of them, words and packets of any size, from `Sizes` alone:
* `ReaderAhead`: inside a frame the reader of `asyn_recv_packet.v`, which does not look at `empty`, never
  takes a word that is not there, however the phase of the clocks moves, and `asfifo_recv_data`, whose
  `full` is not connected, never has more than three of its 1024 words;
* `PathInvariant`: `Spec => []PathInv`, on which the other three rest;
* `FifosNeverRunOver`: `Spec => []FifosSound`;
* `PacketsAreIntact`: `Spec => []PacketsIntact`;
* `TypeCorrect`: `Spec => []TypeOK`, with `cnt_pkt_fifo` below the wrap of its eight bits.

That the reader is ahead in one clock says nothing of the next: the FIFO could hold one byte and the writer
be between two frames.  The proof therefore knows what the words are (`Kind`: a byte of a preamble, its 0xd5,
a byte, a separator) and which may follow which: `WriterInv` says so of the register before the
FIFO, from where the line is in its frame, `StreamInv` of the words in the FIFO, and
`ReaderInv` that the reader has two of them, or the last one is its separator, after which
it stops.  The writer's step (`WriteStep`, `WriterStep`) rests on `RxdKind`, the others (`FifoStep`,
`StreamStep`, `ReaderStep`) on `Shifted`, a fact about sequences.  The gap of two clocks is what keeps
a preamble from hiding a separator.

The rest follows the bytes.  `WordsInv` numbers the bytes in `asfifo_recv_data` and says which frame they
are of (`Done` counts the frames whose separator has been read).  `PipeInv` ties the four stages of the shift
register and `gmii_out` to the byte in `tx`: within a frame they hold the bytes before it, at its end the
four bytes of the CRC, and between two frames nothing of the earlier one is let through; two bytes of preamble are what
that takes.  `AccuInv` ties the state of `state_accu`, its
count of words and its place in the word to the number of the byte that comes (`Place`), so a last
word is as long as what is left of the frame.  `FifoInv` has the words in `fifo_134b` as whole packets from
head to tail with at most one open at the end, and `ReadInv` ties `cnt_pkt_fifo` to the tails among them,
less what is under way between the registers; so a reader that is not idle has a whole packet before it.
`RoomInv` is the reason why nobody needs to look at `full_pkt`: it is about rates.  A word takes more than two clocks
to come and one to go, so with `2 * Whole + Filled + Credit <= 2 * T + 2` (words of complete packets not
read yet, bytes of the word that is growing, the two clocks the reader may lose between packets) a complete
packet can wait only while the next one is short, and the FIFO never needs more than one packet and
a word.  `RangeInv` bounds the registers of the first half.

`PacketsIntact` speaks of the words that have come out; inductive is only what holds of all words from there
back to the register that is written now.  `Stream` is that sequence (`got`, `pkt_data`, the FIFO,
`din_pkt`), `InOrder` says of it what `PacketsIntact` says of `got`, `LatestInv` how its last word relates
to the frame in `state_accu` (all frames before are complete in it: `UpTo`; or it ends at the last full word
of this one; or at the cut) and `TagInv` that `pkt_tag` holds the bytes behind that word.  `StreamGrows` shows that a
clock only appends the word that is written, `DataStep` that this word continues the last, with `PieceOf`
and `Products` for the arithmetic of words and `KeptOf`, `OrderKeeps` for frames that the line adds meanwhile.

`Sizes` excludes frames that leave one word or a byte less (a frame of Ethernet has 64 bytes, and MCReceivePath shows what a
runt does), and asks for room for one packet and fewer than 255 words in it (131, of 512).

`ProcPkt_proofs` proves, for packets, words, mailboxes and FIFOs of every size that `Sizes` allows, any
traffic, any pace of the driver and any number of restarts:
* `TheMailboxIsOwned`: `Spec => []MailboxOwned`;
* `ReceiveFifoIsSound`, `NoFifoRunsEmpty`: `Spec => []ReceiveFifoSound`, `Spec => []FifosSound`;
* `PacketsAreReceivedIntact`: `Spec => []ReceivedIntact`, `PacketsAreSentIntact`: `Spec => []SentIntact`;
* `TypeCorrect`, and `Invariant`, `PacketsInOrder`, `SendInvariant`, `PacketsLeaveInOrder`: the invariants these rest on.

`MailboxOwned` is about one clock, and a tag is read two clocks before it is used.  `MInv` therefore says
what each machine knows at each step: `TagInv` that what is in the pipeline of the RAM is no older than what
the other side has made of the tag (a tag that says "yours" stays so until its owner has acted, so
an old value errs on the safe side), `AccessInv` where hardware writes in which state, `CopyInv` where the copy
is in the packet and that the word it needs is there, `FifoInv` and `LineInv` that the FIFO holds packets
with their length words but for what is still to come, with room for it.  A restart keeps `MInv` because it leaves
the RAM and puts both machines where they know nothing.

`ReceivedIntact` is not inductive: it looks at packets the driver has finished.  `RInv` gives every packet that was
taken its turn: in the FIFO (`OrderInv`), under way into the mailbox or in it, a word at a time (`LengthInv`,
`MailInv`), and in the driver's buffer up to the word it has read (`ReadInv`).  `Start` is what `Init` and
`Restart` share: a packet whose tag is set is the first for the new program.

`SInv` does the same for sending, up to the FIFO: `SendMailInv` (the mailbox is what the driver fired),
`SendOrder` and `OpenInv` (the FIFO holds whole packets and at most one open at the end), `CountInv` (the
packet count equals the tails, less what the registers have under way) and `RoomInv`, again about rates: at most one word comes in
`Q` clocks, and one leaves in each, so a FIFO that has a complete packet in it is being emptied.  With `DataInv`, the
ranges of the numbers in the RAM and of the words, this gives `TypeCorrect`.  Assumed of the surroundings are a gap of two clocks between packets,
as `gmii_to_134b_pkt.v` leaves it, that a packet fits a mailbox and, above the threshold, the
FIFO (400 words and the 96 of the longest frame, of 512), and `Cap < Thr + 255`, so that the count of packets in eight bits does not wrap.

`SentIntact` compares the words with what was fired, one with the next (`IsPiece`, `Continues`), so that no fold is
in the way of the provers.  Its invariant `TInv` is about `Stream`: the words that have left, leave, wait and are pushed.
`BoxInv` has the packet in the mailbox as far as the driver has filled it, `PipeInv` says which of its words the two
registers behind the RAM and the word under construction hold (`Place`), and `LatestInv` that the stream
ends at that place, or, while nothing is read, with the packet fired last, but for the one the tag still
owes (`Owed`: from the store that sets the tag to the clock in which hardware takes it back).  `StreamGrows`
shows that a clock only appends the word that is pushed, `PieceOf` and `OrderAppends` that this word goes on.

`ConfMem_proofs` proves, for RAMs and images of any size and any number of packets at any distance from
`Words + 2` clocks on:
* `ConfigurationIsDone`: `Spec => []ConfigurationDone`, for any stores of the core while it runs, and `TypeCorrect`;
* `AnswersAreRight`, `PacketsAreWellFormed`: `AnswersMatch` and `PacketsWellFormed`, under `MaxSoft = 0`, that is,
  while the core sends nothing.  The condition is needed: MCConfMemMux shows how answers and packets mix without it;
* `Invariant`: `Spec => []IInv`.

`ConfigurationDone` holds only when a packet is over; in between, `RamInv` says what the words still to come will
write (`Comes`): an address none of them goes to has its final word already, or one of the core if it is in `stored`, another gets it from
the last of them.  `ConfInv` and `ReadInv` give the registers of `state_conf` and of a read from the kind of
packet and the clocks since its head.  Answers are a matter of timing: a request is handed over as a change of a
bit, so one that came before the last was begun would be lost.  `SendInv` shows that the
answer to the last packet is under way before the next one can ask, `AskedInv` that what it will contain has
arrived when it is read, `DueInv` that the answers begun and the one due are as many as promised, and
`LeavesInv` (`MarkInv`, `PlaceInv`, `AnswerInv`) takes this through the multiplexer to the
words that leave.

`PktToGmii_proofs` proves, for packets of any contents and lengths above one word, any distance between
them that `Source` allows and every size that `Sizes` allows:
* `CrcIsTheDivision`: `NextCrc(register, byte) = Divided(register, byte)`, the equations of `gmii_crc_calc.v` and the
  division of IEEE 802.3, for all 2^32 registers and 256 bytes;
* `FifoIsSound`: `Spec => []FifoSound`;
* `FramesAreRight`: `Spec => []FramesOnWire`;
* `TypeCorrect`: `Spec => []TypeOK`, and `Invariant`: `Spec => []IInv`, on which the three rest.

The equations are compared bit by bit: `TapsArePowers` turns `Taps` round (bit `i` takes bit `j` of the
byte where `i` is in the remainder of the power `32 + j` of x), and `Parity` writes the parity of eight bits as
their sum.  The same lemma gives `CrcByte0` .. `CrcByte3`: what is left of any register when its own
complement is divided byte by byte, in the end `Remainder`.  `FifoSound` is about rates.
With `f[k]` the clocks and `g[k]` the words of the first `k` packets (`Sums`) and `a` the words taken so
far, `RateInv` says that the clocks of all packets that came are spent, left of the packet under way (`Left`) or due;
`RoomInv`, that the words before the packet that comes are at most `Waiting` more than those taken; and `AheadInv`,
that a packet which is divided while it still comes is ahead of the machine.  Which words
are in the FIFO is `WordsInv`, and what the counters of `state_div` say of the packet is `DivInv`.  From a
word in the FIFO to the wire there are two more registers: `BusyInv`, `WaitInv` and `IdleInv` have
`gmii_data` one byte and the CRC machine two bytes ahead of the wire, with the register of the CRC
machine one byte ahead of that of the receiver, and through `WAIT_S`, where the CRC leaves.  The proof has one lemma for each of
these, on `DivMoves`, which says what `state_div` can do in a clock.

`Uip_proofs` proves, for any number of slots, hosts, connections and bytes, and
any loss, repetition and reordering, from `HostsAssumption` and `UipAssumption`:
* `StreamIsIntact`: `Spec => []StreamIntact`, `AcksAreHonest`: `Spec => []AcksHonest`;
* `SlotsAreNotStolen`: `Spec => SlotsNotStolen`, an action property;
* `HalfOpenConnectionsEnd`: `Spec => []HalfOpenEnds`, that a connection which hears nothing is gone
  after the number of passes the constants give, in FIN_WAIT_2 after one turn of the timer, for every estimate a `u8_t` can hold;
* `TypeCorrect`, and `Invariant`: `Spec => []IInv`, on which the others rest.

That the application gets the stream rests on what may arrive: every segment is a cut of a host's stream
(`ArrivingOk`), of its present connection or of any earlier one, so one that begins at `rcv_nxt` continues the
stream of the connection whose numbers these are.  That no byte is acknowledged which was not
taken concerns `rcv_nxt` of all slots and the answers under way, of this connection and earlier ones
(`Confirms`), and the hosts, which advance on those answers.  `HalfOpenEnds` needs `WInv`: how long a connection has waited,
as a function of its retransmission count and timer (`Waits`), since the passes it has left depend on both; in the two
states that count up, what is left is the distance from the timer to `TimeWait` modulo `TimerMod` (`Left`).
Its first lemmas are about the environment of TcpHosts alone (what the hosts have sent, which numbers
they hold, `MinIn` for the least of them).

`LwipTcp_proofs` proves, for every window, pool, heap, backlog, every set of hosts, their streams and
every cut of them into segments, every timer and limit, from `HostsAssumption` and `LwipAssumption`,
* `StreamHolds`: `Spec => []StreamIntact`;
* `OoseqHolds`: `Spec => []OoseqSound`, what the asserts of `tcp_receive` rely on;
* `AccountedHolds`: `Spec => []Accounted`;
* `TypeCorrect`, and `InvHolds`: `Spec => []LInv`, on which the others rest.

One condition in `LwipAssumption` is more than a range: `Wnd <= Gap`, that the window ends before the
numbers of a host's next connection begin (the code has 2144, and initial numbers that grow with time).
None of the three properties is inductive alone.  What is read in order later lies in the queue now, so
`StreamIntact` needs `OoseqSound`; that is not enough, because
the queue must hold segments of *one* stream: a host that gave up and connects again, while the server still keeps
its old connection, sends segments that would be sorted in by their number.  `LInv` therefore names the
host's connection a block belongs to (`k` in `ConnOk`), which is the present one or an earlier one, and
bounds the queue by the end of that stream and by the right edge of the window, which stays at
`base + Wnd` because the application confirms nothing.  Whatever arrives of another connection of that host is outside: of a newer one it
lies beyond that edge (`Wnd <= Gap`), of an older one it ends at `base` or before (`Apart`), so nothing foreign can get in.  The lemmas follow the functions of
`tcp_in.c`: what a cut leaves (`PieceOfData`), what `OosInsert` and `Queued` do to a queue
that is sorted and without overlaps, what `TakeQueued` has taken after each step of its loop (an induction
over the steps, with the property given as a set, `NatInduct`), then one lemma for each state
of the connection, for the timers and for the actions.  `Accounted` rests on the cardinality of the sets of blocks in a
state, of which a step changes at most one block or, in `Listen`, two, and `Held <= Pool` on a set of
pairs of block and place in the queue.

Only model-checked is
all liveness (`EveryAccessGranted`, `AllPacketsOut`, `HalfOpenEnds` of LwipTcp, `HearsAgain` and the like): fairness and ENABLED are out of
the prover's reach, as is what a recursive or folded definition computes for
every input.

## 5. Not modelled, and why

* the cv32e40p and picorv32 pipelines: third party; of the first, the load/store unit and
  the interrupt selection are modelled because the SoC rests on them;
* of uIP: active open, stop and restart, urgent data, UDP, ICMP, fragments and `uip_arp.c`, which the
  echo server does not use or which answer each packet without a state that matters to it;
* of lwIP: sending of data, active open, options, UDP, ICMP, ARP, fragments, and the many parts that
  the build does not link (`sockets.c`, `ppp`, `ipv6`, the other `apps`); the memory managers are
  taken to do what they say, and what they have room for is `Pool` and `Heap`;
* a host that sends beyond the window on purpose: its FIN stays within it, but for the one-byte probe;
* vendor FIFOs, RAMs, clock and RGMII primitives: external, modelled from their use;
* pixel timing, fonts, PWM waveforms, formatting over UART: layout and wording;
* other versions of the FPGA project (earlier boards and the ASIC-like copies)
  repeat the same modules.

## 6. Plan

Done: ObiBus, DataBus, IrqPath, ReceivePath (AsynRecv, GmiiTo134b), ConfMem, Uip with TcpHosts and UipTimer, and
ProcPkt, PktToGmii and LwipTcp, each with proofs of its safety properties.  Next, in this order:

1. `MemPkt` (`pkt.v`), against the same abstract mailbox as ProcPkt;
2. `UartLine` with RS485: drift of the two baud rates over a byte; `PicoIrq`, `Lcd`, `Pwm`;
3. `uip_arp.c`, `etharp.c` and `ip4_frag.c` between the servers and the driver.
