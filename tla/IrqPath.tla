------------------------------ MODULE IrqPath -------------------------------
(***************************************************************************)
(* The interrupt path of timelyRV v1.0: the receive FIFO and registers of  *)
(* uart_control.v, the interrupt generator of can_top.v behind a CAN       *)
(* controller chip, the edge detector of interrupt_bus.v, the interrupt    *)
(* selection of the cv32e40p and the two handlers of firmware irq.c.       *)
(* A step is one clock; the processor may spend any number of clocks       *)
(* between two accesses of its program.                                    *)
(***************************************************************************)
EXTENDS Naturals, Sequences

CONSTANTS
  Depth,      (* bytes the receive FIFO holds (512 in the hardware)           *)
  Release,    (* clocks until can_top raises its interrupt again (1024)       *)
  MaxBytes,   (* bytes that arrive on the UART line: a bound of the model     *)
  MaxFrames,  (* frames that arrive on the CAN bus: a bound of the model      *)
  ToRecv      (* the bytes that are the command '/' (to_recv_can)             *)

ASSUME Bounds ==
  /\ Depth \in Nat \ {0} /\ Release \in Nat \ {0}
  /\ MaxBytes \in Nat /\ MaxFrames \in Nat
  /\ ToRecv \subseteq 1 .. MaxBytes

VARIABLES
  arrived,    (* bytes that have arrived so far                               *)
  accepted,   (* history: those the FIFO had room for                         *)
  delivered,  (* history: those the UART handler has read                     *)
  rx, shown,  (* the receive FIFO and whether it shows its head (~empty_rx)   *)
  rden,       (* rden_rx                                                      *)
  result,     (* dout_32b_o: the byte read or Empty (0x80000000)              *)
  came,       (* frames that have arrived so far                              *)
  frames, ri, (* the CAN controller: frames in its receive FIFO, receive bit
                 of its interrupt register                                    *)
  tag, count, (* tag_has_gen_irq_can and cnt_to_release of can_top.v          *)
  canIrq,     (* interrupt_o of can_top.v                                     *)
  pre,        (* irq_pre of interrupt_bus.v                                   *)
  irq,        (* irq_o of interrupt_bus.v                                     *)
  irqQ,       (* irq_q of the processor's interrupt controller                *)
  pc,         (* where the program is                                         *)
  sawRi       (* can_interrupt & 1 in can_irq_handler                         *)

uart == <<arrived, accepted, delivered, rx, shown, rden, result>>
chip == <<came, frames, ri, tag, count, canIrq>>
cpu  == <<pre, irq, irqQ, pc, sawRi>>
vars == <<uart, chip, cpu>>

Empty   == 0
Sources == {"UART", "CAN"}

(* "app" runs with interrupts enabled; the others belong to a handler. The  *)
(* program is in a state named ..Cmd for the clock its access takes effect. *)
Places == {"app", "uartEntry", "uartCmd", "uartPop", "uartGot", "toRecvCmd",
           "canEntry", "irCmd", "irGot", "recv", "releaseCmd", "canDone"}

Pulses == {"uartCmd", "uartPop", "toRecvCmd", "irCmd", "releaseCmd"}
-----------------------------------------------------------------------------
Init ==
  /\ arrived = 0 /\ accepted = << >> /\ delivered = << >>
  /\ rx = << >> /\ shown = FALSE /\ rden = FALSE /\ result = Empty
  /\ came = 0 /\ frames = 0 /\ ri = FALSE
  /\ tag = FALSE /\ count = 0 /\ canIrq = FALSE
  /\ pre = [s \in Sources |-> FALSE]
  /\ irq = [s \in Sources |-> FALSE]
  /\ irqQ = [s \in Sources |-> FALSE]
  /\ pc = "app" /\ sawRi = FALSE

(* can_int_n is low. *)
IntLow == ri

(* irq_i of interrupt_bus.v. *)
Line(s) == IF s = "UART" THEN shown ELSE canIrq

(* The interrupt the processor takes next: the higher number wins, CAN is   *)
(* 17 and UART 16.                                                          *)
Takes(s) ==
  /\ pc = "app"
  /\ irqQ[s]
  /\ s = "UART" => ~irqQ["CAN"]
-----------------------------------------------------------------------------
(* Variant: a read of the empty FIFO pops as well. *)
UartRegistersPopEmpty(byteIn) ==
  LET room   == Len(rx) < Depth
      popped == IF rden /\ shown THEN Tail(rx) ELSE rx
  IN  /\ arrived' = IF byteIn THEN arrived + 1 ELSE arrived
      /\ rx' = IF byteIn /\ room THEN Append(popped, arrived + 1) ELSE popped
      /\ accepted' = IF byteIn /\ room THEN Append(accepted, arrived + 1) ELSE accepted
      /\ shown' \in IF popped # << >> /\ shown /\ ~rden THEN {TRUE}
                    ELSE IF rx' = << >> THEN {FALSE} ELSE BOOLEAN
      /\ rden' = (pc = "uartCmd")
      /\ result' = IF pc # "uartCmd" THEN result
                   ELSE IF shown THEN Head(rx) ELSE Empty

(* Variant: the FIFO never says it is full. *)
UartRegistersNoFull(byteIn) ==
  LET room   == TRUE
      popped == IF rden /\ shown THEN Tail(rx) ELSE rx
  IN  /\ arrived' = IF byteIn THEN arrived + 1 ELSE arrived
      /\ rx' = IF byteIn /\ room THEN Append(popped, arrived + 1) ELSE popped
      /\ accepted' = IF byteIn /\ room THEN Append(accepted, arrived + 1) ELSE accepted
      /\ shown' \in IF popped # << >> /\ shown /\ ~rden THEN {TRUE}
                    ELSE IF rx' = << >> THEN {FALSE} ELSE BOOLEAN
      /\ rden' = (pc = "uartCmd" /\ shown)
      /\ result' = IF pc # "uartCmd" THEN result
                   ELSE IF shown THEN Head(rx) ELSE Empty

(* FIFO and register read: a read shows the head or Empty and pops the head *)
(* one clock later; a full FIFO drops the byte.                             *)
UartRegisters(byteIn) ==
  LET room   == Len(rx) < Depth
      popped == IF rden /\ shown THEN Tail(rx) ELSE rx
  IN  /\ arrived' = IF byteIn THEN arrived + 1 ELSE arrived
      /\ rx' = IF byteIn /\ room THEN Append(popped, arrived + 1) ELSE popped
      /\ accepted' = IF byteIn /\ room THEN Append(accepted, arrived + 1) ELSE accepted
      /\ shown' \in IF popped # << >> /\ shown /\ ~rden THEN {TRUE}
                    ELSE IF rx' = << >> THEN {FALSE} ELSE BOOLEAN
      /\ rden' = (pc = "uartCmd" /\ shown)
      /\ result' = IF pc # "uartCmd" THEN result
                   ELSE IF shown THEN Head(rx) ELSE Empty

(* The CAN controller chip: reading its interrupt register clears it, a     *)
(* frame received and a frame left after a release set the receive bit.     *)
CanChip(frameIn) ==
  LET kept == IF pc \in {"releaseCmd", "toRecvCmd"} /\ frames > 0 THEN frames - 1 ELSE frames
  IN  /\ came' = IF frameIn THEN came + 1 ELSE came
      /\ frames' = IF frameIn THEN kept + 1 ELSE kept
      /\ ri' = \/ frameIn
               \/ pc \in {"releaseCmd", "toRecvCmd"} /\ kept > 0
               \/ ri /\ pc # "irCmd"

(* Variant: the pulse is not repeated while the line stays low. *)
CanInterruptOnce ==
  IF ~tag /\ IntLow
  THEN tag' = TRUE /\ canIrq' = TRUE /\ count' = 0
  ELSE /\ tag' = (tag /\ IntLow)
       /\ canIrq' = FALSE
       /\ count' = (count + 1) % (2 * Release)

(* One pulse when the line goes low, another one every Release clocks.      *)
CanInterrupt ==
  IF ~tag /\ IntLow
  THEN tag' = TRUE /\ canIrq' = TRUE /\ count' = 0
  ELSE /\ tag' = (tag /\ IntLow /\ count < Release)
       /\ canIrq' = FALSE
       /\ count' = (count + 1) % (2 * Release)

(* Variant: an acknowledgement clears every interrupt, irq_id_i is ignored. *)
InterruptCtrlAckAll(go) ==
  /\ pre' = [s \in Sources |-> Line(s)]
  /\ irq' = [s \in Sources |->
               (~pre[s] /\ Line(s)) \/ (irq[s] /\ ~(go /\ \E t \in Sources : Takes(t)))]
  /\ irqQ' = irq

(* A rising edge sets the interrupt and wins over its acknowledgement. *)
InterruptCtrl(go) ==
  /\ pre' = [s \in Sources |-> Line(s)]
  /\ irq' = [s \in Sources |->
               (~pre[s] /\ Line(s)) \/ (irq[s] /\ ~(go /\ Takes(s)))]
  /\ irqQ' = irq

(* Variant: one byte per interrupt. *)
UartHandlerOneByte ==
  /\ sawRi' = sawRi
  /\ \/ Takes("UART") /\ pc' = "uartEntry" /\ UNCHANGED delivered
     \/ pc = "uartEntry" /\ pc' = "uartCmd" /\ UNCHANGED delivered
     \/ pc = "uartCmd" /\ pc' = "uartPop" /\ UNCHANGED delivered
     \/ pc = "uartPop" /\ pc' = "uartGot" /\ UNCHANGED delivered
     \/ /\ pc = "uartGot" /\ result = Empty
        /\ pc' = "app" /\ UNCHANGED delivered
     \/ /\ pc = "uartGot" /\ result # Empty
        /\ pc' = IF result \in ToRecv THEN "toRecvCmd" ELSE "app"
        /\ delivered' = Append(delivered, result)
     \/ pc = "toRecvCmd" /\ pc' = "uartEntry" /\ UNCHANGED delivered

(* uart_irq_handler reads until the FIFO says it is empty. *)
UartHandler ==
  /\ sawRi' = sawRi
  /\ \/ Takes("UART") /\ pc' = "uartEntry" /\ UNCHANGED delivered
     \/ pc = "uartEntry" /\ pc' = "uartCmd" /\ UNCHANGED delivered
     \/ pc = "uartCmd" /\ pc' = "uartPop" /\ UNCHANGED delivered
     \/ pc = "uartPop" /\ pc' = "uartGot" /\ UNCHANGED delivered
     \/ /\ pc = "uartGot" /\ result = Empty
        /\ pc' = "app" /\ UNCHANGED delivered
     \/ /\ pc = "uartGot" /\ result # Empty
        /\ pc' = IF result \in ToRecv THEN "toRecvCmd" ELSE "uartCmd"
        /\ delivered' = Append(delivered, result)
     \/ pc = "toRecvCmd" /\ pc' = "uartEntry" /\ UNCHANGED delivered

(* can_irq_handler asks for the cause once, reads one frame and releases it. *)
CanHandler ==
  /\ delivered' = delivered
  /\ \/ Takes("CAN") /\ pc' = "canEntry" /\ UNCHANGED sawRi
     \/ pc = "canEntry" /\ pc' = "irCmd" /\ UNCHANGED sawRi
     \/ pc = "irCmd" /\ pc' = "irGot" /\ sawRi' = ri
     \/ pc = "irGot" /\ pc' = (IF sawRi THEN "recv" ELSE "app") /\ UNCHANGED sawRi
     \/ pc = "recv" /\ pc' = "releaseCmd" /\ UNCHANGED sawRi
     \/ pc = "releaseCmd" /\ pc' = "canDone" /\ UNCHANGED sawRi
     \/ pc = "canDone" /\ pc' = "app" /\ UNCHANGED sawRi

(* go: the program takes its next step in this clock. *)
Processor(go) ==
  IF go THEN UartHandler \/ CanHandler
        ELSE pc \notin Pulses /\ UNCHANGED <<pc, delivered, sawRi>>

Clock(byteIn, frameIn, go) ==
  /\ byteIn => arrived < MaxBytes
  /\ frameIn => came < MaxFrames
  /\ UartRegisters(byteIn)
  /\ CanChip(frameIn)
  /\ CanInterrupt
  /\ InterruptCtrl(go)
  /\ Processor(go)

Next == \E byteIn, frameIn, go \in BOOLEAN : Clock(byteIn, frameIn, go)

Spec == Init /\ [][Next]_vars

(* The clock runs, the program goes on, the FIFO shows its head at last. *)
FairSpec ==
  /\ Spec
  /\ WF_vars(Next)
  /\ WF_vars(Next /\ pc' # pc)
  /\ WF_vars(Next /\ ~shown /\ shown')
-----------------------------------------------------------------------------
TypeOK ==
  /\ arrived \in 0 .. MaxBytes /\ came \in 0 .. MaxFrames
  /\ rx \in Seq(1 .. MaxBytes) /\ Len(rx) <= Depth
  /\ accepted \in Seq(1 .. MaxBytes) /\ delivered \in Seq(1 .. MaxBytes)
  /\ shown \in BOOLEAN /\ rden \in BOOLEAN /\ result \in 0 .. MaxBytes
  /\ frames \in 0 .. MaxFrames /\ ri \in BOOLEAN
  /\ tag \in BOOLEAN /\ canIrq \in BOOLEAN /\ count \in 0 .. 2 * Release - 1
  /\ pre \in [Sources -> BOOLEAN]
  /\ irq \in [Sources -> BOOLEAN] /\ irqQ \in [Sources -> BOOLEAN]
  /\ pc \in Places /\ sawRi \in BOOLEAN

(* The byte the handler is about to get, not yet counted as delivered. *)
InHand == IF pc \in {"uartPop", "uartGot"} /\ result # Empty THEN <<result>> ELSE << >>

(* Whatever the timing of arrivals, pops and reads, the handler gets the    *)
(* bytes the FIFO took, in order, each once: the pop that follows a read by *)
(* one clock (rden_rx) never hits another byte than the one shown.          *)
NoLossNoDup ==
  delivered \o InHand \o (IF rden /\ shown THEN Tail(rx) ELSE rx) = accepted

(* A byte waits for the handler only if the handler will come: it runs, or  *)
(* its interrupt is pending, or the edge has yet to be seen.                *)
IrqCoversBytes ==
  shown => \/ pc \in {"uartEntry", "uartCmd", "uartPop", "uartGot", "toRecvCmd"}
           \/ irq["UART"]
           \/ ~pre["UART"]

(* Each byte the FIFO took reaches the handler, and the frames of the CAN   *)
(* controller are all read, although its line may stay low over several     *)
(* frames and give no further edge.                                         *)
EverythingHandled ==
  /\ \A n \in 1 .. MaxBytes : Len(accepted) >= n ~> Len(delivered) >= n
  /\ frames > 0 ~> frames = 0
=============================================================================
