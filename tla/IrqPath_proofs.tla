--------------------------- MODULE IrqPath_proofs ---------------------------
(***************************************************************************)
(* Proofs about IrqPath for every depth of the receive FIFO, every release *)
(* time and any number of bytes and frames.                                *)
(***************************************************************************)
EXTENDS IrqPath, SequenceTheorems, TLAPS

Bytes == 1 .. MaxBytes

(* What the FIFO holds after this clock's pop. *)
Rest == IF rden /\ shown THEN Tail(rx) ELSE rx

(* A pop comes in the clock after a read that showed a byte, and that byte  *)
(* is still the head of the FIFO.                                           *)
PopInv ==
  /\ shown => rx # << >>
  /\ rden <=> (pc = "uartPop" /\ result # Empty)
  /\ rden => shown /\ result = Head(rx)

(* A handler that has seen Empty is not needed by the byte that came since. *)
EmptyInv ==
  pc \in {"uartPop", "uartGot"} /\ result = Empty /\ shown =>
    irq["UART"] \/ ~pre["UART"]

IInv ==
  /\ TypeOK
  /\ frames <= came
  /\ PopInv
  /\ NoLossNoDup
  /\ IrqCoversBytes
  /\ EmptyInv
-----------------------------------------------------------------------------
(* Sequences of bytes: what an arrival leaves of a split in two. *)
LEMMA ConcatAppend ==
  ASSUME NEW S, NEW s \in Seq(S), NEW t \in Seq(S), NEW e \in S
  PROVE  s \o Append(t, e) = Append(s \o t, e)
  OBVIOUS

(* An arrival changes neither the head of the FIFO nor what precedes it. *)
LEMMA AppendNonEmpty ==
  ASSUME NEW S, NEW s \in Seq(S), s # << >>, NEW e \in S
  PROVE  /\ Append(s, e) \in Seq(S) /\ Append(s, e) # << >>
         /\ Head(Append(s, e)) = Head(s)
         /\ Tail(Append(s, e)) = Append(Tail(s), e)
  OBVIOUS

(* Joining three sequences, in either order. *)
LEMMA Associative ==
  ASSUME NEW S, NEW s \in Seq(S), NEW h \in Seq(S), NEW u \in Seq(S)
  PROVE  (s \o h) \o u = s \o (h \o u)
  OBVIOUS

(* The head of the FIFO, moved behind what precedes it. *)
LEMMA HeadMoves ==
  ASSUME NEW S, NEW s \in Seq(S), NEW t \in Seq(S), t # << >>
  PROVE  (s \o <<Head(t)>>) \o Tail(t) = s \o t
<1>1. /\ <<Head(t)>> \in Seq(S) /\ Tail(t) \in Seq(S)
      /\ <<Head(t)>> \o Tail(t) = t
  OBVIOUS
<1>2. (s \o <<Head(t)>>) \o Tail(t) = s \o (<<Head(t)>> \o Tail(t))
  BY <1>1, Associative
<1> QED
  BY <1>1, <1>2

-----------------------------------------------------------------------------
(* What the FIFO holds after the pop, and what the read in hand has taken   *)
(* from it, are sequences of bytes.                                         *)
LEMMA RestType ==
  ASSUME TypeOK, PopInv
  PROVE  Rest \in Seq(Bytes) /\ Len(Rest) <= Depth /\ InHand \in Seq(Bytes)
<1>1. Rest \in Seq(Bytes) /\ Len(Rest) <= Depth
  <2>1. CASE rden /\ shown
    <3>1. rx \in Seq(Bytes) /\ rx # << >> /\ Len(rx) <= Depth
      BY <2>1 DEF PopInv, TypeOK, Bytes
    <3>2. Tail(rx) \in Seq(Bytes) /\ Len(Tail(rx)) = Len(rx) - 1 /\ Len(rx) \in Nat
      BY <3>1, HeadTailProperties, LenProperties
    <3> QED
      BY <2>1, <3>1, <3>2, Bounds DEF Rest
  <2>2. CASE ~(rden /\ shown)
    BY <2>2 DEF Rest, TypeOK, Bytes
  <2> QED
    BY <2>1, <2>2
<1>2. InHand \in Seq(Bytes)
  <2>1. result # Empty => result \in Bytes
    BY DEF TypeOK, Bytes, Empty
  <2> QED
    BY <2>1 DEF InHand
<1> QED
  BY <1>1, <1>2

(* Every register stays in its range. *)
LEMMA TypeStep ==
  ASSUME TypeOK, frames <= came, PopInv,
         NEW byteIn \in BOOLEAN, NEW frameIn \in BOOLEAN, NEW go \in BOOLEAN,
         Clock(byteIn, frameIn, go)
  PROVE  TypeOK' /\ frames' <= came'
<1>1. byteIn => arrived + 1 \in Bytes
  BY Bounds DEF Clock, TypeOK, Bytes
<1>2. /\ arrived' \in 0 .. MaxBytes
      /\ rx' \in Seq(Bytes) /\ Len(rx') <= Depth
      /\ accepted' \in Seq(Bytes)
      /\ shown' \in BOOLEAN /\ rden' \in BOOLEAN /\ result' \in 0 .. MaxBytes
  <2>1. arrived' \in 0 .. MaxBytes
    BY <1>1 DEF Clock, UartRegisters, TypeOK, Bytes
  <2>2. rx' \in Seq(Bytes) /\ Len(rx') <= Depth
    <3>1. rx' = IF byteIn /\ Len(rx) < Depth THEN Append(Rest, arrived + 1) ELSE Rest
      BY DEF Clock, UartRegisters, Rest
    <3>2. Len(Rest) \in Nat /\ Len(Rest) <= Len(rx) /\ Len(rx) \in Nat
      BY RestType, LenProperties, HeadTailProperties DEF Rest, TypeOK, PopInv
    <3> QED
      BY <1>1, <3>1, <3>2, RestType, Bounds
  <2>3. accepted' \in Seq(Bytes)
    <3>1. accepted \in Seq(Bytes)
      BY DEF TypeOK, Bytes
    <3>2. accepted' = accepted \/ (byteIn /\ accepted' = Append(accepted, arrived + 1))
      BY DEF Clock, UartRegisters
    <3> QED
      BY <1>1, <3>1, <3>2
  <2>4. shown' \in BOOLEAN /\ rden' \in BOOLEAN
    BY DEF Clock, UartRegisters, TypeOK
  <2>5. result' \in 0 .. MaxBytes
    <3>1. shown => Head(rx) \in Bytes
      BY HeadTailProperties DEF TypeOK, PopInv, Bytes
    <3> QED
      BY <3>1, Bounds DEF Clock, UartRegisters, TypeOK, Bytes, Empty
  <2> QED
    BY <2>1, <2>2, <2>3, <2>4, <2>5
<1>3. /\ came' \in 0 .. MaxFrames /\ frames' \in 0 .. MaxFrames
      /\ ri' \in BOOLEAN /\ frames' <= came'
  BY Bounds DEF Clock, CanChip, TypeOK
<1>4. tag' \in BOOLEAN /\ canIrq' \in BOOLEAN /\ count' \in 0 .. 2 * Release - 1
  <2>1. count + 1 \in Nat /\ 2 * Release \in Nat \ {0}
    BY Bounds DEF TypeOK
  <2>2. (count + 1) % (2 * Release) \in 0 .. 2 * Release - 1
    BY <2>1
  <2>3. 0 \in 0 .. 2 * Release - 1
    BY <2>1
  <2>4. count' = 0 \/ count' = (count + 1) % (2 * Release)
    BY DEF Clock, CanInterrupt
  <2>5. tag' \in BOOLEAN /\ canIrq' \in BOOLEAN
    BY DEF Clock, CanInterrupt
  <2> QED
    BY <2>2, <2>3, <2>4, <2>5
<1>5. /\ pre' \in [Sources -> BOOLEAN]
      /\ irq' \in [Sources -> BOOLEAN] /\ irqQ' \in [Sources -> BOOLEAN]
  BY DEF Clock, InterruptCtrl, TypeOK, Line, Takes
<1>6. pc' \in Places /\ sawRi' \in BOOLEAN /\ delivered' \in Seq(Bytes)
  <2>1. result # Empty => result \in Bytes
    BY DEF TypeOK, Bytes, Empty
  <2>2. CASE go /\ UartHandler
    <3>1. delivered \in Seq(Bytes) /\ sawRi \in BOOLEAN
      BY DEF TypeOK, Bytes
    <3>2. delivered' = delivered \/ (result # Empty /\ delivered' = Append(delivered, result))
      BY <2>2 DEF UartHandler
    <3>3. pc' \in Places /\ sawRi' = sawRi
      BY <2>2 DEF UartHandler, Places
    <3> QED
      BY <2>1, <3>1, <3>2, <3>3
  <2>3. CASE go /\ CanHandler
    BY <2>3 DEF CanHandler, TypeOK, Places, Bytes
  <2>4. CASE ~go
    BY <2>4 DEF Clock, Processor, TypeOK, Bytes
  <2> QED
    BY <2>2, <2>3, <2>4 DEF Clock, Processor
<1> QED
  BY <1>2, <1>3, <1>4, <1>5, <1>6 DEF TypeOK, Bytes

(* The clock that reads is followed by the clock that pops: a program state *)
(* named ..Cmd lasts one clock.                                             *)
LEMMA Goes ==
  ASSUME NEW byteIn, NEW frameIn, NEW go \in BOOLEAN, Clock(byteIn, frameIn, go)
  PROVE  /\ pc = "uartCmd" <=> pc' = "uartPop"
         /\ pc = "uartCmd" => delivered' = delivered
         /\ pc = "uartPop" => pc' = "uartGot" /\ delivered' = delivered
  BY DEF Clock, Processor, UartHandler, CanHandler, Takes, Pulses

(* The pop hits the byte that was read. *)
LEMMA PopStep ==
  ASSUME TypeOK, PopInv,
         NEW byteIn \in BOOLEAN, NEW frameIn, NEW go \in BOOLEAN,
         Clock(byteIn, frameIn, go)
  PROVE  PopInv'
<1>1. shown' => rx' # << >>
  <2>1. CASE Rest # << >> /\ shown /\ ~rden
    <3>1. rx' # << >>
      BY <2>1, AppendNonEmpty, RestType, Bounds DEF Clock, UartRegisters, Rest
    <3> QED
      BY <3>1
  <2>2. CASE ~(Rest # << >> /\ shown /\ ~rden)
    BY <2>2 DEF Clock, UartRegisters, Rest
  <2> QED
    BY <2>1, <2>2
<1>2. CASE pc = "uartCmd" /\ shown
  <2>1. ~rden /\ rx \in Seq(Bytes) /\ rx # << >>
    BY <1>2 DEF PopInv, TypeOK, Bytes
  <2>2. Head(rx) \in Bytes
    BY <2>1, HeadTailProperties
  <2>3. rden' /\ shown' /\ result' = Head(rx) /\ pc' = "uartPop"
    BY <1>2, <2>1, Goes DEF Clock, UartRegisters
  <2>4. rx' = rx \/ (arrived + 1 \in Bytes /\ rx' = Append(rx, arrived + 1))
    BY <1>2, <2>1, Bounds DEF Clock, UartRegisters, TypeOK, Bytes
  <2>5. Head(rx') = Head(rx)
    BY <2>1, <2>4, AppendNonEmpty
  <2> QED
    BY <1>1, <2>2, <2>3, <2>5 DEF PopInv, Empty, Bytes
<1>3. CASE pc = "uartCmd" /\ ~shown
  BY <1>1, <1>3 DEF PopInv, Clock, UartRegisters
<1>4. CASE pc # "uartCmd"
  BY <1>1, <1>4, Goes DEF PopInv, Clock, UartRegisters
<1> QED
  BY <1>2, <1>3, <1>4

(* What is delivered, in hand and still in the FIFO remains what it took.   *)
LEMMA BytesStep ==
  ASSUME TypeOK, PopInv, NoLossNoDup, PopInv', TypeOK',
         NEW byteIn \in BOOLEAN, NEW frameIn, NEW go \in BOOLEAN,
         Clock(byteIn, frameIn, go)
  PROVE  NoLossNoDup'
<1>1. /\ delivered \in Seq(Bytes) /\ InHand \in Seq(Bytes) /\ Rest \in Seq(Bytes)
      /\ accepted \in Seq(Bytes)
      /\ (delivered \o InHand) \o Rest = accepted
  BY RestType DEF TypeOK, NoLossNoDup, Rest, Bytes
<1>2. \/ rx' = Rest /\ accepted' = accepted
      \/ /\ arrived + 1 \in Bytes
         /\ rx' = Append(Rest, arrived + 1) /\ accepted' = Append(accepted, arrived + 1)
  <2>1. byteIn => arrived + 1 \in Bytes
    BY Bounds DEF Clock, TypeOK, Bytes
  <2>2. \/ rx' = Rest /\ accepted' = accepted
        \/ byteIn /\ rx' = Append(Rest, arrived + 1) /\ accepted' = Append(accepted, arrived + 1)
    BY DEF Clock, UartRegisters, Rest
  <2> QED
    BY <2>1, <2>2
<1>3. (delivered \o InHand) \o rx' = accepted'
  <2>1. delivered \o InHand \in Seq(Bytes)
    BY <1>1, ConcatProperties
  <2>2. CASE rx' = Rest /\ accepted' = accepted
    BY <1>1, <2>2
  <2>3. CASE /\ arrived + 1 \in Bytes
             /\ rx' = Append(Rest, arrived + 1) /\ accepted' = Append(accepted, arrived + 1)
    <3>1. (delivered \o InHand) \o Append(Rest, arrived + 1)
            = Append((delivered \o InHand) \o Rest, arrived + 1)
      BY <1>1, <2>1, <2>3, ConcatAppend
    <3> QED
      BY <1>1, <2>3, <3>1
  <2> QED
    BY <1>2, <2>2, <2>3
<1>4. (delivered' \o InHand') \o Rest' = (delivered \o InHand) \o rx'
  <2>1. CASE pc = "uartCmd" /\ shown
    <3>1. InHand = << >> /\ delivered' = delivered /\ ~rden /\ pc' = "uartPop"
      BY <2>1, Goes DEF InHand, PopInv
    <3>2. result' # Empty /\ rden' /\ shown' /\ rx' # << >> /\ result' = Head(rx')
      BY <2>1, <3>1 DEF PopInv, Clock, UartRegisters
    <3>3. InHand' = <<Head(rx')>> /\ Rest' = Tail(rx')
      BY <3>1, <3>2 DEF InHand, Rest
    <3>4. rx' \in Seq(Bytes)
      BY DEF TypeOK, Bytes
    <3>5. (delivered \o <<Head(rx')>>) \o Tail(rx') = delivered \o rx'
      BY <1>1, <3>2, <3>4, HeadMoves
    <3>6. delivered \o << >> = delivered
      BY <1>1, ConcatEmptySeq
    <3> QED
      BY <3>1, <3>3, <3>5, <3>6
  <2>2. CASE ~(pc = "uartCmd" /\ shown)
    <3>1. ~rden' /\ Rest' = rx'
      BY <2>2 DEF Clock, UartRegisters, Rest
    <3>2. delivered' \o InHand' = delivered \o InHand
      <4>1. CASE pc = "uartCmd"
        <5>1. InHand = << >> /\ InHand' = << >>
          BY <2>2, <4>1 DEF InHand, Clock, UartRegisters
        <5> QED
          BY <4>1, <5>1, Goes
      <4>2. CASE pc = "uartPop"
        BY <4>2, Goes DEF InHand, Clock, UartRegisters
      <4>3. CASE pc = "uartGot"
        <5>1. result' = result
          BY <4>3 DEF Clock, UartRegisters
        <5>2. CASE pc' = "uartGot"
          <6>1. delivered' = delivered
            BY <4>3, <5>2 DEF Clock, Processor, UartHandler, CanHandler, Takes
          <6> QED
            BY <4>3, <5>1, <5>2, <6>1 DEF InHand
        <5>3. CASE pc' # "uartGot" /\ result = Empty
          <6>1. InHand = << >> /\ InHand' = << >> /\ delivered' = delivered
            BY <4>3, <5>3 DEF InHand, Clock, Processor, UartHandler, CanHandler, Takes
          <6> QED
            BY <6>1
        <5>4. CASE pc' # "uartGot" /\ result # Empty
          <6>1. result \in Bytes
            BY <5>4 DEF TypeOK, Bytes, Empty
          <6>2. delivered' = Append(delivered, result) /\ pc' \notin {"uartPop", "uartGot"}
            BY <4>3, <5>4 DEF Clock, Processor, UartHandler, CanHandler, Takes
          <6>3. InHand = <<result>> /\ InHand' = << >>
            BY <4>3, <5>4, <6>2 DEF InHand
          <6>4. delivered \o <<result>> = Append(delivered, result)
            BY <1>1, <6>1
          <6>5. Append(delivered, result) \in Seq(Bytes)
            BY <1>1, <6>1
          <6>6. Append(delivered, result) \o << >> = Append(delivered, result)
            BY <6>5, ConcatEmptySeq
          <6> QED
            BY <6>2, <6>3, <6>4, <6>6
        <5> QED
          BY <5>2, <5>3, <5>4
      <4>4. CASE pc \notin {"uartCmd", "uartPop", "uartGot"}
        <5>1. delivered' = delivered /\ pc' \notin {"uartPop", "uartGot"}
          BY <4>4 DEF Clock, Processor, UartHandler, CanHandler, Takes
        <5> QED
          BY <4>4, <5>1 DEF InHand
      <4> QED
        BY <4>1, <4>2, <4>3, <4>4
    <3> QED
      BY <3>1, <3>2
  <2> QED
    BY <2>1, <2>2
<1> QED
  BY <1>3, <1>4 DEF NoLossNoDup, Rest

(* The interrupt of a byte is not lost between the edge, the pending bit    *)
(* and the handler.                                                         *)
LEMMA IrqStep ==
  ASSUME TypeOK, PopInv, PopInv', IrqCoversBytes, EmptyInv,
         NEW byteIn, NEW frameIn, NEW go \in BOOLEAN,
         Clock(byteIn, frameIn, go)
  PROVE  IrqCoversBytes' /\ EmptyInv'
<1>1. pre'["UART"] = shown
  BY DEF Clock, InterruptCtrl, Line, Sources
<1>2. CASE ~shown
  BY <1>1, <1>2 DEF IrqCoversBytes, EmptyInv
<1>3. CASE shown /\ ~pre["UART"]
  <2>1. irq'["UART"]
    BY <1>3 DEF Clock, InterruptCtrl, Line, Sources
  <2> QED
    BY <2>1 DEF IrqCoversBytes, EmptyInv
<1>4. CASE shown /\ pre["UART"] /\ irq["UART"] /\ ~(go /\ Takes("UART"))
  <2>1. irq'["UART"]
    BY <1>4 DEF Clock, InterruptCtrl, Line, Sources
  <2> QED
    BY <2>1 DEF IrqCoversBytes, EmptyInv
<1>5. CASE go /\ Takes("UART")
  BY <1>5 DEF Clock, Processor, UartHandler, CanHandler, Takes, IrqCoversBytes, EmptyInv
<1>6. CASE shown /\ pre["UART"] /\ ~irq["UART"]
  <2>1. /\ pc \in {"uartEntry", "uartCmd", "uartPop", "uartGot", "toRecvCmd"}
        /\ pc \in {"uartPop", "uartGot"} => result # Empty
    BY <1>6 DEF IrqCoversBytes, EmptyInv
  <2>2. pc' \in {"uartEntry", "uartCmd", "uartPop", "uartGot", "toRecvCmd"}
    BY <2>1 DEF Clock, Processor, UartHandler, CanHandler, Takes
  <2>3. pc' \in {"uartPop", "uartGot"} => result' # Empty
    <3>1. CASE pc = "uartCmd"
      <4>1. rden'
        BY <1>6, <3>1 DEF Clock, UartRegisters
      <4> QED
        BY <4>1 DEF PopInv
    <3>2. CASE pc # "uartCmd"
      BY <2>1, <3>2 DEF Clock, UartRegisters, Processor, UartHandler, CanHandler, Takes
    <3> QED
      BY <3>1, <3>2
  <2> QED
    BY <2>2, <2>3 DEF IrqCoversBytes, EmptyInv
<1> QED
  BY <1>2, <1>3, <1>4, <1>5, <1>6
-----------------------------------------------------------------------------
(* After reset every part of the invariant holds. *)
LEMMA InitInv == Init => IInv
<1> SUFFICES ASSUME Init PROVE IInv
  OBVIOUS
<1>1. TypeOK /\ frames <= came
  <2>1. /\ arrived \in 0 .. MaxBytes /\ came \in 0 .. MaxFrames /\ frames \in 0 .. MaxFrames
        /\ result \in 0 .. MaxBytes /\ count \in 0 .. 2 * Release - 1 /\ frames <= came
    BY Bounds DEF Init, Empty
  <2>2. /\ rx \in Seq(1 .. MaxBytes) /\ Len(rx) <= Depth
        /\ accepted \in Seq(1 .. MaxBytes) /\ delivered \in Seq(1 .. MaxBytes)
    BY Bounds DEF Init
  <2>3. /\ pre \in [Sources -> BOOLEAN]
        /\ irq \in [Sources -> BOOLEAN] /\ irqQ \in [Sources -> BOOLEAN]
    BY DEF Init
  <2>4. /\ shown \in BOOLEAN /\ rden \in BOOLEAN /\ ri \in BOOLEAN /\ tag \in BOOLEAN
        /\ canIrq \in BOOLEAN /\ pc \in Places /\ sawRi \in BOOLEAN
    BY DEF Init, Places
  <2> QED
    BY <2>1, <2>2, <2>3, <2>4 DEF TypeOK
<1>2. PopInv /\ IrqCoversBytes /\ EmptyInv
  BY DEF Init, PopInv, IrqCoversBytes, EmptyInv
<1>3. NoLossNoDup
  <2>1. << >> \in Seq(Bytes)
    OBVIOUS
  <2> QED
    BY <2>1, ConcatEmptySeq DEF Init, NoLossNoDup, InHand
<1> QED
  BY <1>1, <1>2, <1>3 DEF IInv

(* Every clock of the receive path keeps the invariant. *)
LEMMA StepInv == IInv /\ [Next]_vars => IInv'
<1> SUFFICES ASSUME IInv, [Next]_vars PROVE IInv'
  OBVIOUS
<1>1. CASE Next
  <2>1. PICK byteIn, frameIn, go \in BOOLEAN : Clock(byteIn, frameIn, go)
    BY <1>1 DEF Next
  <2>2. TypeOK' /\ frames' <= came'
    BY <2>1, TypeStep DEF IInv
  <2>3. PopInv'
    BY <2>1, PopStep DEF IInv
  <2>4. NoLossNoDup'
    BY <2>1, <2>2, <2>3, BytesStep DEF IInv
  <2>5. IrqCoversBytes' /\ EmptyInv'
    BY <2>1, <2>3, IrqStep DEF IInv
  <2> QED
    BY <2>2, <2>3, <2>4, <2>5 DEF IInv
<1>2. CASE UNCHANGED vars
  <2>1. TypeOK' /\ frames' <= came'
    BY <1>2 DEF vars, uart, chip, cpu, IInv, TypeOK
  <2>2. PopInv' /\ IrqCoversBytes' /\ EmptyInv'
    BY <1>2 DEF vars, uart, chip, cpu, IInv, PopInv, IrqCoversBytes, EmptyInv
  <2>3. NoLossNoDup'
    BY <1>2 DEF vars, uart, chip, cpu, IInv, NoLossNoDup, InHand
  <2> QED
    BY <2>1, <2>2, <2>3 DEF IInv
<1> QED
  BY <1>1, <1>2

(* The invariant holds in every reachable state. *)
THEOREM Inductive == Spec => []IInv
<1> QED
  BY InitInv, StepInv, PTL DEF Spec

(* The registers of the FIFO, of the CAN controller's interrupt, of the    *)
(* interrupt bus and of the program stay in their ranges.                  *)
THEOREM TypeCorrect == Spec => []TypeOK
<1>1. IInv => TypeOK
  BY DEF IInv
<1> QED
  BY <1>1, Inductive, PTL

(* uart_irq_handler gets the bytes the FIFO took, in order and each once,   *)
(* although uart_control.v pops a clock after it has shown the byte.        *)
THEOREM BytesIntact == Spec => []NoLossNoDup
<1>1. IInv => NoLossNoDup
  BY DEF IInv
<1> QED
  BY <1>1, Inductive, PTL

(* No byte waits behind the edge detector of interrupt_bus.v: the handler   *)
(* runs, or its interrupt is pending, or the edge has yet to be seen.       *)
THEOREM BytesCovered == Spec => []IrqCoversBytes
<1>1. IInv => IrqCoversBytes
  BY DEF IInv
<1> QED
  BY <1>1, Inductive, PTL
=============================================================================
