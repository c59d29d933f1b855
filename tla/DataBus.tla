------------------------------ MODULE DataBus -------------------------------
(***************************************************************************)
(* The data path of timelyRV v1.0: the load/store unit of the cv32e40p     *)
(* (the bus master), the glue of timelyRV_top.sv, the data RAM of          *)
(* mm_ram_modified.v, connect_bus.v and the register interfaces of the     *)
(* peripherals.  A step is one rising edge of the core clock; the state is *)
(* the registers, and what a wire carries during a cycle is an operator.   *)
(***************************************************************************)
EXTENDS Naturals, Sequences

CONSTANTS
  Mem,        (* the data RAM, addresses with top nibble 0                   *)
  FastPeri,   (* peripherals that answer one clock after a command: UART,
                 RS485 (uart_control.v) and LCD (lcd_top.v)                  *)
  CanPeri,    (* peripherals behind the FSM of read_write_can.v             *)
  Unmapped,   (* addresses that select neither RAM nor a peripheral          *)
  Program,    (* the accesses the running software makes                     *)
  Spaced,     (* the software never makes two accesses to one peripheral in
                 consecutive cycles of the EX stage                          *)
  NoAccess

Peri == FastPeri \cup CanPeri

(* "hit": the target's decoder knows the register (uart_control.v answers   *)
(* offsets 0x0 and 0x4 only).                                               *)
Access == [to : Peri \cup {Mem, Unmapped}, op : {"rd", "wr"}, hit : BOOLEAN]

ASSUME Targets ==
  /\ FastPeri \cap CanPeri = {}
  /\ Mem \notin Peri /\ Unmapped \notin Peri /\ Mem # Unmapped
  /\ Program \subseteq Access
  /\ NoAccess \notin Access
  /\ Spaced \in BOOLEAN

VARIABLES
  ex,         (* the access in the EX stage (data_req_ex_i and its operands) *)
  cnt,        (* cnt_q of the load/store unit, two bits                      *)
  mem0, mem1, (* temp_ready_data[0] and [1] of mm_ram_modified.v              *)
  cmd,        (* wren_o/rden_o of connect_bus.v with address and data         *)
  preWrRd,    (* pre_wr_rd of connect_bus.v                                   *)
  periReady,  (* peri_ready_o of connect_bus.v                                *)
  rdataSrc,   (* whose data peri_rdata_o holds                                *)
  valid,      (* dout_32b_valid_o of every peripheral                         *)
  can,        (* state_can of read_write_can.v                                *)
  wait,       (* cnt_waitClk of read_write_can.v                              *)
  canRd,      (* temp_rdWr[1] of read_write_can.v                             *)
  served      (* history: how often the access in EX was carried out          *)

vars == <<ex, cnt, mem0, mem1, cmd, preWrRd, periReady, rdataSrc, valid,
          can, wait, canRd, served>>

DEPTH == 2

CanStates == {"IDLE", "CLK_1", "CLK_2", "CLK_3", "CLK_4", "CLK_5", "CLK_9_RD",
              "CLK_9_WR", "CLK_10", "CLK_11", "CLK_13", "CLK_14"}

-----------------------------------------------------------------------------
(* Wires. *)

(* Variant: the bound of the counter is one too high. *)
TransValidDeep == ex # NoAccess /\ cnt <= DEPTH

(* data_req: the request line of the load/store unit (PULP_OBI = 0). *)
TransValid == ex # NoAccess /\ cnt < DEPTH

(* data_req_m: the request as the RAM sees it. *)
DataReqMem == TransValid /\ ex.to = Mem

(* peri_wren | peri_rden while the address selects p. *)
Selects(p) == TransValid /\ ex.to = p

PeriGnt == \E p \in Peri : valid[p]
Gnt     == DataReqMem \/ PeriGnt
Rvalid  == mem1 \/ periReady

CountUp   == TransValid /\ Gnt
CountDown == Rvalid

(* lsu_ready_ex_o: the EX stage may take its next instruction. *)
LsuReadyEx ==
  \/ ex = NoAccess
  \/ cnt = 0 /\ CountUp
  \/ cnt = 1 /\ CountUp /\ Rvalid
  \/ cnt \notin {0, 1} /\ Rvalid

(* Register access carried out by peripheral p on this edge. *)
Performs(p) ==
  /\ cmd[p] # NoAccess
  /\ p \in FastPeri => cmd[p].hit
  /\ p \in CanPeri => can[p] = "IDLE"
-----------------------------------------------------------------------------
Init ==
  /\ ex = NoAccess
  /\ cnt = 0
  /\ mem0 = FALSE /\ mem1 = FALSE
  /\ cmd = [p \in Peri |-> NoAccess]
  /\ preWrRd = [p \in Peri |-> FALSE]
  /\ periReady = FALSE
  /\ rdataSrc = NoAccess
  /\ valid = [p \in Peri |-> FALSE]
  /\ can = [p \in CanPeri |-> "IDLE"]
  /\ wait = [p \in CanPeri |-> 0]
  /\ canRd = [p \in CanPeri |-> FALSE]
  /\ served = 0

(* Variant: an acceptance hides a response on the same edge. *)
LsuCountUpFirst ==
  cnt' = IF CountUp THEN (cnt + 1) % 4
         ELSE IF CountDown THEN (cnt + 3) % 4
         ELSE cnt

(* next_cnt: the unique case of the outstanding-transaction counter. *)
LsuCount ==
  cnt' = IF CountUp /\ ~CountDown THEN (cnt + 1) % 4
         ELSE IF CountDown /\ ~CountUp THEN (cnt + 3) % 4
         ELSE cnt

(* The instruction that enters EX when the previous one leaves it. *)
ExStage(next) ==
  /\ ex' = IF LsuReadyEx THEN next ELSE ex
  /\ Spaced /\ ex # NoAccess /\ next # NoAccess /\ ex.to \in Peri
       => next.to # ex.to

(* temp_ready_data: the RAM answers two clocks after the request. *)
MemPipe == mem0' = DataReqMem /\ mem1' = mem0

(* Variant: the command is sent in every cycle of the request. *)
ConnectBusNoEdge ==
  /\ cmd' = [p \in Peri |-> IF Selects(p) THEN ex ELSE NoAccess]
  /\ preWrRd' = [p \in Peri |-> Selects(p)]
  /\ periReady' = PeriGnt
  /\ IF PeriGnt THEN \E p \in Peri : valid[p] /\ rdataSrc' = p
                ELSE rdataSrc' = rdataSrc

(* A command pulse is passed on in the first cycle of a request only. *)
ConnectBus ==
  /\ cmd' = [p \in Peri |-> IF Selects(p) /\ ~preWrRd[p] THEN ex ELSE NoAccess]
  /\ preWrRd' = [p \in Peri |-> Selects(p)]
  /\ periReady' = PeriGnt
  /\ IF PeriGnt THEN \E p \in Peri : valid[p] /\ rdataSrc' = p
                ELSE rdataSrc' = rdataSrc

(* Variant: the read stays in CLK_13 one clock longer after its answer. *)
CanStepLate(p) ==
  CASE can[p] = "IDLE"     -> IF cmd[p] # NoAccess THEN "CLK_1" ELSE "IDLE"
    [] can[p] = "CLK_1"    -> "CLK_2"
    [] can[p] = "CLK_2"    -> "CLK_3"
    [] can[p] = "CLK_3"    -> "CLK_4"
    [] can[p] = "CLK_4"    -> "CLK_5"
    [] can[p] = "CLK_5"    -> IF canRd[p] THEN "CLK_9_RD" ELSE "CLK_9_WR"
    [] can[p] = "CLK_9_RD" -> IF wait[p] = 5 THEN "CLK_13" ELSE "CLK_9_RD"
    [] can[p] = "CLK_9_WR" -> IF wait[p] = 3 THEN "CLK_10" ELSE "CLK_9_WR"
    [] can[p] = "CLK_10"   -> "CLK_11"
    [] can[p] = "CLK_11"   -> "IDLE"
    [] can[p] = "CLK_13"   -> IF wait[p] = 8 THEN "CLK_14" ELSE "CLK_13"
    [] can[p] = "CLK_14"   -> "IDLE"

(* state_can after this edge. *)
CanStep(p) ==
  CASE can[p] = "IDLE"     -> IF cmd[p] # NoAccess THEN "CLK_1" ELSE "IDLE"
    [] can[p] = "CLK_1"    -> "CLK_2"
    [] can[p] = "CLK_2"    -> "CLK_3"
    [] can[p] = "CLK_3"    -> "CLK_4"
    [] can[p] = "CLK_4"    -> "CLK_5"
    [] can[p] = "CLK_5"    -> IF canRd[p] THEN "CLK_9_RD" ELSE "CLK_9_WR"
    [] can[p] = "CLK_9_RD" -> IF wait[p] = 5 THEN "CLK_13" ELSE "CLK_9_RD"
    [] can[p] = "CLK_9_WR" -> IF wait[p] = 3 THEN "CLK_10" ELSE "CLK_9_WR"
    [] can[p] = "CLK_10"   -> "CLK_11"
    [] can[p] = "CLK_11"   -> "IDLE"
    [] can[p] = "CLK_13"   -> IF wait[p] = 7 THEN "CLK_14" ELSE "CLK_13"
    [] can[p] = "CLK_14"   -> "IDLE"

(* Variant: only reads are answered. *)
CanValidReadOnly(p) ==
  CASE can[p] \in {"IDLE", "CLK_13"} -> FALSE
    [] can[p] = "CLK_9_RD" /\ wait[p] = 5 -> TRUE
    [] OTHER -> valid[p]

(* dout_32b_valid_o of the CAN interface keeps its value in other states. *)
CanValid(p) ==
  CASE can[p] \in {"IDLE", "CLK_13"} -> FALSE
    [] can[p] = "CLK_11" \/ (can[p] = "CLK_9_RD" /\ wait[p] = 5) -> TRUE
    [] OTHER -> valid[p]

(* Variant: the wait counter is not cleared in CLK_5 and never wraps. *)
ReadWriteCanNoReset ==
  /\ can' = [p \in CanPeri |-> CanStep(p)]
  /\ wait' = [p \in CanPeri |->
                IF can[p] \in {"CLK_9_RD", "CLK_9_WR", "CLK_13"}
                THEN wait[p] + 1 ELSE wait[p]]
  /\ canRd' = [p \in CanPeri |->
                 IF can[p] = "IDLE" THEN cmd[p] # NoAccess /\ cmd[p].op = "rd"
                                    ELSE canRd[p]]

(* The registers of read_write_can.v that steer its bus cycle. *)
ReadWriteCan ==
  /\ can' = [p \in CanPeri |-> CanStep(p)]
  /\ wait' = [p \in CanPeri |->
                IF can[p] = "CLK_5" THEN 0
                ELSE IF can[p] \in {"CLK_9_RD", "CLK_9_WR", "CLK_13"}
                THEN (wait[p] + 1) % 16 ELSE wait[p]]
  /\ canRd' = [p \in CanPeri |->
                 IF can[p] = "IDLE" THEN cmd[p] # NoAccess /\ cmd[p].op = "rd"
                                    ELSE canRd[p]]

(* dout_32b_valid_o of every peripheral. *)
PeriValid ==
  valid' = [p \in Peri |-> IF p \in CanPeri THEN CanValid(p) ELSE Performs(p)]

(* How often the access in EX has been carried out so far (two is many). *)
ServedStep ==
  served' = IF LsuReadyEx THEN 0
            ELSE IF (\E p \in Peri : Performs(p)) /\ served < 2
            THEN served + 1 ELSE served

Clock(next) ==
  /\ LsuCount
  /\ ExStage(next)
  /\ MemPipe
  /\ ConnectBus
  /\ ReadWriteCan
  /\ PeriValid
  /\ ServedStep

Next == \E next \in Program \cup {NoAccess} : Clock(next)

(* The clock never stops. *)
Spec     == Init /\ [][Next]_vars
FairSpec == Spec /\ WF_vars(Next)
-----------------------------------------------------------------------------
TypeOK ==
  /\ ex \in Access \cup {NoAccess}
  /\ cnt \in 0 .. 3
  /\ mem0 \in BOOLEAN /\ mem1 \in BOOLEAN
  /\ cmd \in [Peri -> Access \cup {NoAccess}]
  /\ preWrRd \in [Peri -> BOOLEAN]
  /\ periReady \in BOOLEAN
  /\ rdataSrc \in Peri \cup {NoAccess}
  /\ valid \in [Peri -> BOOLEAN]
  /\ can \in [CanPeri -> CanStates]
  /\ wait \in [CanPeri -> 0 .. 15]
  /\ canRd \in [CanPeri -> BOOLEAN]
  /\ served \in 0 .. 2

(* Responses on their way: RAM accesses in the two stages of its pipeline   *)
(* and the peripheral answer held in peri_ready_o.                          *)
InFlight == (IF mem0 THEN 1 ELSE 0) + (IF mem1 THEN 1 ELSE 0)
            + (IF periReady THEN 1 ELSE 0)

(* The load/store unit's counter is the number of responses on their way,   *)
(* and RAM and peripherals never answer in one cycle, where data_rvalid_m | *)
(* peri_ready would merge the two.  This is what the unit's assertions      *)
(* p_no_transaction_count_overflow_0/1 and p_no_spurious_rvalid need.       *)
CountMatchesInFlight ==
  /\ cnt = InFlight
  /\ cnt <= DEPTH
  /\ ~(mem1 /\ periReady)

(* A command pulse always finds its peripheral able to take it: the CAN     *)
(* interface looks at wren_i/rden_i in IDLE only, grants a read three       *)
(* clocks before it is back there, and a pulse it misses is never repeated. *)
CommandsLand == \A p \in CanPeri : cmd[p] # NoAccess => can[p] = "IDLE"

(* A grant that comes from a peripheral goes to the access that caused it,  *)
(* and that access has been carried out exactly once: gnt_o is the OR of    *)
(* all valid lines and carries no name.                                     *)
GrantMatchesRequest ==
  \A p \in Peri : valid[p] => Selects(p) /\ served = 1 /\ \A q \in Peri : valid[q] => q = p

(* Every access software presents is granted at last. *)
EveryAccessGranted == TransValid ~> CountUp
-----------------------------------------------------------------------------
(* The responding target comes first, the RAM access behind it second. *)
OutstandingTargets ==
  (IF mem1 THEN <<Mem>> ELSE << >>)
  \o (IF periReady THEN <<rdataSrc>> ELSE << >>)
  \o (IF mem0 THEN <<Mem>> ELSE << >>)

Obi == INSTANCE ObiBus WITH
         Depth <- DEPTH,
         req   <- IF cnt < DEPTH THEN ex ELSE NoAccess,
         outst <- OutstandingTargets

(* The bus keeps the promise of ObiBus: answers in order of acceptance,     *)
(* each access accepted once and answered once.                             *)
ImplementsObi == Obi!Spec
=============================================================================
