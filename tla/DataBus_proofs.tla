--------------------------- MODULE DataBus_proofs ---------------------------
(***************************************************************************)
(* Proofs about DataBus for any number of peripherals of either kind, any  *)
(* software (Program, spaced or not) and any length of run.                *)
(***************************************************************************)
EXTENDS DataBus, SequenceTheorems, TLAPS

(* A peripheral is at work for the access in EX: the request is held, no    *)
(* second command can follow, and everything accepted before was answered.  *)
Working(p) ==
  /\ Selects(p) /\ preWrRd[p]
  /\ served = 1
  /\ \A q \in Peri : cmd[q] = NoAccess
  /\ ~mem0 /\ ~mem1 /\ ~periReady

(* A command on its way belongs to the access in EX, not yet carried out. *)
CommandInv ==
  \A p \in Peri : cmd[p] # NoAccess =>
    /\ cmd[p] = ex /\ Selects(p) /\ preWrRd[p] /\ served = 0
    /\ ~mem0 /\ ~periReady
    /\ \A q \in Peri : ~valid[q]
    /\ p \in CanPeri => can[p] = "IDLE"

(* An answer belongs to the access in EX. *)
AnswerInv ==
  \A p \in Peri : valid[p] =>
    /\ Working(p)
    /\ \A q \in Peri : valid[q] => q = p
    /\ p \in CanPeri => can[p] = "IDLE" \/ (can[p] = "CLK_13" /\ wait[p] = 6)

(* The CAN interface: at work for the access in EX up to its answer, and    *)
(* on the way back to IDLE afterwards with no command coming.               *)
CanBusy == {"CLK_1", "CLK_2", "CLK_3", "CLK_4", "CLK_5", "CLK_9_RD", "CLK_9_WR",
            "CLK_10", "CLK_11"}

CanInv ==
  \A p \in CanPeri :
    /\ can[p] \in CanBusy => Working(p) /\ \A q \in Peri : ~valid[q]
    /\ can[p] = "CLK_13" =>
         \/ valid[p] /\ wait[p] = 6
         \/ ~valid[p] /\ wait[p] = 7 /\ preWrRd[p] /\ cmd[p] = NoAccess
    /\ can[p] = "CLK_14" => ~valid[p] /\ cmd[p] = NoAccess

(* The access in EX is fresh until its first cycle is over; with two        *)
(* accesses outstanding the one in EX is a RAM access already accepted.     *)
FreshInv ==
  /\ \A p \in Peri : Selects(p) /\ ~preWrRd[p] => served = 0
  /\ cnt = DEPTH => ex # NoAccess /\ ex.to = Mem
  /\ periReady => rdataSrc \in Peri

IInv ==
  /\ TypeOK
  /\ CountMatchesInFlight
  /\ CommandInv
  /\ AnswerInv
  /\ CanInv
  /\ FreshInv
-----------------------------------------------------------------------------
(* Every register stays in its range, whatever enters EX. *)
LEMMA TypeStep ==
  ASSUME TypeOK, NEW next \in Program \cup {NoAccess}, Clock(next)
  PROVE  TypeOK'
<1> USE DEF TypeOK
<1> next \in Access \cup {NoAccess}
  BY Targets
<1>1. ex' \in Access \cup {NoAccess}
  BY DEF Clock, ExStage
<1>2. cnt' \in 0 .. 3
  BY DEF Clock, LsuCount
<1>3. mem0' \in BOOLEAN /\ mem1' \in BOOLEAN
  BY DEF Clock, MemPipe, DataReqMem, TransValid
<1>4. /\ cmd' \in [Peri -> Access \cup {NoAccess}]
      /\ preWrRd' \in [Peri -> BOOLEAN]
      /\ periReady' \in BOOLEAN
      /\ rdataSrc' \in Peri \cup {NoAccess}
  BY DEF Clock, ConnectBus, Selects, TransValid, PeriGnt
<1>5. can' \in [CanPeri -> CanStates]
  <2>1. \A p \in CanPeri : CanStep(p) \in CanStates
    BY DEF CanStep, CanStates
  <2> QED
    BY <2>1 DEF Clock, ReadWriteCan
<1>6. wait' \in [CanPeri -> 0 .. 15] /\ canRd' \in [CanPeri -> BOOLEAN]
  <2>1. \A n \in 0 .. 15 : (n + 1) % 16 \in 0 .. 15
    OBVIOUS
  <2>2. wait' \in [CanPeri -> 0 .. 15]
    BY <2>1 DEF Clock, ReadWriteCan
  <2>3. canRd' \in [CanPeri -> BOOLEAN]
    BY DEF Clock, ReadWriteCan
  <2> QED
    BY <2>2, <2>3
<1>7. valid' \in [Peri -> BOOLEAN]
  <2>1. \A p \in CanPeri : CanValid(p) \in BOOLEAN
    BY DEF CanValid, Peri
  <2>2. \A p \in Peri : Performs(p) \in BOOLEAN
    BY DEF Performs
  <2> QED
    BY <2>1, <2>2 DEF Clock, PeriValid
<1>8. served' \in 0 .. 2
  BY DEF Clock, ServedStep
<1> QED
  BY <1>1, <1>2, <1>3, <1>4, <1>5, <1>6, <1>7, <1>8

(* The registers start in their ranges. *)
LEMMA InitTypes == Init => TypeOK
<1> SUFFICES ASSUME Init PROVE TypeOK
  OBVIOUS
<1>1. can \in [CanPeri -> CanStates]
  BY DEF Init, CanStates
<1>2. wait \in [CanPeri -> 0 .. 15] /\ canRd \in [CanPeri -> BOOLEAN]
  BY DEF Init
<1>3. /\ cmd \in [Peri -> Access \cup {NoAccess}]
      /\ preWrRd \in [Peri -> BOOLEAN]
      /\ valid \in [Peri -> BOOLEAN]
  BY DEF Init
<1>4. /\ ex \in Access \cup {NoAccess}
      /\ cnt \in 0 .. 3 /\ served \in 0 .. 2
      /\ rdataSrc \in Peri \cup {NoAccess}
  BY SMT DEF Init
<1>5. mem0 \in BOOLEAN /\ mem1 \in BOOLEAN /\ periReady \in BOOLEAN
  BY Zenon DEF Init
<1> QED
  BY <1>1, <1>2, <1>3, <1>4, <1>5 DEF TypeOK

(* Type correctness of the data path. *)
THEOREM TypeCorrect == Spec => []TypeOK
<1>1. Init => TypeOK
  BY InitTypes
<1>2. TypeOK /\ [Next]_vars => TypeOK'
  <2> SUFFICES ASSUME TypeOK, [Next]_vars PROVE TypeOK'
    OBVIOUS
  <2>1. CASE Next
    BY <2>1, TypeStep DEF Next
  <2>2. CASE UNCHANGED vars
    BY <2>2 DEF vars, TypeOK
  <2> QED
    BY <2>1, <2>2
<1> QED
  BY <1>1, <1>2, PTL DEF Spec
-----------------------------------------------------------------------------
(* What a grant from a peripheral means, as the invariant has it: the access *)
(* in EX is for that peripheral and nothing else is on its way.              *)
LEMMA PeriGntMeans ==
  ASSUME IInv, PeriGnt
  PROVE  /\ TransValid /\ ex.to \in Peri /\ ex.to # Mem
         /\ valid[ex.to] /\ Working(ex.to)
         /\ ~DataReqMem /\ cnt = 0
<1>1. PICK p \in Peri : valid[p]
  BY DEF PeriGnt
<1>2. Working(p)
  BY <1>1 DEF IInv, AnswerInv
<1>3. ex.to = p /\ TransValid
  BY <1>2 DEF Working, Selects
<1>4. p # Mem
  BY Targets
<1>5. cnt = 0
  BY <1>2 DEF Working, IInv, CountMatchesInFlight, InFlight
<1> QED
  BY <1>1, <1>2, <1>3, <1>4, <1>5 DEF DataReqMem

(* The counter follows the responses on their way. *)
LEMMA CountStep ==
  ASSUME IInv, TypeOK', NEW next \in Program \cup {NoAccess}, Clock(next)
  PROVE  CountMatchesInFlight'
<1> DEFINE N(b) == IF b THEN 1 ELSE 0
<1>0. /\ mem0 \in BOOLEAN /\ mem1 \in BOOLEAN /\ periReady \in BOOLEAN
      /\ cnt = N(mem0) + N(mem1) + N(periReady)
      /\ ~(mem1 /\ periReady)
  BY DEF IInv, TypeOK, CountMatchesInFlight, InFlight
<1>1. mem0' = DataReqMem /\ mem1' = mem0 /\ periReady' = PeriGnt
  BY DEF Clock, MemPipe, ConnectBus
<1>2. CountUp <=> (DataReqMem \/ PeriGnt)
  BY PeriGntMeans DEF CountUp, Gnt, DataReqMem
<1>3. CountDown <=> (mem1 \/ periReady)
  BY DEF CountDown, Rvalid
<1>4. ~(DataReqMem /\ PeriGnt) /\ (PeriGnt => ~mem0 /\ ~mem1 /\ ~periReady)
  BY PeriGntMeans DEF Working
<1>5. DataReqMem => cnt < 2
  BY DEF DataReqMem, TransValid, DEPTH
<1>6. cnt' = IF CountUp /\ ~CountDown THEN (cnt + 1) % 4
             ELSE IF CountDown /\ ~CountUp THEN (cnt + 3) % 4 ELSE cnt
  BY DEF Clock, LsuCount
<1>7. cnt' = N(mem0') + N(mem1') + N(periReady')
  <2>1. CASE CountUp /\ CountDown
    BY <2>1, <1>0, <1>1, <1>2, <1>3, <1>4, <1>6
  <2>2. CASE CountUp /\ ~CountDown
    BY <2>2, <1>0, <1>1, <1>2, <1>3, <1>4, <1>6
  <2>3. CASE ~CountUp /\ CountDown
    BY <2>3, <1>0, <1>1, <1>2, <1>3, <1>4, <1>6
  <2>4. CASE ~CountUp /\ ~CountDown
    BY <2>4, <1>0, <1>1, <1>2, <1>3, <1>4, <1>6
  <2> QED
    BY <2>1, <2>2, <2>3, <2>4
<1>8. ~(mem1' /\ periReady')
  BY <1>1, <1>4
<1>9. cnt' <= DEPTH
  BY <1>7, <1>8 DEF DEPTH
<1> QED
  BY <1>7, <1>8, <1>9 DEF CountMatchesInFlight, InFlight

(* A request for a peripheral that no peripheral answers in this cycle is    *)
(* held, and only its first cycle sends a command.                           *)
LEMMA HeldCycle ==
  ASSUME IInv, NEW next \in Program \cup {NoAccess}, Clock(next),
         NEW p \in Peri, Selects(p), ~PeriGnt
  PROVE  /\ ~LsuReadyEx /\ ex' = ex /\ Selects(p)' /\ preWrRd'[p]
         /\ \A q \in Peri : cmd'[q] = IF q = p /\ ~preWrRd[p] THEN ex ELSE NoAccess
         /\ ~mem0' /\ mem1' = mem0 /\ ~periReady'
         /\ served' = IF (\E q \in Peri : Performs(q)) /\ served < 2
                      THEN served + 1 ELSE served
<1>1. ex # NoAccess /\ cnt \in {0, 1} /\ ex.to = p /\ p # Mem
  BY Targets DEF Selects, TransValid, DEPTH, IInv, TypeOK
<1>2. ~CountUp /\ ~DataReqMem
  BY <1>1 DEF CountUp, Gnt, DataReqMem
<1>3. ~LsuReadyEx
  BY <1>1, <1>2 DEF LsuReadyEx
<1>4. ex' = ex
  BY <1>3 DEF Clock, ExStage
<1>5. CountDown => cnt = 1
  BY <1>1 DEF CountDown, Rvalid, IInv, TypeOK, CountMatchesInFlight, InFlight
<1>6. cnt' \in {0, 1}
  BY <1>1, <1>2, <1>5 DEF Clock, LsuCount
<1>7. Selects(p)'
  BY <1>1, <1>4, <1>6 DEF Selects, TransValid, DEPTH
<1>8. /\ preWrRd'[p]
      /\ \A q \in Peri : cmd'[q] = IF q = p /\ ~preWrRd[p] THEN ex ELSE NoAccess
  BY <1>1 DEF Clock, ConnectBus, Selects
<1>9. ~mem0' /\ mem1' = mem0 /\ ~periReady'
  BY <1>2 DEF Clock, MemPipe, ConnectBus
<1> QED
  BY <1>3, <1>4, <1>7, <1>8, <1>9 DEF Clock, ServedStep

(* Where the CAN interface goes from each state, and when it answers. *)
LEMMA CanMoves ==
  ASSUME IInv, NEW next \in Program \cup {NoAccess}, Clock(next), NEW p \in CanPeri
  PROVE  /\ can[p] = "IDLE" => can'[p] = IF cmd[p] # NoAccess THEN "CLK_1" ELSE "IDLE"
         /\ can[p] \in CanBusy => can'[p] \in CanBusy \cup {"IDLE", "CLK_13"}
         /\ can[p] = "CLK_13" => can'[p] = IF wait[p] = 7 THEN "CLK_14" ELSE "CLK_13"
         /\ can[p] = "CLK_14" => can'[p] = "IDLE"
         /\ valid'[p] => can[p] \in CanBusy /\ ~PeriGnt
         /\ can'[p] \in CanBusy /\ valid'[p] => FALSE
         /\ can[p] \in CanBusy /\ can'[p] = "CLK_13" => valid'[p] /\ wait'[p] = 6
         /\ can[p] = "CLK_13" => ~valid'[p] /\ wait'[p] = (wait[p] + 1) % 16
         /\ can[p] \in CanBusy /\ can'[p] = "IDLE" => valid'[p]
<1> p \in Peri
  BY DEF Peri
<1>1. can[p] \in CanStates /\ wait[p] \in 0 .. 15
  BY DEF IInv, TypeOK
<1>2. can'[p] = CanStep(p) /\ valid'[p] = CanValid(p)
  BY DEF Clock, ReadWriteCan, PeriValid
<1>3. wait'[p] = IF can[p] = "CLK_5" THEN 0
                 ELSE IF can[p] \in {"CLK_9_RD", "CLK_9_WR", "CLK_13"}
                 THEN (wait[p] + 1) % 16 ELSE wait[p]
  BY DEF Clock, ReadWriteCan
<1>4. can[p] \in CanBusy => ~valid[p] /\ ~PeriGnt
  BY DEF IInv, CanInv, PeriGnt
<1>5. valid[p] => can[p] \in {"IDLE", "CLK_13"}
  BY DEF IInv, AnswerInv
<1>6. CASE can[p] \in {"IDLE", "CLK_13", "CLK_14"}
  BY <1>6, <1>2, <1>3, <1>5 DEF CanStep, CanValid, CanBusy
<1>7. CASE can[p] \in CanBusy \ {"CLK_9_RD", "CLK_9_WR", "CLK_11"}
  BY <1>7, <1>2, <1>4 DEF CanStep, CanValid, CanBusy
<1>8. CASE can[p] \in {"CLK_9_RD", "CLK_9_WR", "CLK_11"}
  BY <1>8, <1>1, <1>2, <1>3, <1>4 DEF CanStep, CanValid, CanBusy
<1> QED
  BY <1>1, <1>6, <1>7, <1>8 DEF CanStates, CanBusy

(* A command goes out for a fresh access only, and finds its target idle. *)
LEMMA CommandStep ==
  ASSUME IInv, NEW next \in Program \cup {NoAccess}, Clock(next)
  PROVE  CommandInv'
<1> SUFFICES ASSUME NEW p \in Peri, cmd'[p] # NoAccess
             PROVE  /\ cmd'[p] = ex' /\ Selects(p)' /\ preWrRd'[p] /\ served' = 0
                    /\ ~mem0' /\ ~periReady'
                    /\ \A q \in Peri : ~valid'[q]
                    /\ p \in CanPeri => can'[p] = "IDLE"
  BY DEF CommandInv
<1>1. Selects(p) /\ ~preWrRd[p] /\ cmd'[p] = ex
  BY DEF Clock, ConnectBus
<1>2. served = 0
  BY <1>1 DEF IInv, FreshInv
<1>3. \A q \in Peri : ~(Working(q) \/ (Selects(q) /\ preWrRd[q]))
  BY <1>1 DEF Working, Selects
<1>4. ~PeriGnt
  BY <1>3 DEF PeriGnt, IInv, AnswerInv
<1>5. \A q \in Peri : cmd[q] = NoAccess
  BY <1>3 DEF IInv, CommandInv
<1>6. \A q \in Peri : ~Performs(q)
  BY <1>5 DEF Performs
<1>7. \A q \in CanPeri : can[q] \notin CanBusy
  BY <1>3 DEF IInv, CanInv, Peri
<1>8. \A q \in Peri : ~valid'[q]
  <2> TAKE q \in Peri
  <2>1. CASE q \in CanPeri
    BY <2>1, <1>7, CanMoves
  <2>2. CASE q \notin CanPeri
    BY <2>2, <1>6 DEF Clock, PeriValid
  <2> QED
    BY <2>1, <2>2
<1>9. p \in CanPeri => can'[p] = "IDLE"
  <2> SUFFICES ASSUME p \in CanPeri PROVE can'[p] = "IDLE"
    OBVIOUS
  <2>1. can[p] # "CLK_13"
    BY <1>1, <1>4 DEF IInv, CanInv, PeriGnt
  <2>2. can[p] \in {"IDLE", "CLK_14"}
    BY <2>1, <1>7 DEF IInv, TypeOK, CanStates, CanBusy
  <2> QED
    BY <2>2, <1>5, CanMoves
<1> QED
  BY <1>1, <1>2, <1>4, <1>6, <1>8, <1>9, HeldCycle

(* The cycle that follows a command taken, or work under way: a peripheral  *)
(* is at work for the access in EX.                                         *)
LEMMA WorkGoesOn ==
  ASSUME IInv, NEW next \in Program \cup {NoAccess}, Clock(next), NEW p \in Peri,
         \/ Performs(p)
         \/ Working(p) /\ ~PeriGnt
  PROVE  /\ Working(p)' /\ ~PeriGnt
         /\ \A q \in Peri : q # p => ~valid'[q]
<1>1. CASE Performs(p)
  <2>1. /\ Selects(p) /\ preWrRd[p] /\ served = 0 /\ ~mem0 /\ ~PeriGnt
    BY <1>1 DEF Performs, IInv, CommandInv, PeriGnt
  <2>2. \A q \in Peri : q # p => ~Selects(q)
    BY <2>1 DEF Selects
  <2>3. \A q \in Peri : q # p => ~Performs(q)
    BY <2>2 DEF Performs, IInv, CommandInv
  <2>4. \A q \in CanPeri : q # p => can[q] \notin CanBusy
    BY <2>2 DEF IInv, CanInv, Working, Peri
  <2>5. \A q \in Peri : q # p => ~valid'[q]
    <3> TAKE q \in Peri
    <3>1. CASE q \in CanPeri
      BY <3>1, <2>4, CanMoves
    <3>2. CASE q \notin CanPeri
      BY <3>2, <2>3 DEF Clock, PeriValid
    <3> QED
      BY <3>1, <3>2
  <2>6. served' = 1
    BY <1>1, <2>1, HeldCycle
  <2> QED
    BY <2>1, <2>5, <2>6, HeldCycle DEF Working
<1>2. CASE Working(p) /\ ~PeriGnt
  <2>1. /\ Selects(p) /\ preWrRd[p] /\ served = 1 /\ ~mem0
        /\ \A q \in Peri : ~Performs(q)
    BY <1>2 DEF Working, Performs
  <2>2. \A q \in Peri : q # p => ~Selects(q)
    BY <2>1 DEF Selects
  <2>4. \A q \in CanPeri : q # p => can[q] \notin CanBusy
    BY <2>2 DEF IInv, CanInv, Working, Peri
  <2>5. \A q \in Peri : q # p => ~valid'[q]
    <3> TAKE q \in Peri
    <3>1. CASE q \in CanPeri
      BY <3>1, <2>4, CanMoves
    <3>2. CASE q \notin CanPeri
      BY <3>2, <2>1 DEF Clock, PeriValid
    <3> QED
      BY <3>1, <3>2
  <2>6. served' = 1
    BY <1>2, <2>1, HeldCycle
  <2> QED
    BY <1>2, <2>1, <2>5, <2>6, HeldCycle DEF Working
<1> QED
  BY <1>1, <1>2

(* An answer follows the work on the access in EX. *)
LEMMA AnswerStep ==
  ASSUME IInv, NEW next \in Program \cup {NoAccess}, Clock(next)
  PROVE  AnswerInv'
<1> SUFFICES ASSUME NEW p \in Peri, valid'[p]
             PROVE  /\ Working(p)'
                    /\ \A q \in Peri : valid'[q] => q = p
                    /\ p \in CanPeri => can'[p] = "IDLE" \/ (can'[p] = "CLK_13" /\ wait'[p] = 6)
  BY DEF AnswerInv
<1>1. CASE p \in CanPeri
  <2>1. can[p] \in CanBusy /\ ~PeriGnt
    BY <1>1, CanMoves
  <2>2. Working(p)
    BY <1>1, <2>1 DEF IInv, CanInv
  <2>3. can'[p] \in {"IDLE", "CLK_13"} /\ (can'[p] = "CLK_13" => wait'[p] = 6)
    BY <1>1, <2>1, CanMoves
  <2> QED
    BY <2>1, <2>2, <2>3, WorkGoesOn
<1>2. CASE p \notin CanPeri
  <2>1. Performs(p)
    BY <1>2 DEF Clock, PeriValid
  <2> QED
    BY <1>2, <2>1, WorkGoesOn
<1> QED
  BY <1>1, <1>2

(* The CAN interface works for the access in EX, and is back in IDLE when   *)
(* the next command arrives.                                                *)
LEMMA CanStepInv ==
  ASSUME IInv, NEW next \in Program \cup {NoAccess}, Clock(next)
  PROVE  CanInv'
<1> SUFFICES ASSUME NEW p \in CanPeri
             PROVE  /\ can'[p] \in CanBusy => Working(p)' /\ \A q \in Peri : ~valid'[q]
                    /\ can'[p] = "CLK_13" =>
                         \/ valid'[p] /\ wait'[p] = 6
                         \/ ~valid'[p] /\ wait'[p] = 7 /\ preWrRd'[p] /\ cmd'[p] = NoAccess
                    /\ can'[p] = "CLK_14" => ~valid'[p] /\ cmd'[p] = NoAccess
  BY DEF CanInv
<1> p \in Peri
  BY DEF Peri
<1>1. CASE can[p] = "IDLE"
  <2>1. can'[p] \in {"IDLE", "CLK_1"} /\ (can'[p] = "CLK_1" => cmd[p] # NoAccess)
    BY <1>1, CanMoves
  <2>2. can'[p] = "CLK_1" => Performs(p)
    BY <1>1, <2>1, Targets DEF Performs
  <2>3. can'[p] = "CLK_1" => ~valid'[p]
    BY CanMoves DEF CanBusy
  <2>4. CASE can'[p] = "CLK_1"
    <3>1. Working(p)' /\ \A q \in Peri : ~valid'[q]
      BY <2>2, <2>3, <2>4, WorkGoesOn
    <3> QED
      BY <2>4, <3>1
  <2> QED
    BY <2>1, <2>4 DEF CanBusy
<1>2. CASE can[p] \in CanBusy
  <2>1. Working(p) /\ ~PeriGnt
    BY <1>2 DEF IInv, CanInv, PeriGnt
  <2>2. Working(p)' /\ \A q \in Peri : q # p => ~valid'[q]
    BY <2>1, WorkGoesOn
  <2> QED
    BY <1>2, <2>2, CanMoves DEF CanBusy
<1>3. CASE can[p] = "CLK_13"
  <2>1. CASE valid[p] /\ wait[p] = 6
    <3>1. can'[p] = "CLK_13" /\ ~valid'[p] /\ wait'[p] = 7
      BY <1>3, <2>1, CanMoves
    <3>2. Selects(p) /\ preWrRd[p]
      BY <2>1 DEF IInv, AnswerInv, Working
    <3>3. preWrRd'[p] /\ cmd'[p] = NoAccess
      BY <3>2 DEF Clock, ConnectBus
    <3> QED
      BY <3>1, <3>3 DEF CanBusy
  <2>2. CASE ~valid[p] /\ wait[p] = 7 /\ preWrRd[p] /\ cmd[p] = NoAccess
    <3>1. can'[p] = "CLK_14" /\ ~valid'[p]
      BY <1>3, <2>2, CanMoves
    <3>2. cmd'[p] = NoAccess
      BY <2>2 DEF Clock, ConnectBus
    <3> QED
      BY <3>1, <3>2 DEF CanBusy
  <2> QED
    BY <1>3, <2>1, <2>2 DEF IInv, CanInv
<1>4. CASE can[p] = "CLK_14"
  BY <1>4, CanMoves DEF CanBusy
<1> QED
  BY <1>1, <1>2, <1>3, <1>4 DEF IInv, TypeOK, CanStates, CanBusy

(* A fresh access has not been carried out. *)
LEMMA FreshStep ==
  ASSUME IInv, TypeOK', CountMatchesInFlight', NEW next \in Program \cup {NoAccess}, Clock(next)
  PROVE  FreshInv'
<1>1. ASSUME NEW p \in Peri, Selects(p)', ~preWrRd'[p]
      PROVE  served' = 0
  <2>1. ~Selects(p)
    BY <1>1 DEF Clock, ConnectBus
  <2>2. CASE LsuReadyEx
    BY <2>2 DEF Clock, ServedStep
  <2>3. CASE ~LsuReadyEx
    <3>1. ex' = ex
      BY <2>3 DEF Clock, ExStage
    <3>2. ex # NoAccess /\ ex.to = p /\ cnt = 2
      BY <1>1, <2>1, <3>1 DEF Selects, TransValid, DEPTH, IInv, CountMatchesInFlight, TypeOK
    <3> QED
      BY <3>2, Targets DEF IInv, FreshInv, DEPTH
  <2> QED
    BY <2>2, <2>3
<1>2. cnt' = DEPTH => ex' # NoAccess /\ ex'.to = Mem
  <2> SUFFICES ASSUME cnt' = 2 PROVE ex' # NoAccess /\ ex'.to = Mem
    BY DEF DEPTH
  <2>1. cnt \in 0 .. 2 /\ (cnt = 2 => mem1 \/ periReady)
    BY DEF IInv, TypeOK, CountMatchesInFlight, InFlight, DEPTH
  <2>2. cnt = 0 => ~Rvalid
    BY DEF IInv, TypeOK, CountMatchesInFlight, InFlight, Rvalid
  <2>3. cnt = 1 /\ CountUp /\ ~CountDown
    BY <2>1, <2>2 DEF Clock, LsuCount, CountDown, CountUp, TransValid, Rvalid, DEPTH
  <2>4. ~LsuReadyEx
    BY <2>3 DEF LsuReadyEx, CountDown, CountUp, TransValid
  <2>5. DataReqMem
    BY <2>3, PeriGntMeans DEF CountUp, Gnt
  <2> QED
    BY <2>4, <2>5 DEF Clock, ExStage, DataReqMem, TransValid
<1>3. periReady' => rdataSrc' \in Peri
  BY DEF Clock, ConnectBus
<1> QED
  BY <1>1, <1>2, <1>3 DEF FreshInv
-----------------------------------------------------------------------------
(* The inductive invariant holds in every state of every run. *)
THEOREM Inductive == Spec => []IInv
<1>1. Init => IInv
  <2> SUFFICES ASSUME Init PROVE IInv
    OBVIOUS
  <2>1. TypeOK
    BY InitTypes
  <2>2. CountMatchesInFlight
    BY DEF Init, CountMatchesInFlight, InFlight, DEPTH
  <2>3. CommandInv /\ AnswerInv
    BY DEF Init, CommandInv, AnswerInv
  <2>4. CanInv
    BY DEF Init, CanInv, CanBusy
  <2>5. FreshInv
    BY DEF Init, FreshInv, Selects, TransValid, DEPTH
  <2> QED
    BY <2>1, <2>2, <2>3, <2>4, <2>5 DEF IInv
<1>2. IInv /\ [Next]_vars => IInv'
  <2> SUFFICES ASSUME IInv, [Next]_vars PROVE IInv'
    OBVIOUS
  <2>1. ASSUME NEW next \in Program \cup {NoAccess}, Clock(next)
        PROVE  IInv'
    <3>1. TypeOK'
      BY <2>1, TypeStep DEF IInv
    <3>2. CountMatchesInFlight'
      BY <2>1, <3>1, CountStep
    <3>3. CommandInv' /\ AnswerInv'
      BY <2>1, CommandStep, AnswerStep
    <3>4. CanInv'
      BY <2>1, CanStepInv
    <3>5. FreshInv'
      BY <2>1, <3>1, <3>2, FreshStep
    <3> QED
      BY <3>1, <3>2, <3>3, <3>4, <3>5 DEF IInv
  <2>2. CASE UNCHANGED vars
    <3> USE <2>2 DEF vars
    <3>1. TypeOK'
      BY DEF IInv, TypeOK
    <3>2. CountMatchesInFlight'
      BY DEF IInv, CountMatchesInFlight, InFlight
    <3>3. CommandInv' /\ AnswerInv'
      BY DEF IInv, CommandInv, AnswerInv, Working, Selects, TransValid
    <3>4. CanInv'
      BY DEF IInv, CanInv, Working, Selects, TransValid
    <3>5. FreshInv'
      BY DEF IInv, FreshInv, Selects, TransValid
    <3> QED
      BY <3>1, <3>2, <3>3, <3>4, <3>5 DEF IInv
  <2> QED
    BY <2>1, <2>2 DEF Next
<1> QED
  BY <1>1, <1>2, PTL DEF Spec

(* The load/store unit's counter is always the number of responses on their *)
(* way, never above DEPTH, and no two responses coincide (cnt_q, rvalid).   *)
THEOREM CountCorrect == Spec => []CountMatchesInFlight
<1>1. IInv => CountMatchesInFlight
  BY DEF IInv
<1> QED
  BY <1>1, Inductive, PTL

(* No command pulse of connect_bus.v reaches read_write_can.v outside IDLE. *)
THEOREM CommandsCorrect == Spec => []CommandsLand
<1>1. IInv => CommandsLand
  BY DEF IInv, CommandInv, CommandsLand, Peri
<1> QED
  BY <1>1, Inductive, PTL

(* gnt_o goes to the access that caused it, carried out exactly once. *)
THEOREM GrantsCorrect == Spec => []GrantMatchesRequest
<1>1. IInv => GrantMatchesRequest
  BY DEF IInv, AnswerInv, Working, GrantMatchesRequest
<1> QED
  BY <1>1, Inductive, PTL
-----------------------------------------------------------------------------
(* Two accesses waiting: the queue, and what is left when its head goes. *)
LEMMA TwoTargets ==
  ASSUME NEW x, NEW y
  PROVE  /\ <<x>> \o << >> \o <<y>> = <<x, y>>
         /\ << >> \o <<x>> \o <<y>> = <<x, y>>
         /\ <<x, y>> # << >> /\ Tail(<<x, y>>) = <<y>>
<1>1. /\ <<x>> \o << >> \o <<y>> = Append(<<x>>, y)
      /\ << >> \o <<x>> \o <<y>> = Append(<<x>>, y)
  OBVIOUS
<1>2. Append(<<x>>, y) = <<x, y>>
  <2> DEFINE s == Append(<<x>>, y)
             t == <<x, y>>
  <2>1. s \in Seq({x, y}) /\ Len(s) = 2 /\ s[1] = x /\ s[2] = y
    OBVIOUS
  <2>2. t \in Seq({x, y}) /\ Len(t) = 2 /\ t[1] = x /\ t[2] = y
    OBVIOUS
  <2>3. \A i \in 1 .. Len(s) : s[i] = t[i]
    BY <2>1, <2>2
  <2> HIDE DEF s, t
  <2>4. s = t
    BY <2>1, <2>2, <2>3, SeqEqual
  <2> QED
    BY <2>4 DEF s, t
<1>3. <<x, y>> # << >>
  OBVIOUS
<1>4. Tail(<<x, y>>) = <<y>>
  OBVIOUS
<1>5. <<x>> \o << >> \o <<y>> = <<x, y>> /\ << >> \o <<x>> \o <<y>> = <<x, y>>
  BY <1>1, <1>2, Zenon
<1> QED
  BY <1>3, <1>4, <1>5, Zenon

(* The queue of ObiBus is at most one response at its head and the RAM      *)
(* access behind it; the head is answered in every cycle that has one.      *)
LEMMA QueueAnswered ==
  ASSUME IInv
  PROVE  /\ Rvalid => OutstandingTargets # << >>
         /\ (IF Rvalid THEN Tail(OutstandingTargets) ELSE OutstandingTargets)
              = IF mem0 THEN <<Mem>> ELSE << >>
<1>1. mem0 \in BOOLEAN /\ mem1 \in BOOLEAN /\ periReady \in BOOLEAN /\ ~(mem1 /\ periReady)
  BY DEF IInv, TypeOK, CountMatchesInFlight
<1> DEFINE B == IF mem0 THEN <<Mem>> ELSE << >>
<1>2. CASE mem1 /\ ~periReady
  <2>1. OutstandingTargets = <<Mem>> \o << >> \o B
    BY <1>2 DEF OutstandingTargets
  <2>2. CASE mem0
    <3>1. OutstandingTargets = <<Mem>> \o << >> \o <<Mem>>
      BY <2>1, <2>2
    <3>2. OutstandingTargets = <<Mem, Mem>>
      BY <3>1, TwoTargets
    <3>3. OutstandingTargets # << >> /\ Tail(OutstandingTargets) = <<Mem>>
      BY <3>2, TwoTargets
    <3> QED
      BY <3>3, <2>2, <1>2 DEF Rvalid
  <2>3. CASE ~mem0
    BY <2>1, <2>3, <1>2 DEF Rvalid
  <2> QED
    BY <1>1, <2>2, <2>3
<1>3. CASE periReady /\ ~mem1
  <2>1. OutstandingTargets = << >> \o <<rdataSrc>> \o B
    BY <1>3 DEF OutstandingTargets
  <2>2. CASE mem0
    <3>1. OutstandingTargets = << >> \o <<rdataSrc>> \o <<Mem>>
      BY <2>1, <2>2
    <3>2. OutstandingTargets = <<rdataSrc, Mem>>
      BY <3>1, TwoTargets
    <3>3. OutstandingTargets # << >> /\ Tail(OutstandingTargets) = <<Mem>>
      BY <3>2, TwoTargets
    <3> QED
      BY <3>3, <2>2, <1>3 DEF Rvalid
  <2>3. CASE ~mem0
    BY <2>1, <2>3, <1>3 DEF Rvalid
  <2> QED
    BY <1>1, <2>2, <2>3
<1>4. CASE ~periReady /\ ~mem1
  <2>1. OutstandingTargets = << >> \o << >> \o B
    BY <1>4 DEF OutstandingTargets
  <2>2. CASE mem0
    BY <2>1, <2>2, <1>4 DEF Rvalid
  <2>3. CASE ~mem0
    BY <2>1, <2>3, <1>4 DEF Rvalid
  <2> QED
    BY <1>1, <2>2, <2>3
<1> QED
  BY <1>1, <1>2, <1>3, <1>4

(* An accepted access joins the queue behind what is left of it. *)
LEMMA QueueAccepts ==
  ASSUME IInv, NEW next \in Program \cup {NoAccess}, Clock(next)
  PROVE  LET B == IF mem0 THEN <<Mem>> ELSE << >>
         IN  OutstandingTargets' = IF CountUp THEN Append(B, ex.to) ELSE B
<1> DEFINE B == IF mem0 THEN <<Mem>> ELSE << >>
<1>1. mem0' = DataReqMem /\ mem1' = mem0 /\ periReady' = PeriGnt
  BY DEF Clock, MemPipe, ConnectBus
<1>2. OutstandingTargets' = (IF mem0 THEN <<Mem>> ELSE << >>)
                            \o (IF PeriGnt THEN <<rdataSrc'>> ELSE << >>)
                            \o (IF DataReqMem THEN <<Mem>> ELSE << >>)
  BY <1>1 DEF OutstandingTargets
<1>3. CASE PeriGnt
  <2>1. ~mem0 /\ ~DataReqMem /\ TransValid /\ CountUp
    BY <1>3, PeriGntMeans DEF Working, CountUp, Gnt
  <2>2. rdataSrc' = ex.to
    BY <1>3, PeriGntMeans DEF Clock, ConnectBus, IInv, AnswerInv
  <2>3. OutstandingTargets' = << >> \o <<ex.to>> \o << >>
    BY <1>2, <1>3, <2>1, <2>2
  <2>4. << >> \o <<ex.to>> \o << >> = Append(<< >>, ex.to)
    OBVIOUS
  <2> QED
    BY <2>1, <2>3, <2>4
<1>4. CASE ~PeriGnt /\ DataReqMem
  <2>1. CountUp /\ ex.to = Mem
    BY <1>4 DEF CountUp, Gnt, DataReqMem
  <2>2. OutstandingTargets' = B \o << >> \o <<Mem>>
    BY <1>2, <1>4
  <2>3. << >> \o << >> \o <<Mem>> = Append(<< >>, Mem)
    OBVIOUS
  <2>4. <<Mem>> \o << >> \o <<Mem>> = Append(<<Mem>>, Mem)
    OBVIOUS
  <2>5. CASE mem0
    BY <2>1, <2>2, <2>4, <2>5
  <2>6. CASE ~mem0
    BY <2>1, <2>2, <2>3, <2>6
  <2> QED
    BY <2>5, <2>6
<1>5. CASE ~PeriGnt /\ ~DataReqMem
  <2>1. ~CountUp
    BY <1>5 DEF CountUp, Gnt
  <2>2. OutstandingTargets' = B \o << >> \o << >>
    BY <1>2, <1>5
  <2>3. << >> \o << >> \o << >> = << >> /\ <<Mem>> \o << >> \o << >> = <<Mem>>
    OBVIOUS
  <2>4. CASE mem0
    BY <2>1, <2>2, <2>3, <2>4
  <2>5. CASE ~mem0
    BY <2>1, <2>2, <2>3, <2>5
  <2> QED
    BY <2>4, <2>5
<1> QED
  BY <1>3, <1>4, <1>5

(* The access the master presents stays until it is accepted. *)
LEMMA RequestStays ==
  ASSUME IInv, NEW next \in Program \cup {NoAccess}, Clock(next),
         ~CountUp, cnt < DEPTH, ex # NoAccess
  PROVE  ex' = ex /\ cnt' < DEPTH
<1>1. cnt \in {0, 1}
  BY DEF IInv, TypeOK, DEPTH
<1>2. cnt = 0 => ~CountDown
  BY <1>1 DEF CountDown, Rvalid, IInv, TypeOK, CountMatchesInFlight, InFlight
<1>3. ~LsuReadyEx
  BY <1>1 DEF LsuReadyEx
<1>4. cnt' \in {0, 1}
  BY <1>1, <1>2 DEF Clock, LsuCount
<1> QED
  BY <1>3, <1>4 DEF Clock, ExStage, DEPTH

(* The queue is as long as the responses on their way are many. *)
LEMMA LengthInFlight ==
  ASSUME IInv
  PROVE  Len(OutstandingTargets) = InFlight
<1> DEFINE A == IF mem1 THEN <<Mem>> ELSE << >>
           P == IF periReady THEN <<rdataSrc>> ELSE << >>
           B == IF mem0 THEN <<Mem>> ELSE << >>
<1> USE DEF InFlight
<1>1. mem0 \in BOOLEAN /\ mem1 \in BOOLEAN /\ periReady \in BOOLEAN /\ ~(mem1 /\ periReady)
  BY DEF IInv, TypeOK, CountMatchesInFlight
<1>2. OutstandingTargets = A \o P \o B
  BY DEF OutstandingTargets
<1>3. CASE mem1 /\ ~periReady /\ mem0
  <2>1. OutstandingTargets = <<Mem>> \o << >> \o <<Mem>>
    BY <1>2, <1>3
  <2> QED
    BY <2>1, <1>3
<1>4. CASE mem1 /\ ~periReady /\ ~mem0
  <2>1. OutstandingTargets = <<Mem>> \o << >> \o << >>
    BY <1>2, <1>4
  <2> QED
    BY <2>1, <1>4
<1>5. CASE ~mem1 /\ periReady /\ mem0
  <2>1. OutstandingTargets = << >> \o <<rdataSrc>> \o <<Mem>>
    BY <1>2, <1>5
  <2> QED
    BY <2>1, <1>5
<1>6. CASE ~mem1 /\ periReady /\ ~mem0
  <2>1. OutstandingTargets = << >> \o <<rdataSrc>> \o << >>
    BY <1>2, <1>6
  <2> QED
    BY <2>1, <1>6
<1>7. CASE ~mem1 /\ ~periReady /\ mem0
  <2>1. OutstandingTargets = << >> \o << >> \o <<Mem>>
    BY <1>2, <1>7
  <2> QED
    BY <2>1, <1>7
<1>8. CASE ~mem1 /\ ~periReady /\ ~mem0
  <2>1. OutstandingTargets = << >> \o << >> \o << >>
    BY <1>2, <1>8
  <2> QED
    BY <2>1, <1>8
<1> QED
  BY <1>1, <1>3, <1>4, <1>5, <1>6, <1>7, <1>8

(* One clock of the data path is one clock of the promised bus. *)
LEMMA ObiStep ==
  ASSUME IInv, IInv', NEW next \in Program \cup {NoAccess}, Clock(next)
  PROVE  Obi!Next
<1> DEFINE R == IF cnt < DEPTH THEN ex ELSE NoAccess
           B == IF mem0 THEN <<Mem>> ELSE << >>
<1>1. R' \in Access \cup {NoAccess}
  BY DEF IInv, TypeOK
<1>2. Rvalid \in BOOLEAN
  BY DEF Rvalid, IInv, TypeOK
<1>3. Obi!Answered(Rvalid) = B /\ (Rvalid => OutstandingTargets # << >>)
  BY QueueAnswered DEF Obi!Answered
<1>4. CASE CountUp
  <2>1. R # NoAccess /\ R.to = ex.to
    BY <1>4 DEF CountUp, TransValid
  <2>2. OutstandingTargets' = Append(B, ex.to)
    BY <1>4, QueueAccepts
  <2>3. Len(OutstandingTargets) < DEPTH
    <3>1. cnt < 2 /\ cnt = InFlight
      BY <1>4 DEF CountUp, TransValid, DEPTH, IInv, CountMatchesInFlight
    <3>2. Len(OutstandingTargets) = InFlight
      BY LengthInFlight
    <3> QED
      BY <3>1, <3>2 DEF DEPTH
  <2>4. Obi!Edge(Rvalid, R')
    BY <1>3, <2>1, <2>2, <2>3 DEF Obi!Edge
  <2> QED
    BY <1>1, <1>2, <2>4 DEF Obi!Next
<1>5. CASE ~CountUp
  <2>1. OutstandingTargets' = B
    BY <1>5, QueueAccepts
  <2>2. R # NoAccess => R' = R
    BY <1>5, RequestStays
  <2>3. Obi!Edge(Rvalid, R')
    BY <1>3, <2>1, <2>2 DEF Obi!Edge
  <2> QED
    BY <1>1, <1>2, <2>3 DEF Obi!Next
<1> QED
  BY <1>4, <1>5

(* The bus implements the abstract one: the refinement of ImplementsObi for *)
(* every set of peripherals and every program.                              *)
THEOREM Refinement == Spec => ImplementsObi
<1>1. Init => Obi!Init
  <2> SUFFICES ASSUME Init PROVE Obi!Init
    OBVIOUS
  <2>1. OutstandingTargets = << >> \o << >> \o << >>
    BY DEF Init, OutstandingTargets
  <2>2. << >> \o << >> \o << >> = << >>
    OBVIOUS
  <2> QED
    BY <2>1, <2>2 DEF Init, Obi!Init
<1>2. IInv /\ IInv' /\ [Next]_vars => [Obi!Next]_(Obi!vars)
  <2> SUFFICES ASSUME IInv, IInv', [Next]_vars PROVE [Obi!Next]_(Obi!vars)
    OBVIOUS
  <2>1. CASE Next
    BY <2>1, ObiStep DEF Next
  <2>2. CASE UNCHANGED vars
    BY <2>2 DEF vars, Obi!vars, OutstandingTargets
  <2> QED
    BY <2>1, <2>2
<1> QED
  BY <1>1, <1>2, Inductive, PTL DEF Spec, ImplementsObi, Obi!Spec
=============================================================================
