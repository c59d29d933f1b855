--------------------------- MODULE ConfMem_proofs ---------------------------
(***************************************************************************)
(* Proofs about ConfMem for RAMs of any size, any images and any number of *)
(* packets at any distance that Requests allows.                           *)
(***************************************************************************)
EXTENDS ConfMem, FiniteSetTheorems, WellFoundedInduction, TLAPS

ConfStates == {"IDLE", "WR_SEL", "RD_SEL", "WR_PROG", "RD_PROG", "DISCARD"}
SendStates == {"IDLE", "SEND_HEAD_0", "SEND_HEAD_1", "SEND_HEAD_2", "SEND_HEAD_3"}

ConfRec == [state : ConfStates, rden : BOOLEAN, wren : BOOLEAN, addr : Address,
            wdata : Data, sel : BOOLEAN, tag : BOOLEAN]
TempRec == [r0 : BOOLEAN, r1 : BOOLEAN, a0 : Address, a1 : Address]

(* The packet the host sent last, and the clocks since its head.            *)
Is(type) == packet.type = type

HostInv ==
  /\ packet \in Packets /\ pos \in 0 .. Words /\ since \in 1 .. Space /\ sent \in 0 .. MaxPackets
  /\ pos < Words => since = pos + 1 /\ packet # NoPacket
  /\ pos = Words => since >= Words + 1
  /\ packet = NoPacket => since = Space
  /\ running \in BOOLEAN /\ written \in [Address -> Data]

(* state_conf follows the words of the packet. *)
ConfInv ==
  /\ conf \in ConfRec
  /\ conf.state = IF pos = 0 \/ pos = Words THEN "IDLE"
                  ELSE IF pos = 1 \/ Is("WR_PROG") THEN packet.type ELSE "DISCARD"
  /\ conf.wren <=> Is("WR_PROG") /\ since \in 3 .. Words + 1
  /\ conf.wren => /\ conf.addr = packet.image[since - 2].to
                  /\ conf.wdata = packet.image[since - 2].data
  /\ conf.rden <=> Is("RD_PROG") /\ since = 3
  /\ conf.rden => conf.addr = packet.to
  /\ IF Is("WR_SEL") /\ since <= 2 THEN running = ~packet.sel ELSE running = ~conf.sel

(* Where the core may store.                                                *)
DataWords == [bank : {"data"}, index : Index]

(* What the words still to come, and the one in the registers, will write. *)
Comes(k, a) == k \in 1 .. Words - 1 /\ k >= since - 2 /\ packet.image[k].to = a

RamInv ==
  /\ ram \in [Address -> Data] /\ stored \subseteq DataWords
  /\ ~Is("WR_PROG") => \A a \in Address \ stored : written[a] = ram[a]
  /\ Is("WR_PROG") => \A a \in Address :
       /\ a \notin stored /\ (\A k \in 1 .. Words - 1 : ~Comes(k, a)) => written[a] = ram[a]
       /\ \A k \in 1 .. Words - 1 :
            Comes(k, a) /\ (\A j \in 1 .. Words - 1 : j > k => packet.image[j].to # a)
            => written[a] = packet.image[k].data

(* A word read, on its way to rdata_buffer. *)
OfInstr(a) == [a EXCEPT !.bank = "instr"]

ReadInv ==
  /\ temp \in TempRec /\ ramQ \in Data /\ rdata \in Data
  /\ temp.r0 <=> Is("RD_PROG") /\ since = 4
  /\ temp.r1 <=> Is("RD_PROG") /\ since = 5
  /\ temp.r0 => temp.a0 = packet.to /\ ramQ = ram[OfInstr(packet.to)]
  /\ temp.r1 => temp.a1 = packet.to /\ rdata = ram[OfInstr(packet.to)]

SoftInv == soft \in 0 .. Words + 1 /\ softs \in 0 .. MaxSoft

-----------------------------------------------------------------------------
(* What the host may do in a clock. *)
Sends(p) ==
  /\ p # NoPacket /\ pos = Words /\ since = Space /\ sent < MaxPackets
  /\ packet' = p /\ pos' = 0 /\ since' = 1 /\ sent' = sent + 1
  /\ Asks(p)

Waits ==
  /\ since' = IF since < Space THEN since + 1 ELSE since
  /\ pos' = IF pos < Words THEN pos + 1 ELSE pos
  /\ packet' = packet /\ sent' = sent
  /\ promised' = promised /\ written' = written /\ running' = running

LEMMA Sizes ==
  /\ Words \in Nat /\ Words >= 4 /\ Space \in Nat /\ Space >= Words + 2
  /\ MaxPackets \in Nat /\ MaxSoft \in Nat /\ Blank \in Data
BY Requests

LEMMA HostStep ==
  ASSUME HostInv, NEW p \in Packets, Host(p)
  PROVE  Sends(p) \/ Waits
<1>1. CASE p # NoPacket
  BY <1>1, Sizes DEF Host, Sends, HostInv
<1>2. CASE p = NoPacket
  BY <1>2 DEF Host, Waits
<1> QED
  BY <1>1, <1>2

LEMMA ElementOf ==
  ASSUME NEW S, NEW s \in Seq(S), NEW k \in 1 .. Len(s)
  PROVE  s[k] \in S
OBVIOUS

(* A packet by its type. *)
LEMMA Kinds ==
  ASSUME NEW p \in Packets
  PROVE  /\ p.type \in {"NONE", "WR_SEL", "RD_SEL", "WR_PROG", "RD_PROG"}
         /\ p.type = "NONE" <=> p = NoPacket
         /\ p.type = "WR_SEL" => p.sel \in BOOLEAN
         /\ p.type = "WR_PROG" =>
              /\ p.image \in Seq([to : Address, data : Data]) /\ Len(p.image) = Words - 1
              /\ \A k \in 1 .. Words - 1 : p.image[k].to \in Address /\ p.image[k].data \in Data
         /\ p.type = "RD_PROG" => p.to \in Address
<1>1. CASE p = NoPacket
  BY <1>1 DEF NoPacket
<1>2. CASE p = [type |-> "RD_SEL"]
  BY <1>2 DEF NoPacket
<1>3. CASE p \in [type : {"WR_SEL"}, sel : BOOLEAN]
  BY <1>3 DEF NoPacket
<1>4. CASE p \in [type : {"WR_PROG"}, image : Images]
  <2>1. p.type = "WR_PROG" /\ p.image \in Images
    BY <1>4
  <2>2. p.image \in Seq([to : Address, data : Data]) /\ Len(p.image) = Words - 1
    BY <2>1, Requests
  <2>3. \A k \in 1 .. Words - 1 : p.image[k] \in [to : Address, data : Data]
    BY <2>2, ElementOf
  <2> QED
    BY <2>1, <2>2, <2>3 DEF NoPacket
<1>5. CASE p \in [type : {"RD_PROG"}, to : Address]
  BY <1>5 DEF NoPacket
<1> QED
  BY <1>1, <1>2, <1>3, <1>4, <1>5 DEF Packets

LEMMA MaxIn ==
  ASSUME NEW n \in Nat, NEW S \in SUBSET (1 .. n), S # {}
  PROVE  Max(S) \in S /\ \A y \in S : Max(S) >= y
<1> DEFINE T == {n - x : x \in S}
<1>1. T \subseteq Nat /\ T # {}
  <2>1. \A x \in S : x \in Nat /\ x <= n
    OBVIOUS
  <2>2. \A x \in S : n - x \in Nat
    BY <2>1
  <2>3. PICK x \in S : TRUE
    OBVIOUS
  <2>4. n - x \in T
    BY <2>3
  <2> QED
    BY <2>2, <2>4
<1>2. PICK t \in T : \A y \in T : ~(<<y, t>> \in OpToRel(<, Nat))
  BY <1>1, NatLessThanWellFounded, WFMin
<1>3. PICK x \in S : t = n - x
  BY <1>2
<1>4. ASSUME NEW y \in S PROVE x >= y
  <2>1. <<n - y, t>> \in OpToRel(<, Nat) <=> n - y < t
    BY <1>1, <1>2 DEF OpToRel
  <2>2. ~(n - y < n - x)
    BY <1>2, <1>3, <2>1, Zenon
  <2> QED
    BY <2>2
<1> QED
  BY <1>4 DEF Max

(* An image in the RAMs: its last word to an address stays. *)
LEMMA LoadedType ==
  ASSUME NEW old \in [Address -> Data], NEW image \in Seq([to : Address, data : Data])
  PROVE  /\ Loaded(old, image) \in [Address -> Data]
         /\ \A a \in Address :
              /\ (\A k \in 1 .. Len(image) : image[k].to # a) => Loaded(old, image)[a] = old[a]
              /\ \A k \in 1 .. Len(image) :
                   image[k].to = a /\ (\A j \in 1 .. Len(image) : j > k => image[j].to # a)
                   => Loaded(old, image)[a] = image[k].data
<1> DEFINE To(a) == {k \in 1 .. Len(image) : image[k].to = a}
<1>1. \A k \in 1 .. Len(image) : image[k].data \in Data
  <2>1. \A k \in 1 .. Len(image) : image[k] \in [to : Address, data : Data]
    BY ElementOf
  <2> QED
    BY <2>1
<1>2. ASSUME NEW a \in Address, To(a) # {}
      PROVE  Max(To(a)) \in To(a) /\ \A y \in To(a) : Max(To(a)) >= y
  <2>1. Len(image) \in Nat /\ To(a) \in SUBSET (1 .. Len(image))
    OBVIOUS
  <2> HIDE DEF To
  <2> QED
    BY <1>2, <2>1, MaxIn
<1>3. \A a \in Address :
        Loaded(old, image)[a] = IF To(a) = {} THEN old[a] ELSE image[Max(To(a))].data
  BY DEF Loaded
<1>4. Loaded(old, image) = [a \in Address |-> Loaded(old, image)[a]]
  BY DEF Loaded
<1>5. ASSUME NEW a \in Address PROVE Loaded(old, image)[a] \in Data
  BY <1>1, <1>2, <1>3
<1>6. ASSUME NEW a \in Address, \A k \in 1 .. Len(image) : image[k].to # a
      PROVE  Loaded(old, image)[a] = old[a]
  BY <1>3, <1>6
<1>7. ASSUME NEW a \in Address, NEW k \in 1 .. Len(image), image[k].to = a,
             \A j \in 1 .. Len(image) : j > k => image[j].to # a
      PROVE  Loaded(old, image)[a] = image[k].data
  <2>1. Max(To(a)) \in 1 .. Len(image) /\ image[Max(To(a))].to = a /\ Max(To(a)) >= k
    BY <1>2, <1>7
  <2>2. Max(To(a)) = k
    BY <1>7, <2>1
  <2> QED
    BY <1>3, <1>7, <2>2
<1> QED
  BY <1>4, <1>5, <1>6, <1>7

-----------------------------------------------------------------------------
LEMMA HostInvNext ==
  ASSUME HostInv, NEW p \in Packets, Host(p)
  PROVE  HostInv'
<1>1. CASE Sends(p)
  <2>1. running' \in BOOLEAN /\ written' \in [Address -> Data]
    <3>1. running' = IF p.type = "WR_SEL" THEN ~p.sel ELSE running
      BY <1>1 DEF Sends, Asks
    <3>2. written' = IF p.type = "WR_PROG" THEN Loaded(written, p.image) ELSE written
      BY <1>1 DEF Sends, Asks
    <3>3. p.type = "WR_SEL" => p.sel \in BOOLEAN
      BY Kinds
    <3>4. p.type = "WR_PROG" => Loaded(written, p.image) \in [Address -> Data]
      BY Kinds, LoadedType DEF HostInv
    <3> QED
      BY <3>1, <3>2, <3>3, <3>4 DEF HostInv
  <2> QED
    BY <1>1, <2>1, Sizes DEF Sends, HostInv
<1>2. CASE Waits
  BY <1>2, Sizes DEF Waits, HostInv
<1> QED
  BY <1>1, <1>2, HostStep

(* The registers of state_conf, by the word of the packet on data_in.       *)
LEMMA ConfStep ==
  ASSUME HostInv, ConfInv, Configure
  PROVE  /\ conf' \in ConfRec
         /\ pos = 0 \/ pos = Words =>
              /\ conf'.state = IF pos = 0 THEN packet.type ELSE "IDLE"
              /\ ~conf'.wren /\ ~conf'.rden /\ conf'.sel = conf.sel /\ conf'.tag = conf.tag
         /\ pos = 1 /\ Is("WR_SEL") =>
              /\ conf'.state = "DISCARD" /\ conf'.sel = packet.sel /\ conf'.tag = conf.tag
              /\ conf'.wren = conf.wren /\ conf'.rden = conf.rden
         /\ pos = 1 /\ Is("RD_SEL") =>
              /\ conf'.state = "DISCARD" /\ conf'.tag = ~conf.tag /\ conf'.sel = conf.sel
              /\ conf'.wren = conf.wren /\ conf'.rden = conf.rden
         /\ pos \in 1 .. Words - 1 /\ Is("WR_PROG") =>
              /\ conf'.state = IF pos = Words - 1 THEN "IDLE" ELSE "WR_PROG"
              /\ conf'.wren /\ conf'.rden = conf.rden
              /\ conf'.addr = packet.image[pos].to /\ conf'.wdata = packet.image[pos].data
              /\ conf'.sel = conf.sel /\ conf'.tag = conf.tag
         /\ pos = 1 /\ Is("RD_PROG") =>
              /\ conf'.state = "DISCARD" /\ conf'.rden /\ conf'.addr = packet.to
              /\ conf'.wren = conf.wren /\ conf'.sel = conf.sel /\ conf'.tag = conf.tag
         /\ pos \in 2 .. Words - 1 /\ ~Is("WR_PROG") =>
              /\ conf'.state = IF pos = Words - 1 THEN "IDLE" ELSE "DISCARD"
              /\ ~conf'.rden /\ conf'.wren = conf.wren
              /\ conf'.sel = conf.sel /\ conf'.tag = conf.tag
<1> USE Sizes
<1>1. packet \in Packets /\ pos \in 0 .. Words /\ (pos < Words => packet.type # "NONE")
  BY Kinds DEF HostInv
<1>2. packet.type \in {"NONE", "WR_SEL", "RD_SEL", "WR_PROG", "RD_PROG"}
  BY <1>1, Kinds
<1>3. /\ conf \in ConfRec
      /\ conf.state = IF pos = 0 \/ pos = Words THEN "IDLE"
                      ELSE IF pos = 1 \/ packet.type = "WR_PROG" THEN packet.type ELSE "DISCARD"
  BY DEF ConfInv, Is
<1>4. CASE Distinguish
  <2>1. pos = 0 \/ pos = Words
    BY <1>1, <1>2, <1>3, <1>4 DEF Distinguish
  <2>2. HeadIn <=> pos = 0
    BY DEF HeadIn
  <2>3. /\ conf'.state = IF HeadIn THEN packet.type ELSE "IDLE"
        /\ conf'.wren = FALSE /\ conf'.rden = FALSE /\ conf'.addr = conf.addr
        /\ conf'.wdata = conf.wdata /\ conf'.sel = conf.sel /\ conf'.tag = conf.tag
    BY <1>3, <1>4 DEF Distinguish, ConfRec
  <2>4. conf'.state = IF pos = 0 THEN packet.type ELSE "IDLE"
    BY <2>2, <2>3
  <2>5. conf'.state \in ConfStates
    BY <1>1, <1>2, <2>1, <2>4 DEF ConfStates
  <2>6. conf' \in ConfRec
    BY <1>3, <1>4, <2>5 DEF Distinguish, ConfRec
  <2> QED
    BY <2>1, <2>3, <2>4, <2>6
<1>5. CASE WriteSel
  <2>1. pos = 1 /\ packet.type = "WR_SEL"
    BY <1>1, <1>2, <1>3, <1>5 DEF WriteSel
  <2>2. packet.sel \in BOOLEAN
    BY <1>1, <2>1, Kinds
  <2>3. /\ conf' \in ConfRec /\ conf'.state = "DISCARD" /\ conf'.sel = packet.sel
        /\ conf'.wren = conf.wren /\ conf'.rden = conf.rden /\ conf'.tag = conf.tag
    BY <1>3, <1>5, <2>2 DEF WriteSel, ConfRec, ConfStates
  <2> QED
    BY <2>1, <2>3 DEF Is
<1>6. CASE ReadSel
  <2>1. pos = 1 /\ packet.type = "RD_SEL"
    BY <1>1, <1>2, <1>3, <1>6 DEF ReadSel
  <2>2. /\ conf' \in ConfRec /\ conf'.state = "DISCARD" /\ conf'.tag = ~conf.tag
        /\ conf'.wren = conf.wren /\ conf'.rden = conf.rden /\ conf'.sel = conf.sel
    BY <1>3, <1>6 DEF ReadSel, ConfRec, ConfStates
  <2> QED
    BY <2>1, <2>2 DEF Is
<1>7. CASE WriteProg
  <2>1. pos \in 1 .. Words - 1 /\ packet.type = "WR_PROG"
    BY <1>1, <1>2, <1>3, <1>7 DEF WriteProg
  <2>2. packet.image[pos].to \in Address /\ packet.image[pos].data \in Data
    BY <1>1, <2>1, Kinds
  <2>3. TailIn <=> pos = Words - 1
    BY <2>1 DEF TailIn
  <2>4. /\ conf' \in ConfRec /\ conf'.state = IF TailIn THEN "IDLE" ELSE "WR_PROG"
        /\ conf'.wren /\ conf'.rden = conf.rden
        /\ conf'.addr = packet.image[pos].to /\ conf'.wdata = packet.image[pos].data
        /\ conf'.sel = conf.sel /\ conf'.tag = conf.tag
    BY <1>3, <1>7, <2>2 DEF WriteProg, ConfRec, ConfStates
  <2> QED
    BY <2>1, <2>3, <2>4 DEF Is
<1>8. CASE ReadProg
  <2>1. pos = 1 /\ packet.type = "RD_PROG"
    BY <1>1, <1>2, <1>3, <1>8 DEF ReadProg
  <2>2. packet.to \in Address
    BY <1>1, <2>1, Kinds
  <2>3. /\ conf' \in ConfRec /\ conf'.state = "DISCARD" /\ conf'.rden
        /\ conf'.addr = packet.to
        /\ conf'.wren = conf.wren /\ conf'.sel = conf.sel /\ conf'.tag = conf.tag
    BY <1>3, <1>8, <2>2 DEF ReadProg, ConfRec, ConfStates
  <2> QED
    BY <2>1, <2>3 DEF Is
<1>9. CASE Discard
  <2>1. pos \in 2 .. Words - 1 /\ packet.type # "WR_PROG"
    BY <1>1, <1>2, <1>3, <1>9 DEF Discard
  <2>2. TailIn <=> pos = Words - 1
    BY <2>1 DEF TailIn
  <2>3. /\ conf' \in ConfRec /\ conf'.state = IF TailIn THEN "IDLE" ELSE "DISCARD"
        /\ ~conf'.rden /\ conf'.wren = conf.wren
        /\ conf'.sel = conf.sel /\ conf'.tag = conf.tag
    BY <1>3, <1>9 DEF Discard, ConfRec, ConfStates
  <2> QED
    BY <2>1, <2>2, <2>3 DEF Is
<1> QED
  BY <1>4, <1>5, <1>6, <1>7, <1>8, <1>9 DEF Configure

LEMMA ConfInvNext ==
  ASSUME HostInv, ConfInv, NEW p \in Packets, Host(p), Configure
  PROVE  ConfInv'
<1> USE Sizes
<1>1. /\ packet \in Packets /\ pos \in 0 .. Words /\ since \in 1 .. Space
      /\ pos < Words => since = pos + 1 /\ packet # NoPacket
      /\ pos = Words => since >= Words + 1
      /\ running \in BOOLEAN /\ packet = NoPacket => since = Space
  BY DEF HostInv
<1>2. /\ conf \in ConfRec
      /\ conf.wren <=> packet.type = "WR_PROG" /\ since \in 3 .. Words + 1
      /\ conf.rden <=> packet.type = "RD_PROG" /\ since = 3
      /\ IF packet.type = "WR_SEL" /\ since <= 2 THEN running = ~packet.sel ELSE running = ~conf.sel
  BY DEF ConfInv, Is
<1>3. /\ packet.type \in {"NONE", "WR_SEL", "RD_SEL", "WR_PROG", "RD_PROG"}
      /\ packet.type = "NONE" <=> packet = NoPacket
      /\ packet.type = "WR_SEL" => packet.sel \in BOOLEAN
      /\ p.type \in {"NONE", "WR_SEL", "RD_SEL", "WR_PROG", "RD_PROG"}
      /\ p.type = "NONE" <=> p = NoPacket
      /\ p.type = "WR_SEL" => p.sel \in BOOLEAN
  BY <1>1, Kinds
<1>4. conf' \in ConfRec
  BY ConfStep
<1>5. conf.wren \in BOOLEAN /\ conf.rden \in BOOLEAN /\ conf'.wren \in BOOLEAN /\ conf'.rden \in BOOLEAN
      /\ conf.sel \in BOOLEAN /\ conf'.sel \in BOOLEAN
  BY <1>2, <1>4 DEF ConfRec
<1>6. CASE Sends(p)
  <2>1. /\ packet' = p /\ pos' = 0 /\ since' = 1 /\ pos = Words /\ since = Space
        /\ running' = IF p.type = "WR_SEL" THEN ~p.sel ELSE running
    BY <1>6 DEF Sends, Asks
  <2>2. conf'.state = "IDLE" /\ ~conf'.wren /\ ~conf'.rden /\ conf'.sel = conf.sel
    BY <2>1, ConfStep
  <2>3. running = ~conf.sel
    BY <1>2, <2>1
  <2>4. IF p.type = "WR_SEL" THEN running' = ~p.sel ELSE running' = ~conf'.sel
    BY <2>1, <2>2, <2>3
  <2>5. (packet.type = "WR_SEL")' = (p.type = "WR_SEL")
    BY <2>1
  <2> QED
    BY <1>4, <2>1, <2>2, <2>4 DEF ConfInv, Is
<1>7. CASE Waits
  <2>1. /\ packet' = packet /\ running' = running
        /\ since' = IF since < Space THEN since + 1 ELSE since
        /\ pos' = IF pos < Words THEN pos + 1 ELSE pos
    BY <1>7 DEF Waits
  <2>2. CASE pos = 0
    <3>1. pos' = 1 /\ since = 1 /\ since' = 2
      BY <1>1, <2>1, <2>2
    <3>2. conf'.state = packet.type /\ ~conf'.wren /\ ~conf'.rden /\ conf'.sel = conf.sel
      BY <2>2, ConfStep
    <3> QED
      BY <1>2, <1>4, <2>1, <3>1, <3>2 DEF ConfInv, Is
  <2>3. CASE pos = Words
    <3>1. pos' = Words /\ since' >= Words + 2 /\ since >= Words + 1 /\ since' \in Nat
      BY <1>1, <2>1, <2>3
    <3>2. conf'.state = "IDLE" /\ ~conf'.wren /\ ~conf'.rden /\ conf'.sel = conf.sel
      BY <2>3, ConfStep
    <3>3. running' = ~conf'.sel
      <4>1. ~(since <= 2)
        BY <1>1, <3>1
      <4>2. running = ~conf.sel
        BY <1>2, <4>1, Zenon
      <4> QED
        BY <2>1, <3>2, <4>2
    <3>4. since' \notin 3 .. Words + 1 /\ since' # 3 /\ ~(since' <= 2)
      BY <3>1
    <3> QED
      BY <1>4, <3>1, <3>2, <3>3, <3>4 DEF ConfInv
  <2>4. CASE pos \in 1 .. Words - 1 /\ Is("WR_PROG")
    <3>1. pos' = pos + 1 /\ since = pos + 1 /\ since' = pos + 2
      BY <1>1, <2>1, <2>4
    <3>2. /\ conf'.state = IF pos = Words - 1 THEN "IDLE" ELSE "WR_PROG"
          /\ conf'.wren /\ conf'.rden = conf.rden
          /\ conf'.addr = packet.image[pos].to /\ conf'.wdata = packet.image[pos].data
          /\ conf'.sel = conf.sel
      BY <2>4, ConfStep
    <3> QED
      BY <1>2, <1>4, <2>1, <2>4, <3>1, <3>2 DEF ConfInv, Is
  <2>5. CASE pos = 1 /\ ~Is("WR_PROG")
    <3>1. pos' = 2 /\ since = 2 /\ since' = 3 /\ ~conf.wren /\ ~conf.rden
      BY <1>1, <1>2, <2>1, <2>5
    <3>2. packet.type \in {"WR_SEL", "RD_SEL", "RD_PROG"}
      BY <1>1, <1>3, <2>5 DEF Is
    <3>3. CASE Is("WR_SEL")
      <4>1. /\ conf'.state = "DISCARD" /\ conf'.sel = packet.sel
            /\ ~conf'.wren /\ ~conf'.rden
        BY <2>5, <3>1, <3>3, ConfStep
      <4>2. running' = ~conf'.sel
        BY <1>2, <2>1, <3>1, <3>3, <4>1 DEF Is
      <4> QED
        BY <1>4, <2>1, <3>1, <3>3, <4>1, <4>2 DEF ConfInv, Is
    <3>4. CASE Is("RD_SEL")
      <4>1. conf'.state = "DISCARD" /\ conf'.sel = conf.sel /\ ~conf'.wren /\ ~conf'.rden
        BY <2>5, <3>1, <3>4, ConfStep
      <4> QED
        BY <1>2, <1>4, <2>1, <3>1, <3>4, <4>1 DEF ConfInv, Is
    <3>5. CASE Is("RD_PROG")
      <4>1. /\ conf'.state = "DISCARD" /\ conf'.rden /\ conf'.addr = packet.to
            /\ ~conf'.wren /\ conf'.sel = conf.sel
        BY <2>5, <3>1, <3>5, ConfStep
      <4> QED
        BY <1>2, <1>4, <2>1, <3>1, <3>5, <4>1 DEF ConfInv, Is
    <3> QED
      BY <3>2, <3>3, <3>4, <3>5 DEF Is
  <2>6. CASE pos \in 2 .. Words - 1 /\ ~Is("WR_PROG")
    <3>1. pos' = pos + 1 /\ since = pos + 1 /\ since' = pos + 2 /\ ~conf.wren
      BY <1>1, <1>2, <2>1, <2>6 DEF Is
    <3>2. /\ conf'.state = IF pos = Words - 1 THEN "IDLE" ELSE "DISCARD"
          /\ ~conf'.rden /\ conf'.wren = conf.wren /\ conf'.sel = conf.sel
      BY <2>6, ConfStep
    <3>3. ~conf'.wren
      BY <3>1, <3>2
    <3> QED
      BY <1>2, <1>4, <2>1, <2>6, <3>1, <3>2, <3>3 DEF ConfInv, Is
  <2> QED
    BY <1>1, <2>2, <2>3, <2>4, <2>5, <2>6
<1> QED
  BY <1>6, <1>7, HostStep

(* When the words of the last packet are in the RAMs they hold all that was *)
(* asked for, where the core has not stored since.                          *)
LEMMA Settled ==
  ASSUME HostInv, RamInv, since > Words + 1
  PROVE  \A a \in Address \ stored : written[a] = ram[a]
<1>1. CASE ~Is("WR_PROG")
  BY <1>1 DEF RamInv
<1>2. CASE Is("WR_PROG")
  <2>1. since \in Nat
    BY Sizes DEF HostInv
  <2>2. \A a \in Address, k \in 1 .. Words - 1 : ~Comes(k, a)
    BY <2>1, Sizes DEF Comes
  <2> QED
    BY <1>2, <2>2 DEF RamInv
<1> QED
  BY <1>1, <1>2

(* Both ports in a clock: a word not stored over is what the configuration  *)
(* port wrote or what it was, and then was not stored over before.          *)
LEMMA RamStep ==
  ASSUME ConfInv, ram \in [Address -> Data], stored \subseteq DataWords,
         NEW store \in Stores, Ram(store)
  PROVE  /\ ram' \in [Address -> Data] /\ stored' \subseteq DataWords
         /\ \A a \in Address \ stored' :
              /\ conf.wren /\ a = conf.addr => ram'[a] = conf.wdata
              /\ ~(conf.wren /\ a = conf.addr) => a \notin stored /\ ram'[a] = ram[a]
         /\ ~conf.wren => \A a \in Address : a.bank = "instr" => ram'[a] = ram[a]
<1> DEFINE configured == IF conf.wren THEN [ram EXCEPT ![conf.addr] = conf.wdata] ELSE ram
<1>1. /\ ram' = IF store = NoStore THEN configured ELSE [configured EXCEPT ![store.to] = store.data]
      /\ stored' = (stored \ (IF conf.wren THEN {conf.addr} ELSE {}))
                   \cup (IF store = NoStore THEN {} ELSE {store.to})
  BY DEF Ram
<1>2. conf.addr \in Address /\ conf.wdata \in Data
  BY DEF ConfInv, ConfRec
<1>3. /\ configured \in [Address -> Data]
      /\ \A a \in Address :
           configured[a] = IF conf.wren /\ a = conf.addr THEN conf.wdata ELSE ram[a]
  BY <1>2
<1> HIDE DEF configured
<1>4. CASE store = NoStore
  BY <1>1, <1>3, <1>4
<1>5. CASE store # NoStore
  <2>1. store \in [to : DataWords, data : Data]
    BY <1>5 DEF Stores, DataWords
  <2>2. store.to \in DataWords /\ store.data \in Data
    BY <2>1
  <2>3. store.to \in Address /\ store.to.bank = "data"
    BY <2>2 DEF DataWords, Address, Banks
  <2>4. /\ ram' \in [Address -> Data]
        /\ \A a \in Address : ram'[a] = IF a = store.to THEN store.data ELSE configured[a]
    BY <1>1, <1>3, <1>5, <2>2, <2>3
  <2>5. stored' = (stored \ (IF conf.wren THEN {conf.addr} ELSE {})) \cup {store.to}
    BY <1>1, <1>5
  <2> QED
    BY <1>3, <2>2, <2>3, <2>4, <2>5
<1> QED
  BY <1>4, <1>5

LEMMA RamInvNext ==
  ASSUME HostInv, ConfInv, RamInv, NEW p \in Packets, Host(p), NEW store \in Stores, Ram(store)
  PROVE  RamInv'
<1> USE Sizes
<1>1. /\ packet \in Packets /\ since \in 1 .. Space
      /\ written \in [Address -> Data] /\ ram \in [Address -> Data] /\ stored \subseteq DataWords
  BY DEF HostInv, RamInv
<1>2. /\ conf.wren \in BOOLEAN
      /\ conf.wren <=> Is("WR_PROG") /\ since \in 3 .. Words + 1
      /\ conf.wren => /\ conf.addr = packet.image[since - 2].to
                      /\ conf.wdata = packet.image[since - 2].data
  BY DEF ConfInv, ConfRec
<1>3. /\ ram' \in [Address -> Data] /\ stored' \subseteq DataWords
      /\ \A a \in Address \ stored' :
           /\ conf.wren /\ a = conf.addr => ram'[a] = conf.wdata
           /\ ~(conf.wren /\ a = conf.addr) => a \notin stored /\ ram'[a] = ram[a]
  BY <1>1, RamStep
<1>4. CASE Sends(p)
  <2>1. /\ packet' = p /\ since' = 1 /\ since = Space
        /\ written' = IF p.type = "WR_PROG" THEN Loaded(written, p.image) ELSE written
    BY <1>4 DEF Sends, Asks
  <2>2. ~conf.wren
    BY <1>2, <2>1
  <2>3. \A a \in Address \ stored' : written[a] = ram'[a]
    BY <1>3, <2>1, <2>2, Settled
  <2>4. CASE p.type = "WR_PROG"
    <3>1. p.image \in Seq([to : Address, data : Data]) /\ Len(p.image) = Words - 1
      BY <2>4, Kinds
    <3>2. written' = Loaded(written, p.image)
      BY <2>1, <2>4
    <3>3. \A a \in Address :
            /\ (\A k \in 1 .. Words - 1 : p.image[k].to # a) => written'[a] = written[a]
            /\ \A k \in 1 .. Words - 1 :
                 p.image[k].to = a /\ (\A j \in 1 .. Words - 1 : j > k => p.image[j].to # a)
                 => written'[a] = p.image[k].data
      <4>1. Loaded(written, p.image) \in [Address -> Data] /\
            \A a \in Address :
              /\ (\A k \in 1 .. Len(p.image) : p.image[k].to # a)
                   => Loaded(written, p.image)[a] = written[a]
              /\ \A k \in 1 .. Len(p.image) :
                   p.image[k].to = a /\ (\A j \in 1 .. Len(p.image) : j > k => p.image[j].to # a)
                   => Loaded(written, p.image)[a] = p.image[k].data
        BY <1>1, <3>1, LoadedType, Zenon
      <4> QED
        BY <3>1, <3>2, <4>1, Zenon
    <3>4. \A k \in 1 .. Words - 1, a \in Address : Comes(k, a)' <=> p.image[k].to = a
      BY <2>1 DEF Comes
    <3>5. \A a \in Address :
            /\ a \notin stored' /\ (\A k \in 1 .. Words - 1 : ~Comes(k, a)') => written'[a] = ram'[a]
            /\ \A k \in 1 .. Words - 1 :
                 Comes(k, a)' /\ (\A j \in 1 .. Words - 1 : j > k => packet'.image[j].to # a)
                 => written'[a] = packet'.image[k].data
      BY <2>1, <2>3, <3>3, <3>4
    <3>6. Is("WR_PROG")'
      BY <2>1, <2>4 DEF Is
    <3> QED
      BY <1>3, <3>5, <3>6 DEF RamInv
  <2>5. CASE p.type # "WR_PROG"
    <3>1. ~Is("WR_PROG")'
      BY <2>1, <2>5 DEF Is
    <3>2. written' = written
      BY <2>1, <2>5
    <3> QED
      BY <1>3, <2>3, <3>1, <3>2 DEF RamInv
  <2> QED
    BY <2>4, <2>5
<1>5. CASE Waits
  <2>1. /\ packet' = packet /\ written' = written
        /\ since' = IF since < Space THEN since + 1 ELSE since
    BY <1>5 DEF Waits
  <2>2. Is("WR_PROG")' <=> Is("WR_PROG")
    BY <2>1 DEF Is
  <2>3. CASE ~Is("WR_PROG")
    <3>1. \A a \in Address \ stored : written[a] = ram[a]
      BY <2>3 DEF RamInv
    <3>2. \A a \in Address \ stored' : written'[a] = ram'[a]
      BY <1>2, <1>3, <2>1, <2>3, <3>1
    <3> QED
      BY <1>3, <2>2, <2>3, <3>2 DEF RamInv
  <2>4. CASE Is("WR_PROG")
    <3>1. \A a \in Address :
            /\ a \notin stored /\ (\A k \in 1 .. Words - 1 : ~Comes(k, a)) => written[a] = ram[a]
            /\ \A k \in 1 .. Words - 1 :
                 Comes(k, a) /\ (\A j \in 1 .. Words - 1 : j > k => packet.image[j].to # a)
                 => written[a] = packet.image[k].data
      BY <2>4 DEF RamInv
    <3>2. CASE conf.wren
      <4> DEFINE n == since - 2
      <4>1. n \in 1 .. Words - 1 /\ since' - 2 = n + 1
        BY <1>1, <1>2, <2>1, <3>2
      <4>2. \A a \in Address \ stored' :
              /\ a = packet.image[n].to => ram'[a] = packet.image[n].data
              /\ a # packet.image[n].to => a \notin stored /\ ram'[a] = ram[a]
        BY <1>2, <1>3, <3>2
      <4>3. \A k \in 1 .. Words - 1, a \in Address :
              /\ Comes(k, a) <=> k >= n /\ packet.image[k].to = a
              /\ Comes(k, a)' <=> k >= n + 1 /\ packet.image[k].to = a
        BY <2>1, <4>1 DEF Comes
      <4> HIDE DEF n
      <4>4. ASSUME NEW a \in Address \ stored', \A k \in 1 .. Words - 1 : ~Comes(k, a)'
            PROVE  written[a] = ram'[a]
        <5>1. \A k \in 1 .. Words - 1 : k >= n + 1 => packet.image[k].to # a
          BY <4>3, <4>4
        <5>2. CASE a = packet.image[n].to
          <6>1. Comes(n, a) /\ \A j \in 1 .. Words - 1 : j > n => packet.image[j].to # a
            BY <4>1, <4>3, <5>1, <5>2
          <6>2. written[a] = packet.image[n].data
            BY <3>1, <4>1, <6>1
          <6> QED
            BY <4>2, <5>2, <6>2
        <5>3. CASE a # packet.image[n].to
          <6>1. \A k \in 1 .. Words - 1 : ~Comes(k, a)
            BY <4>1, <4>3, <5>1, <5>3
          <6> QED
            BY <3>1, <4>2, <5>3, <6>1
        <5> QED
          BY <5>2, <5>3
      <4>5. ASSUME NEW a \in Address, NEW k \in 1 .. Words - 1, Comes(k, a)',
                   \A j \in 1 .. Words - 1 : j > k => packet.image[j].to # a
            PROVE  written[a] = packet.image[k].data
        <5>1. k >= n + 1 /\ packet.image[k].to = a
          BY <4>3, <4>5, Zenon
        <5>2. k >= n
          BY <4>1, <5>1
        <5>3. Comes(k, a)
          BY <4>3, <5>1, <5>2, Zenon
        <5> QED
          BY <3>1, <4>5, <5>3
      <4> QED
        BY <1>3, <2>1, <2>2, <2>4, <4>4, <4>5 DEF RamInv
    <3>3. CASE ~conf.wren
      <4>1. \A a \in Address \ stored' : a \notin stored /\ ram'[a] = ram[a]
        BY <1>3, <3>3
      <4>2. \A k \in 1 .. Words - 1, a \in Address : Comes(k, a)' <=> Comes(k, a)
        BY <1>1, <1>2, <2>1, <2>4, <3>3 DEF Comes
      <4> QED
        BY <1>3, <2>1, <2>2, <2>4, <3>1, <4>1, <4>2 DEF RamInv
    <3> QED
      BY <1>2, <3>2, <3>3
  <2> QED
    BY <2>3, <2>4
<1> QED
  BY <1>4, <1>5, HostStep

LEMMA ReadInvNext ==
  ASSUME HostInv, ConfInv, RamInv, ReadInv, NEW p \in Packets, Host(p),
         NEW store \in Stores, Ram(store), ReadPipe
  PROVE  ReadInv'
<1> USE Sizes
<1>1. /\ packet \in Packets /\ since \in 1 .. Space
      /\ ram \in [Address -> Data] /\ stored \subseteq DataWords
      /\ packet.type = "RD_PROG" => packet.to \in Address
  BY Kinds DEF HostInv, RamInv
<1>2. /\ conf.wren \in BOOLEAN /\ conf.rden \in BOOLEAN /\ conf.addr \in Address
      /\ conf.rden <=> packet.type = "RD_PROG" /\ since = 3
      /\ conf.rden => conf.addr = packet.to
      /\ conf.wren => packet.type = "WR_PROG"
  BY DEF ConfInv, ConfRec, Is
<1>3. /\ temp \in TempRec /\ ramQ \in Data /\ rdata \in Data
      /\ temp.r0 <=> packet.type = "RD_PROG" /\ since = 4
      /\ temp.r0 => temp.a0 = packet.to /\ ramQ = ram[OfInstr(packet.to)]
  BY DEF ReadInv, Is
<1>4. ramQ' = ram[OfInstr(conf.addr)] /\ rdata' = ramQ
  BY DEF Ram, OfInstr
<1>5. /\ temp' = [r0 |-> conf.rden, r1 |-> temp.r0, a0 |-> conf.addr, a1 |-> temp.a0]
  BY DEF ReadPipe
<1>6. OfInstr(conf.addr) \in Address
  BY <1>2 DEF OfInstr, Address, Banks
<1>7. temp' \in TempRec /\ ramQ' \in Data /\ rdata' \in Data
  BY <1>1, <1>2, <1>3, <1>4, <1>5, <1>6 DEF TempRec
<1>8. /\ temp'.r0 = conf.rden /\ temp'.r1 = temp.r0 /\ temp'.a0 = conf.addr /\ temp'.a1 = temp.a0
  BY <1>5
<1>9. CASE Sends(p)
  <2>1. since = Space /\ since' = 1
    BY <1>9 DEF Sends
  <2>2. ~conf.rden /\ ~temp.r0
    BY <1>2, <1>3, <2>1
  <2>3. ~temp'.r0 /\ ~temp'.r1
    BY <1>8, <2>2
  <2> QED
    BY <1>7, <2>1, <2>3 DEF ReadInv
<1>10. CASE Waits
  <2>1. packet' = packet /\ since' = IF since < Space THEN since + 1 ELSE since
    BY <1>10 DEF Waits
  <2>2. since' = 4 <=> since = 3
    BY <1>1, <2>1
  <2>3. since' = 5 <=> since = 4
    BY <1>1, <2>1
  <2>4. packet.type = "RD_PROG" => ram'[OfInstr(packet.to)] = ram[OfInstr(packet.to)]
    <3>1. packet.type = "RD_PROG" =>
            OfInstr(packet.to) \in Address /\ OfInstr(packet.to).bank = "instr"
      BY <1>1 DEF OfInstr, Address, Banks
    <3> QED
      BY <1>1, <1>2, <3>1, RamStep
  <2>5. temp'.r0 => temp'.a0 = packet.to /\ ramQ' = ram'[OfInstr(packet.to)]
    BY <1>2, <1>4, <1>8, <2>4
  <2>6. temp'.r1 => temp'.a1 = packet.to /\ rdata' = ram'[OfInstr(packet.to)]
    BY <1>3, <1>4, <1>8, <2>4
  <2>7. OfInstr(packet.to)' = OfInstr(packet.to)
    BY <2>1 DEF OfInstr
  <2>8. temp'.r0 <=> packet.type = "RD_PROG" /\ since' = 4
    BY <1>2, <1>8, <2>2
  <2>9. temp'.r1 <=> packet.type = "RD_PROG" /\ since' = 5
    BY <1>3, <1>8, <2>3
  <2> QED
    BY <1>7, <2>1, <2>5, <2>6, <2>7, <2>8, <2>9 DEF ReadInv, Is
<1> QED
  BY <1>9, <1>10, HostStep

LEMMA SoftInvNext ==
  ASSUME SoftInv, NEW start \in BOOLEAN, Soft(start)
  PROVE  SoftInv'
BY Sizes DEF SoftInv, Soft, SoftValid

-----------------------------------------------------------------------------
(* An answer is due to a change of the tag or to a word in rdata_buffer.    *)
Due == SelAsked \/ buffer # << >>

SendType ==
  /\ send = [state |-> send.state, valid |-> send.valid, word |-> send.word,
             rdreq |-> send.rdreq, tag |-> send.tag]
  /\ send.state \in SendStates
  /\ send.valid \in BOOLEAN /\ send.rdreq \in BOOLEAN /\ send.tag \in BOOLEAN
  /\ buffer \in Seq(Address \X Data)

(* That of the last packet is on its way before there is one to the next.   *)
SendInv ==
  /\ Len(buffer) <= 1
  /\ send.rdreq <=> send.state = "SEND_HEAD_1" /\ buffer # << >>
  /\ ~SelAsked \/ buffer = << >>
  /\ send.state \in {"SEND_HEAD_0", "SEND_HEAD_1"} => Due
  /\ send.state \in {"SEND_HEAD_2", "SEND_HEAD_3"} /\ Due => Is("RD_SEL") /\ since \in 3 .. 4
  /\ send.state = "IDLE" /\ Due =>
       (Is("RD_SEL") /\ since \in 3 .. 5) \/ (Is("RD_PROG") /\ since >= 6)
  /\ since = 2 => send.state # "SEND_HEAD_0"
  /\ since = 3 => send.state \notin {"SEND_HEAD_0", "SEND_HEAD_1"}
  /\ since = 4 => send.state \notin {"SEND_HEAD_1", "SEND_HEAD_2"}
  /\ since = 5 => send.state \notin {"SEND_HEAD_2", "SEND_HEAD_3"}
  /\ SelAsked /\ since >= 3 => Is("RD_SEL")
  /\ Is("RD_SEL") /\ since \in 3 .. 5 => SelAsked
  /\ buffer # << >> /\ since >= 3 => Is("RD_PROG") /\ since >= 6

LEMMA SendStep ==
  ASSUME SendType, SendAnswer
  PROVE  /\ send' = [state |-> send'.state, valid |-> send'.valid, word |-> send'.word,
                     rdreq |-> send'.rdreq, tag |-> send'.tag]
         /\ send.state = "IDLE" =>
              /\ send'.state = IF Due THEN "SEND_HEAD_0" ELSE "IDLE"
              /\ send'.valid = FALSE /\ send'.word = send.word
              /\ send'.rdreq = send.rdreq /\ send'.tag = send.tag
         /\ send.state = "SEND_HEAD_0" =>
              /\ send'.state = "SEND_HEAD_1" /\ send'.valid = TRUE
              /\ send'.rdreq = (IF SelAsked THEN send.rdreq ELSE TRUE) /\ send'.tag = send.tag
              /\ send'.word = Word("head", "mem", IF SelAsked THEN "SEL" ELSE "PROG")
         /\ send.state = "SEND_HEAD_1" =>
              /\ send'.state = "SEND_HEAD_2" /\ send'.valid = send.valid
              /\ send'.rdreq = FALSE /\ send'.tag = conf.tag
              /\ send'.word = Word("body", "mem",
                                IF SelAsked THEN conf.sel
                                ELSE IF buffer = << >> THEN "none" ELSE Head(buffer))
         /\ send.state = "SEND_HEAD_2" =>
              /\ send'.state = "SEND_HEAD_3" /\ send'.valid = send.valid
              /\ send'.rdreq = send.rdreq /\ send'.tag = send.tag
              /\ send'.word = Word("body", "mem", "pad")
         /\ send.state = "SEND_HEAD_3" =>
              /\ send'.state = "IDLE" /\ send'.valid = send.valid
              /\ send'.rdreq = send.rdreq /\ send'.tag = send.tag
              /\ send'.word = Word("tail", "mem", "pad")
<1>1. send = [state |-> send.state, valid |-> send.valid, word |-> send.word,
              rdreq |-> send.rdreq, tag |-> send.tag]
      /\ send.state \in SendStates
  BY DEF SendType
<1>2. CASE send.state = "IDLE"
  <2>1. send' = [send EXCEPT !.valid = FALSE,
                   !.state = IF SelAsked \/ buffer # << >> THEN "SEND_HEAD_0" ELSE "IDLE"]
    BY <1>2 DEF SendAnswer
  <2>2. send' = [state |-> IF SelAsked \/ buffer # << >> THEN "SEND_HEAD_0" ELSE "IDLE",
                 valid |-> FALSE, word |-> send.word, rdreq |-> send.rdreq, tag |-> send.tag]
    BY <1>1, <2>1
  <2> QED
    BY <1>2, <2>2 DEF Due
<1>3. CASE send.state = "SEND_HEAD_0"
  <2> DEFINE rd == IF SelAsked THEN send.rdreq ELSE TRUE
             w == Word("head", "mem", IF SelAsked THEN "SEL" ELSE "PROG")
  <2>1. send' = [send EXCEPT !.valid = TRUE, !.rdreq = rd, !.word = w, !.state = "SEND_HEAD_1"]
    BY <1>3 DEF SendAnswer
  <2> HIDE DEF rd, w
  <2>2. send' = [state |-> "SEND_HEAD_1", valid |-> TRUE, word |-> w, rdreq |-> rd, tag |-> send.tag]
    BY <1>1, <2>1
  <2> QED
    BY <1>3, <2>2 DEF rd, w
<1>4. CASE send.state = "SEND_HEAD_1"
  <2> DEFINE w == Word("body", "mem",
                       IF SelAsked THEN conf.sel
                       ELSE IF buffer = << >> THEN "none" ELSE Head(buffer))
  <2>1. send' = [send EXCEPT !.rdreq = FALSE, !.tag = conf.tag, !.word = w, !.state = "SEND_HEAD_2"]
    BY <1>4 DEF SendAnswer
  <2> HIDE DEF w
  <2>2. send' = [state |-> "SEND_HEAD_2", valid |-> send.valid, word |-> w, rdreq |-> FALSE,
                 tag |-> conf.tag]
    BY <1>1, <2>1
  <2> QED
    BY <1>4, <2>2 DEF w
<1>5. CASE send.state = "SEND_HEAD_2"
  <2> DEFINE w == Word("body", "mem", "pad")
  <2>1. send' = [send EXCEPT !.word = w, !.state = "SEND_HEAD_3"]
    BY <1>5 DEF SendAnswer
  <2> HIDE DEF w
  <2>2. send' = [state |-> "SEND_HEAD_3", valid |-> send.valid, word |-> w, rdreq |-> send.rdreq,
                 tag |-> send.tag]
    BY <1>1, <2>1
  <2> QED
    BY <1>5, <2>2 DEF w
<1>6. CASE send.state = "SEND_HEAD_3"
  <2> DEFINE w == Word("tail", "mem", "pad")
  <2>1. send' = [send EXCEPT !.word = w, !.state = "IDLE"]
    BY <1>6 DEF SendAnswer
  <2> HIDE DEF w
  <2>2. send' = [state |-> "IDLE", valid |-> send.valid, word |-> w, rdreq |-> send.rdreq,
                 tag |-> send.tag]
    BY <1>1, <2>1
  <2> QED
    BY <1>6, <2>2 DEF w
<1> QED
  BY <1>1, <1>2, <1>3, <1>4, <1>5, <1>6 DEF SendStates

(* A word goes into an empty rdata_buffer, and out of it with the answer.   *)
LEMMA BufferStep ==
  ASSUME HostInv, ReadInv, SendType, SendInv, ReadPipe
  PROVE  /\ temp.r1 => /\ buffer = << >> /\ buffer' = << <<temp.a1, rdata>> >>
                       /\ Is("RD_PROG") /\ since = 5
         /\ send.rdreq => buffer # << >> /\ buffer' = << >>
         /\ ~temp.r1 /\ ~send.rdreq => buffer' = buffer
         /\ buffer' \in Seq(Address \X Data) /\ Len(buffer') <= 1
<1>1. /\ buffer \in Seq(Address \X Data) /\ Len(buffer) <= 1
      /\ temp.r1 \in BOOLEAN /\ send.rdreq \in BOOLEAN
      /\ temp.r1 => Is("RD_PROG") /\ since = 5
      /\ send.rdreq => buffer # << >>
      /\ <<temp.a1, rdata>> \in Address \X Data
  BY DEF SendType, SendInv, ReadInv, TempRec
<1>2. buffer' = IF temp.r1 THEN Append(IF send.rdreq /\ buffer # << >> THEN Tail(buffer) ELSE buffer,
                                       <<temp.a1, rdata>>)
                ELSE IF send.rdreq /\ buffer # << >> THEN Tail(buffer) ELSE buffer
  BY DEF ReadPipe
<1>3. CASE temp.r1
  <2>1. since \in Nat
    BY Sizes DEF HostInv
  <2>2. buffer = << >>
    BY <1>1, <1>3, <2>1 DEF SendInv
  <2>3. ~send.rdreq
    BY <1>1, <2>2
  <2>4. buffer' = Append(<< >>, <<temp.a1, rdata>>)
    BY <1>2, <1>3, <2>2, <2>3
  <2>5. \A x : Append(<< >>, x) = <<x>>
    OBVIOUS
  <2>6. buffer' = << <<temp.a1, rdata>> >>
    BY <2>4, <2>5
  <2> HIDE DEF ReadPipe
  <2>7. \A S, x : x \in S => <<x>> \in Seq(S) /\ Len(<<x>>) = 1
    OBVIOUS
  <2>8. buffer' \in Seq(Address \X Data) /\ Len(buffer') = 1
    BY <1>1, <2>6, <2>7
  <2> QED
    BY <1>1, <1>3, <2>2, <2>3, <2>6, <2>8
<1>4. CASE ~temp.r1 /\ send.rdreq
  <2>1. buffer' = Tail(buffer) /\ buffer # << >>
    BY <1>1, <1>2, <1>4
  <2>2. \A S : \A s \in Seq(S) : s # << >> /\ Len(s) <= 1 => Tail(s) = << >>
    OBVIOUS
  <2> QED
    BY <1>1, <1>4, <2>1, <2>2
<1>5. CASE ~temp.r1 /\ ~send.rdreq
  BY <1>1, <1>2, <1>5
<1> QED
  BY <1>1, <1>3, <1>4, <1>5

Flips == Is("RD_SEL") /\ since = 2
Fills == Is("RD_PROG") /\ since = 5

LEMMA TagStep ==
  ASSUME HostInv, ConfInv, Configure
  PROVE  conf'.tag = IF Flips THEN ~conf.tag ELSE conf.tag
<1> USE Sizes
<1>1. /\ pos \in 0 .. Words /\ packet.type \in {"NONE", "WR_SEL", "RD_SEL", "WR_PROG", "RD_PROG"}
      /\ pos < Words => since = pos + 1 /\ packet.type # "NONE"
      /\ pos = Words => since >= Words + 1
      /\ since \in Nat
  BY Kinds DEF HostInv
<1>2. CASE Is("RD_SEL") /\ pos = 1
  <2>1. Flips
    BY <1>1, <1>2 DEF Flips
  <2> QED
    BY <1>2, <2>1, ConfStep
<1>3. CASE ~(Is("RD_SEL") /\ pos = 1)
  <2>1. ~Flips
    BY <1>1, <1>3 DEF Flips
  <2>2. CASE pos = 0 \/ pos = Words
    BY <2>1, <2>2, ConfStep
  <2>3. CASE pos \in 1 .. Words - 1 /\ Is("WR_PROG")
    BY <2>1, <2>3, ConfStep
  <2>4. CASE pos \in 2 .. Words - 1 /\ ~Is("WR_PROG")
    BY <2>1, <2>4, ConfStep
  <2>5. CASE pos = 1 /\ Is("WR_SEL")
    BY <2>1, <2>5, ConfStep
  <2>6. CASE pos = 1 /\ Is("RD_PROG")
    BY <2>1, <2>6, ConfStep
  <2>7. \/ pos = 0 \/ pos = Words \/ (pos \in 1 .. Words - 1 /\ Is("WR_PROG"))
        \/ (pos \in 2 .. Words - 1 /\ ~Is("WR_PROG"))
        \/ (pos = 1 /\ Is("WR_SEL")) \/ (pos = 1 /\ Is("RD_PROG"))
    BY <1>1, <1>3 DEF Is
  <2> QED
    BY <2>2, <2>3, <2>4, <2>5, <2>6, <2>7
<1> QED
  BY <1>2, <1>3

LEMMA DueStep ==
  ASSUME HostInv, ConfInv, ReadInv, SendType, SendInv, Configure, ReadPipe, SendAnswer
  PROVE  /\ SelAsked' <=> Flips \/ (SelAsked /\ send.state # "SEND_HEAD_1")
         /\ buffer' # << >> <=> Fills \/ (buffer # << >> /\ send.state # "SEND_HEAD_1")
         /\ Flips /\ SelAsked => send.state = "SEND_HEAD_1"
<1>1. /\ send.state \in SendStates /\ since \in Nat /\ send.tag \in BOOLEAN /\ conf.tag \in BOOLEAN
      /\ send.rdreq <=> send.state = "SEND_HEAD_1" /\ buffer # << >>
      /\ temp.r1 <=> Fills
  BY Sizes DEF SendType, HostInv, ConfInv, ConfRec, ReadInv, SendInv, Fills
<1>2. Flips /\ SelAsked => send.state = "SEND_HEAD_1"
  BY <1>1 DEF Flips, SendInv, SendStates, Due
<1>3. SelAsked' <=> Flips \/ (SelAsked /\ send.state # "SEND_HEAD_1")
  <2>1. conf'.tag = IF Flips THEN ~conf.tag ELSE conf.tag
    BY TagStep
  <2>2. send'.tag = IF send.state = "SEND_HEAD_1" THEN conf.tag ELSE send.tag
    BY <1>1, SendStep DEF SendStates
  <2>3. SelAsked' <=> send'.tag # conf'.tag
    BY DEF SelAsked
  <2>4. SelAsked <=> send.tag # conf.tag
    BY DEF SelAsked
  <2>5. CASE send.state = "SEND_HEAD_1"
    BY <1>1, <2>1, <2>2, <2>3, <2>5
  <2>6. CASE send.state # "SEND_HEAD_1"
    BY <1>1, <1>2, <2>1, <2>2, <2>3, <2>4, <2>6
  <2> QED
    BY <2>5, <2>6
<1>4. buffer' # << >> <=> Fills \/ (buffer # << >> /\ send.state # "SEND_HEAD_1")
  <2>1. CASE temp.r1
    <3>1. \A x : <<x>> # << >>
      OBVIOUS
    <3> QED
      BY <1>1, <2>1, <3>1, BufferStep
  <2>2. CASE send.rdreq
    BY <1>1, <2>2, BufferStep
  <2>3. CASE ~temp.r1 /\ ~send.rdreq
    BY <1>1, <2>3, BufferStep
  <2> QED
    BY <2>1, <2>2, <2>3
<1> QED
  BY <1>2, <1>3, <1>4

LEMMA SendTypeNext ==
  ASSUME HostInv, ConfInv, ReadInv, SendType, SendInv, ReadPipe, SendAnswer
  PROVE  SendType'
<1>1. buffer' \in Seq(Address \X Data)
  BY BufferStep
<1>2. /\ send.state \in SendStates /\ send.valid \in BOOLEAN /\ send.rdreq \in BOOLEAN
      /\ send.tag \in BOOLEAN /\ conf.tag \in BOOLEAN
  BY DEF SendType, ConfInv, ConfRec
<1>3. send'.state \in SendStates /\ send'.valid \in BOOLEAN /\ send'.rdreq \in BOOLEAN
      /\ send'.tag \in BOOLEAN
  BY <1>2, SendStep DEF SendStates
<1>4. send' = [state |-> send'.state, valid |-> send'.valid, word |-> send'.word,
               rdreq |-> send'.rdreq, tag |-> send'.tag]
  BY SendStep
<1> QED
  BY <1>1, <1>3, <1>4 DEF SendType

LEMMA SendInvNext ==
  ASSUME HostInv, ConfInv, ReadInv, SendType, SendInv,
         NEW p \in Packets, Host(p), Configure, ReadPipe, SendAnswer
  PROVE  SendInv'
<1> DEFINE B == buffer # << >>
           state == send.state
<1>1. /\ state \in SendStates /\ since \in 1 .. Space /\ Space \in Nat /\ Space >= 6
  BY Sizes DEF SendType, HostInv
<1>2. /\ SelAsked' <=> Flips \/ (SelAsked /\ state # "SEND_HEAD_1")
      /\ B' <=> Fills \/ (B /\ state # "SEND_HEAD_1")
      /\ Flips /\ SelAsked => state = "SEND_HEAD_1"
  BY DueStep
<1>3. Len(buffer') <= 1
  BY BufferStep
<1>4. state' = CASE state = "IDLE" -> IF Due THEN "SEND_HEAD_0" ELSE "IDLE"
                 [] state = "SEND_HEAD_0" -> "SEND_HEAD_1"
                 [] state = "SEND_HEAD_1" -> "SEND_HEAD_2"
                 [] state = "SEND_HEAD_2" -> "SEND_HEAD_3"
                 [] state = "SEND_HEAD_3" -> "IDLE"
  BY <1>1, SendStep DEF SendStates
<1>5. (Due <=> SelAsked \/ B) /\ (Due' <=> SelAsked' \/ B')
  BY DEF Due
<1>6. /\ ~SelAsked \/ ~B
      /\ state \in {"SEND_HEAD_0", "SEND_HEAD_1"} => Due
      /\ state \in {"SEND_HEAD_2", "SEND_HEAD_3"} /\ Due => Is("RD_SEL") /\ since \in 3 .. 4
      /\ state = "IDLE" /\ Due =>
           (Is("RD_SEL") /\ since \in 3 .. 5) \/ (Is("RD_PROG") /\ since >= 6)
      /\ since = 2 => state # "SEND_HEAD_0"
      /\ since = 3 => state \notin {"SEND_HEAD_0", "SEND_HEAD_1"}
      /\ since = 4 => state \notin {"SEND_HEAD_1", "SEND_HEAD_2"}
      /\ since = 5 => state \notin {"SEND_HEAD_2", "SEND_HEAD_3"}
      /\ SelAsked /\ since >= 3 => Is("RD_SEL")
      /\ Is("RD_SEL") /\ since \in 3 .. 5 => SelAsked
      /\ B /\ since >= 3 => Is("RD_PROG") /\ since >= 6
  BY DEF SendInv
<1>7. send'.rdreq <=> state' = "SEND_HEAD_1" /\ B'
  <2>1. send.rdreq <=> state = "SEND_HEAD_1" /\ B
    BY DEF SendInv
  <2>2. CASE state = "SEND_HEAD_0"
    <3>1. send'.rdreq = (IF SelAsked THEN send.rdreq ELSE TRUE)
      BY <2>2, SendStep
    <3>2. state' = "SEND_HEAD_1" /\ Due
      BY <1>4, <1>6, <2>2
    <3>3. ~Fills
      BY <1>5, <1>6, <2>2, <3>2 DEF Fills, Is
    <3>4. B' <=> B
      BY <1>2, <2>2, <3>3
    <3> QED
      BY <1>5, <1>6, <2>1, <2>2, <3>1, <3>2, <3>4
  <2>3. CASE state # "SEND_HEAD_0"
    <3>1. state' # "SEND_HEAD_1"
      BY <1>1, <1>4, <2>3 DEF SendStates
    <3>2. send'.rdreq = FALSE \/ (send'.rdreq = send.rdreq /\ state # "SEND_HEAD_1")
      BY <1>1, <2>3, SendStep DEF SendStates
    <3> QED
      BY <2>1, <3>1, <3>2
  <2> QED
    BY <2>2, <2>3
<1>8. Is("RD_SEL") => ~Is("RD_PROG")
  BY DEF Is
<1> HIDE DEF B, state
<1>9. CASE Sends(p)
  <2>1. since = Space /\ since' = 1 /\ ~Flips /\ ~Fills
    BY <1>1, <1>9 DEF Sends, Flips, Fills
  <2>2. since >= 6 /\ since' \notin 3 .. 5 /\ ~(since' >= 3) /\ since' # 2 /\ since' # 3 /\ since' # 4 /\ since' # 5
    BY <1>1, <2>1
  <2>3. ~SelAsked' \/ ~B'
    BY <1>2, <1>6, <2>1
  <2>4. state' \in {"SEND_HEAD_0", "SEND_HEAD_1"} => Due'
    BY <1>1, <1>2, <1>4, <1>5, <1>6, <2>1 DEF SendStates
  <2>5. state' \in {"SEND_HEAD_2", "SEND_HEAD_3", "IDLE"} => ~Due'
    BY <1>1, <1>2, <1>4, <1>5, <1>6, <2>1, <2>2 DEF SendStates
  <2> QED
    BY <1>3, <1>7, <2>2, <2>3, <2>4, <2>5 DEF SendInv, B, state
<1>10. CASE Waits
  <2>1. /\ since' = IF since < Space THEN since + 1 ELSE since
        /\ \A t : Is(t)' <=> Is(t)
    BY <1>10 DEF Waits, Is
  <2>2. /\ since' = 2 <=> since = 1
        /\ since' = 3 <=> since = 2
        /\ since' = 4 <=> since = 3
        /\ since' = 5 <=> since = 4
        /\ since' >= 3 <=> since >= 2
        /\ since' >= 6 <=> since >= 5
        /\ since' \in 3 .. 4 <=> since = 2 \/ since = 3
        /\ since' \in 3 .. 5 <=> since = 2 \/ since = 3 \/ since = 4
    BY <1>1, <2>1
  <2>3. /\ since >= 2 <=> since = 2 \/ since >= 3
        /\ since >= 5 <=> since = 5 \/ since >= 6
        /\ since \in 3 .. 4 <=> since = 3 \/ since = 4
        /\ since \in 3 .. 5 <=> since = 3 \/ since = 4 \/ since = 5
        /\ since >= 3 <=> since = 3 \/ since = 4 \/ since = 5 \/ since >= 6
        /\ since >= 6 => since # 1 /\ since # 2 /\ since # 3 /\ since # 4 /\ since # 5
    BY <1>1
  <2>4. ~SelAsked' \/ ~B'
    BY <1>1, <1>2, <1>5, <1>6, <1>8, <2>2, <2>3 DEF Flips, Fills, SendStates
  <2>5. state' \in {"SEND_HEAD_0", "SEND_HEAD_1"} => Due'
    BY <1>1, <1>2, <1>4, <1>5, <1>6 DEF SendStates
  <2>6. state' \in {"SEND_HEAD_2", "SEND_HEAD_3"} /\ Due' => Is("RD_SEL") /\ since' \in 3 .. 4
    BY <1>1, <1>2, <1>4, <1>5, <1>6, <1>8, <2>2, <2>3 DEF SendStates, Flips, Fills
  <2>7. state' = "IDLE" /\ Due' =>
          (Is("RD_SEL") /\ since' \in 3 .. 5) \/ (Is("RD_PROG") /\ since' >= 6)
    BY <1>1, <1>2, <1>4, <1>5, <1>6, <1>8, <2>2, <2>3 DEF SendStates, Flips, Fills
  <2>8. /\ since' = 2 => state' # "SEND_HEAD_0"
        /\ since' = 3 => state' \notin {"SEND_HEAD_0", "SEND_HEAD_1"}
        /\ since' = 4 => state' \notin {"SEND_HEAD_1", "SEND_HEAD_2"}
        /\ since' = 5 => state' \notin {"SEND_HEAD_2", "SEND_HEAD_3"}
    BY <1>1, <1>4, <1>6, <2>2, <2>3 DEF SendStates
  <2>9. SelAsked' /\ since' >= 3 => Is("RD_SEL")
    BY <1>1, <1>2, <1>5, <1>6, <2>2, <2>3 DEF Flips, SendStates
  <2>10. Is("RD_SEL") /\ since' \in 3 .. 5 => SelAsked'
    BY <1>1, <1>2, <1>6, <2>2, <2>3 DEF Flips, SendStates
  <2>11. B' /\ since' >= 3 => Is("RD_PROG") /\ since' >= 6
    BY <1>1, <1>2, <1>5, <1>6, <2>2, <2>3 DEF Fills, SendStates
  <2> QED
    BY <1>3, <1>7, <2>1, <2>4, <2>5, <2>6, <2>7, <2>8, <2>9, <2>10, <2>11 DEF SendInv, B, state
<1> QED
  BY <1>9, <1>10, HostStep

-----------------------------------------------------------------------------
AnswerRec == [type : {"SEL", "PROG"}, value : BOOLEAN \cup (Address \X Data)]

(* A request that has not got to where an answer is due, and the place of   *)
(* the request whose answer is due or was last.                             *)
Coming == IF (Is("RD_SEL") /\ since <= 2) \/ (Is("RD_PROG") /\ since <= 5) THEN 1 ELSE 0
Turn   == Len(promised) - Coming

AskedInv ==
  /\ promised \in Seq(AnswerRec)
  /\ Is("RD_SEL") => promised # << >> /\ promised[Len(promised)] = Answer("SEL", ~running)
  /\ Is("RD_PROG") => /\ promised # << >>
                      /\ promised[Len(promised)] = Answer("PROG", <<packet.to, written[packet.to]>>)

(* What is due is the answer to that request. *)
DueInv ==
  /\ SelAsked => Turn > 0 /\ promised[Turn] = Answer("SEL", conf.sel)
  /\ buffer # << >> => /\ Turn > 0 /\ promised[Turn].type = "PROG"
                       /\ Matches(Answer("PROG", buffer[1]), promised[Turn])

LEMMA SelStep ==
  ASSUME HostInv, ConfInv, Configure
  PROVE  conf'.sel = IF Is("WR_SEL") /\ since = 2 THEN packet.sel ELSE conf.sel
<1> USE Sizes
<1>1. /\ pos \in 0 .. Words /\ packet.type \in {"NONE", "WR_SEL", "RD_SEL", "WR_PROG", "RD_PROG"}
      /\ pos < Words => since = pos + 1 /\ packet.type # "NONE"
      /\ pos = Words => since >= Words + 1
      /\ since \in Nat
  BY Kinds DEF HostInv
<1>2. CASE Is("WR_SEL") /\ pos = 1
  <2>1. since = 2
    BY <1>1, <1>2
  <2> QED
    BY <1>2, <2>1, ConfStep
<1>3. CASE ~(Is("WR_SEL") /\ pos = 1)
  <2>1. ~(Is("WR_SEL") /\ since = 2)
    BY <1>1, <1>3
  <2>2. CASE pos = 0 \/ pos = Words
    BY <2>1, <2>2, ConfStep
  <2>3. CASE pos \in 1 .. Words - 1 /\ Is("WR_PROG")
    BY <2>1, <2>3, ConfStep
  <2>4. CASE pos \in 2 .. Words - 1 /\ ~Is("WR_PROG")
    BY <2>1, <2>4, ConfStep
  <2>5. CASE pos = 1 /\ Is("RD_SEL")
    BY <2>1, <2>5, ConfStep
  <2>6. CASE pos = 1 /\ Is("RD_PROG")
    BY <2>1, <2>6, ConfStep
  <2>7. \/ pos = 0 \/ pos = Words \/ (pos \in 1 .. Words - 1 /\ Is("WR_PROG"))
        \/ (pos \in 2 .. Words - 1 /\ ~Is("WR_PROG"))
        \/ (pos = 1 /\ Is("RD_SEL")) \/ (pos = 1 /\ Is("RD_PROG"))
    BY <1>1, <1>3 DEF Is
  <2> QED
    BY <2>2, <2>3, <2>4, <2>5, <2>6, <2>7
<1> QED
  BY <1>2, <1>3

LEMMA AskedInvNext ==
  ASSUME HostInv, ConfInv, RamInv, AskedInv, NEW p \in Packets, Host(p)
  PROVE  /\ AskedInv'
         /\ Len(promised) \in Nat /\ Len(promised') \in Nat /\ Len(promised') >= Len(promised)
         /\ \A n \in 1 .. Len(promised) : promised'[n] = promised[n]
         /\ Sends(p) => /\ Turn = Len(promised) /\ Turn' = Turn /\ ~Flips /\ ~Fills
         /\ Waits => /\ promised' = promised
                     /\ Turn' = IF Flips \/ Fills THEN Turn + 1 ELSE Turn
                     /\ Flips \/ Fills => Turn' = Len(promised)
         /\ Turn \in Nat /\ Turn <= Len(promised)
<1> USE Sizes
<1>1. /\ promised \in Seq(AnswerRec) /\ Len(promised) \in Nat
      /\ since \in 1 .. Space /\ running \in BOOLEAN /\ written \in [Address -> Data]
      /\ promised # << >> => Len(promised) > 0
  BY DEF AskedInv, HostInv
<1>2. Coming \in {0, 1} /\ (Coming = 1 => promised # << >>)
  BY DEF Coming, AskedInv
<1>3. Turn \in Nat /\ Turn <= Len(promised)
  BY <1>1, <1>2 DEF Turn
<1>4. CASE Sends(p)
  <2>1. /\ packet' = p /\ since = Space /\ since' = 1
        /\ running' = IF p.type = "WR_SEL" THEN ~p.sel ELSE running
        /\ written' = IF p.type = "WR_PROG" THEN Loaded(written, p.image) ELSE written
        /\ promised' = CASE p.type = "RD_SEL"  -> Append(promised, Answer("SEL", ~running))
                         [] p.type = "RD_PROG" -> Append(promised, Answer("PROG", <<p.to, written[p.to]>>))
                         [] OTHER -> promised
    BY <1>4 DEF Sends, Asks
  <2>2. ~Flips /\ ~Fills /\ Coming = 0 /\ Turn = Len(promised)
    BY <1>1, <2>1 DEF Flips, Fills, Coming, Turn
  <2>3. p.type = "RD_PROG" => p.to \in Address
    BY Kinds
  <2>4. Coming' = IF p.type = "RD_SEL" \/ p.type = "RD_PROG" THEN 1 ELSE 0
    BY <2>1 DEF Coming, Is
  <2>5. CASE p.type = "RD_SEL" \/ p.type = "RD_PROG"
    <3> DEFINE x == IF p.type = "RD_SEL" THEN Answer("SEL", ~running)
                    ELSE Answer("PROG", <<p.to, written[p.to]>>)
    <3>1. promised' = Append(promised, x)
      BY <2>1, <2>5
    <3>2. x \in AnswerRec
      BY <1>1, <2>3, <2>5 DEF Answer, AnswerRec
    <3> HIDE DEF x
    <3>3. /\ promised' \in Seq(AnswerRec) /\ Len(promised') = Len(promised) + 1
          /\ promised'[Len(promised')] = x /\ promised' # << >>
          /\ \A n \in 1 .. Len(promised) : promised'[n] = promised[n]
      BY <1>1, <3>1, <3>2
    <3>4. Turn' = Len(promised)
      BY <1>1, <2>4, <2>5, <3>3 DEF Turn
    <3>5. AskedInv'
      <4>1. CASE p.type = "RD_SEL"
        BY <2>1, <3>3, <4>1 DEF AskedInv, Is, x
      <4>2. CASE p.type = "RD_PROG"
        BY <2>1, <3>3, <4>2 DEF AskedInv, Is, x
      <4> QED
        BY <2>5, <4>1, <4>2
    <3> QED
      BY <1>1, <1>3, <2>2, <3>3, <3>4, <3>5, <1>4, <2>1 DEF Waits
  <2>6. CASE ~(p.type = "RD_SEL" \/ p.type = "RD_PROG")
    <3>1. promised' = promised
      BY <2>1, <2>6
    <3>2. Turn' = Len(promised)
      BY <1>1, <2>4, <2>6, <3>1 DEF Turn
    <3>3. AskedInv'
      BY <1>1, <2>1, <2>6, <3>1 DEF AskedInv, Is
    <3> QED
      BY <1>1, <1>3, <2>2, <3>1, <3>2, <3>3, <1>4, <2>1 DEF Waits
  <2> QED
    BY <2>5, <2>6
<1>5. CASE Waits
  <2>1. /\ packet' = packet /\ promised' = promised /\ written' = written /\ running' = running
        /\ since' = IF since < Space THEN since + 1 ELSE since
    BY <1>5 DEF Waits
  <2>2. AskedInv'
    BY <2>1 DEF AskedInv, Is
  <2>3. since' <= 2 <=> since <= 1
    BY <1>1, <2>1
  <2>4. since' <= 5 <=> since <= 4
    BY <1>1, <2>1
  <2>5. Coming' = IF Flips \/ Fills THEN 0 ELSE Coming
    BY <1>1, <2>1, <2>3, <2>4 DEF Coming, Flips, Fills, Is
  <2>6. Flips \/ Fills => Coming = 1
    BY <1>1 DEF Coming, Flips, Fills
  <2>7. Turn' = IF Flips \/ Fills THEN Turn + 1 ELSE Turn
    BY <1>1, <1>2, <2>1, <2>5, <2>6 DEF Turn
  <2>8. Flips \/ Fills => Turn' = Len(promised)
    BY <1>1, <2>1, <2>5 DEF Turn
  <2>9. ~Sends(p)
    BY <1>1, <2>1 DEF Sends
  <2> QED
    BY <1>1, <1>3, <2>1, <2>2, <2>7, <2>8, <2>9
<1> QED
  BY <1>4, <1>5, HostStep

LEMMA DueInvNext ==
  ASSUME HostInv, ConfInv, RamInv, ReadInv, SendType, SendInv, AskedInv, DueInv,
         NEW p \in Packets, Host(p), Configure, NEW store \in Stores, Ram(store), ReadPipe,
         SendAnswer
  PROVE  DueInv'
<1> USE Sizes
<1>1. /\ since \in Nat /\ send.state \in SendStates /\ conf.sel \in BOOLEAN /\ running \in BOOLEAN
      /\ Space \in Nat /\ Space >= 6
  BY DEF HostInv, SendType, ConfInv, ConfRec
<1>2. since = 2 /\ Due => send.state = "SEND_HEAD_1"
  BY <1>1 DEF SendInv, SendStates
<1>3. (Due <=> SelAsked \/ buffer # << >>)
  BY DEF Due
<1>4. /\ SelAsked' <=> Flips \/ (SelAsked /\ send.state # "SEND_HEAD_1")
      /\ buffer' # << >> <=> Fills \/ (buffer # << >> /\ send.state # "SEND_HEAD_1")
  BY DueStep
<1>5. /\ Len(promised) \in Nat
      /\ \A n \in 1 .. Len(promised) : promised'[n] = promised[n]
      /\ Sends(p) => Turn' = Turn /\ ~Flips /\ ~Fills
      /\ Waits => /\ promised' = promised
                  /\ Turn' = IF Flips \/ Fills THEN Turn + 1 ELSE Turn
                  /\ Flips \/ Fills => Turn' = Len(promised)
      /\ Turn \in Nat /\ Turn <= Len(promised)
  BY AskedInvNext
<1>6. Flips \/ Fills => Waits
  BY <1>1, HostStep DEF Flips, Fills, Sends
<1>7. ~Flips /\ ~Fills => Turn' = Turn
  BY <1>5, HostStep
<1>8. ASSUME SelAsked' PROVE Turn' > 0 /\ promised'[Turn'] = Answer("SEL", conf'.sel)
  <2>1. conf'.sel = IF Is("WR_SEL") /\ since = 2 THEN packet.sel ELSE conf.sel
    BY SelStep
  <2>2. CASE Flips
    <3>1. promised # << >> /\ promised[Len(promised)] = Answer("SEL", ~running)
      BY <2>2 DEF Flips, AskedInv
    <3>2. running = ~conf.sel
      BY <2>2 DEF Flips, ConfInv, Is
    <3>3. conf'.sel = conf.sel
      BY <2>1, <2>2 DEF Flips, Is
    <3>4. Answer("SEL", ~running) = Answer("SEL", conf'.sel)
      BY <1>1, <3>2, <3>3
    <3>5. Turn' = Len(promised) /\ promised' = promised
      BY <1>5, <1>6, <2>2
    <3>6. Turn' > 0
      BY <1>5, <2>2, <1>6
    <3> QED
      BY <3>1, <3>4, <3>5, <3>6
  <2>3. CASE ~Flips
    <3>1. SelAsked /\ send.state # "SEND_HEAD_1"
      BY <1>4, <1>8, <2>3
    <3>2. ~Fills
      BY <1>1, <3>1 DEF Fills, SendInv, Is
    <3>3. Turn' = Turn
      BY <1>7, <2>3, <3>2
    <3>4. Turn > 0 /\ promised[Turn] = Answer("SEL", conf.sel)
      BY <3>1 DEF DueInv
    <3>5. promised'[Turn] = promised[Turn]
      BY <1>5, <3>4
    <3>6. conf'.sel = conf.sel
      BY <1>2, <1>3, <2>1, <3>1
    <3> QED
      BY <3>3, <3>4, <3>5, <3>6
  <2> QED
    BY <2>2, <2>3
<1>9. ASSUME buffer' # << >>
      PROVE  /\ Turn' > 0 /\ promised'[Turn'].type = "PROG"
             /\ Matches(Answer("PROG", buffer'[1]), promised'[Turn'])
  <2>1. CASE Fills
    <3> DEFINE to == packet.to
               got == ram[OfInstr(to)]
               put == written[to]
    <3>1. promised # << >> /\ promised[Len(promised)] = Answer("PROG", <<to, put>>)
      BY <2>1 DEF Fills, AskedInv
    <3>2. temp.r1
      BY <2>1 DEF Fills, ReadInv
    <3>3. buffer' = << <<temp.a1, rdata>> >> /\ temp.a1 = to /\ rdata = got
      BY <3>2, BufferStep DEF ReadInv
    <3>4. stored \subseteq DataWords /\ \A a \in Address \ stored : written[a] = ram[a]
      BY <2>1 DEF Fills, RamInv, Is
    <3>5. packet \in Packets
      BY DEF HostInv
    <3>6. to \in Address
      BY <2>1, <3>5, Kinds DEF Fills, Is
    <3>7. to.bank = "instr" => OfInstr(to) = to
      BY <3>6 DEF OfInstr, Address
    <3>8. to.bank = "instr" => got = put
      <4>1. to.bank = "instr" => to \notin stored
        BY <3>4 DEF DataWords
      <4> QED
        BY <3>4, <3>6, <3>7, <4>1
    <3>9. Turn' = Len(promised) /\ promised' = promised
      BY <1>5, <1>6, <2>1
    <3>10. Turn' > 0
      BY <1>5, <1>6, <2>1
    <3>11. buffer'[1] = <<to, got>>
      BY <3>3
    <3> HIDE DEF to, got, put
    <3>12. Matches(Answer("PROG", <<to, got>>), Answer("PROG", <<to, put>>))
      BY <3>8 DEF Matches, Answer
    <3>13. Answer("PROG", <<to, put>>).type = "PROG"
      BY DEF Answer
    <3> QED
      BY <3>1, <3>9, <3>10, <3>11, <3>12, <3>13
  <2>2. CASE ~Fills
    <3>1. buffer # << >> /\ send.state # "SEND_HEAD_1"
      BY <1>4, <1>9, <2>2
    <3>2. ~Flips
      BY <1>2, <1>3, <3>1 DEF Flips
    <3>3. Turn' = Turn
      BY <1>7, <2>2, <3>2
    <3>4. /\ Turn > 0 /\ promised[Turn].type = "PROG"
          /\ Matches(Answer("PROG", buffer[1]), promised[Turn])
      BY <3>1 DEF DueInv
    <3>5. promised'[Turn] = promised[Turn]
      BY <1>5, <3>4
    <3>6. ~temp.r1 /\ ~send.rdreq
      BY <2>2, <3>1 DEF Fills, ReadInv, SendInv
    <3>7. buffer' = buffer
      BY <3>6, BufferStep
    <3> QED
      BY <3>3, <3>4, <3>5, <3>7
  <2> QED
    BY <2>1, <2>2
<1> QED
  BY <1>8, <1>9 DEF DueInv

-----------------------------------------------------------------------------
(* What leaves when the network interface is silent.                        *)
Values  == {"none", "SEL", "PROG", "pad"} \cup BOOLEAN \cup (Address \X Data)
WordRec == [mark : {"none", "head", "body", "tail"}, from : {"none", "mem", "soft"}, value : Values]
MuxRec  == [valid : BOOLEAN, word : WordRec, mem : BOOLEAN]

OutType ==
  /\ soft = 0 /\ softs = 0
  /\ send.word \in WordRec /\ mux \in MuxRec /\ output \in Seq(WordRec)
  /\ mux.valid => mux.mem

(* Where the words of an answer are: one of conf_mem.v, the one before it   *)
(* in the multiplexer and the one before that the last that left.           *)
MarkInv ==
  /\ send.state = "SEND_HEAD_0" => ~send.valid
  /\ send.state \in {"SEND_HEAD_1", "SEND_HEAD_2", "SEND_HEAD_3"} => send.valid
  /\ send.valid =>
       /\ send.word.from = "mem"
       /\ send.word.mark = IF send.state = "SEND_HEAD_1" THEN "head"
                           ELSE IF send.state = "IDLE" THEN "tail" ELSE "body"
  /\ send.state = "SEND_HEAD_1" => ~mux.valid
  /\ send.state \in {"SEND_HEAD_2", "SEND_HEAD_3"} => mux.valid
  /\ send.state = "IDLE" /\ send.valid => mux.valid
  /\ mux.valid =>
       /\ mux.word.from = "mem"
       /\ mux.word.mark = IF send.state = "SEND_HEAD_2" THEN "head"
                          ELSE IF send.state = "SEND_HEAD_3" \/ send.valid THEN "body" ELSE "tail"

Latest == output[Len(output)]

PlaceInv ==
  /\ \A k \in 1 .. Len(output) : output[k].from = "mem"
  /\ \A k \in 2 .. Len(output) : output[k].mark = "head" <=> output[k - 1].mark = "tail"
  /\ IF send.state = "SEND_HEAD_3" THEN output # << >> /\ Latest.mark = "head"
     ELSE IF mux.valid /\ send.state # "SEND_HEAD_2" THEN output # << >> /\ Latest.mark = "body"
     ELSE output # << >> => Latest.mark = "tail"

LEMMA OutStep ==
  ASSUME MaxSoft = 0, OutType, SendType, SendInv, NEW start \in BOOLEAN,
         SendAnswer, Soft(start), Multiplex, ConfInv
  PROVE  /\ OutType'
         /\ mux'.valid = send.valid
         /\ send.valid => mux'.word = send.word
         /\ output' = IF mux.valid THEN Append(output, mux.word) ELSE output
<1>1. /\ soft = 0 /\ softs = 0 /\ send.word \in WordRec /\ mux \in MuxRec
      /\ output \in Seq(WordRec) /\ (mux.valid => mux.mem)
      /\ send.valid \in BOOLEAN /\ send.state \in SendStates
      /\ mux.valid \in BOOLEAN /\ mux.mem \in BOOLEAN /\ mux.word \in WordRec
  BY DEF OutType, SendType, MuxRec
<1>2. ~SoftValid /\ soft' = 0 /\ softs' = 0
  <2>1. ~SoftValid
    BY <1>1 DEF SoftValid
  <2>2. ~start
    BY <1>1 DEF Soft
  <2> QED
    BY <1>1, <2>1, <2>2 DEF Soft
<1>3. SoftWord \in WordRec
  BY <1>1 DEF SoftWord, NoWord, Word, WordRec, Values
<1>4. send'.word \in WordRec
  <2>1. conf.sel \in BOOLEAN /\ buffer \in Seq(Address \X Data)
    BY DEF ConfInv, ConfRec, SendType
  <2>2. buffer # << >> => Head(buffer) \in Address \X Data
    BY <2>1
  <2>3. CASE send.state = "SEND_HEAD_1"
    <3> DEFINE v == IF SelAsked THEN conf.sel ELSE IF buffer = << >> THEN "none" ELSE Head(buffer)
    <3>1. v \in Values
      BY <2>1, <2>2 DEF Values
    <3>2. send'.word = Word("body", "mem", v)
      BY <2>3, SendStep
    <3> HIDE DEF v
    <3> QED
      BY <3>1, <3>2 DEF Word, WordRec
  <2>4. CASE send.state = "SEND_HEAD_0"
    <3>1. send'.word = Word("head", "mem", IF SelAsked THEN "SEL" ELSE "PROG")
      BY <2>4, SendStep
    <3> QED
      BY <3>1 DEF Word, WordRec, Values
  <2>5. CASE send.state = "IDLE"
    BY <1>1, <2>5, SendStep
  <2>6. CASE send.state \in {"SEND_HEAD_2", "SEND_HEAD_3"}
    <3>1. send'.word = Word("body", "mem", "pad") \/ send'.word = Word("tail", "mem", "pad")
      BY <2>6, SendStep
    <3> QED
      BY <3>1 DEF Word, WordRec, Values
  <2> QED
    BY <1>1, <2>3, <2>4, <2>5, <2>6 DEF SendStates
<1> DEFINE mem == IF mux.valid THEN mux.mem ELSE send.valid
           word == IF mem THEN send.word ELSE SoftWord
<1>5. /\ mux' = [valid |-> send.valid \/ SoftValid, mem |-> mem, word |-> word]
      /\ output' = IF mux.valid THEN Append(output, mux.word) ELSE output
  BY DEF Multiplex
<1>6. mem \in BOOLEAN /\ word \in WordRec /\ (send.valid => mem)
  BY <1>1, <1>3
<1>7. send.valid => word = send.word
  BY <1>6
<1> HIDE DEF mem, word
<1>8. mux'.valid = send.valid /\ mux'.mem = mem /\ mux'.word = word /\ mux' \in MuxRec
  BY <1>1, <1>2, <1>5, <1>6 DEF MuxRec
<1>9. output' \in Seq(WordRec)
  BY <1>1, <1>5
<1> QED
  BY <1>2, <1>4, <1>5, <1>6, <1>7, <1>8, <1>9 DEF OutType

LEMMA MarkInvNext ==
  ASSUME MaxSoft = 0, OutType, SendType, SendInv, MarkInv, NEW start \in BOOLEAN,
         SendAnswer, Soft(start), Multiplex, ConfInv
  PROVE  MarkInv'
<1>1. /\ mux'.valid = send.valid /\ (send.valid => mux'.word = send.word)
      /\ send.valid \in BOOLEAN /\ send.state \in SendStates /\ mux.valid \in BOOLEAN
  BY OutStep DEF SendType, OutType, MuxRec
<1>2. CASE send.state = "IDLE"
  BY <1>1, <1>2, SendStep DEF MarkInv
<1>3. CASE send.state = "SEND_HEAD_0"
  <2>1. ~send.valid /\ ~mux'.valid
    BY <1>1, <1>3 DEF MarkInv
  <2>2. send'.state = "SEND_HEAD_1" /\ send'.valid
    BY <1>3, SendStep
  <2>3. send'.word = Word("head", "mem", IF SelAsked THEN "SEL" ELSE "PROG")
    BY <1>3, SendStep
  <2>4. send'.word.from = "mem" /\ send'.word.mark = "head"
    BY <2>3 DEF Word
  <2> QED
    BY <2>1, <2>2, <2>4 DEF MarkInv
<1>4. CASE send.state = "SEND_HEAD_1"
  BY <1>1, <1>4, SendStep DEF MarkInv, Word
<1>5. CASE send.state = "SEND_HEAD_2"
  BY <1>1, <1>5, SendStep DEF MarkInv, Word
<1>6. CASE send.state = "SEND_HEAD_3"
  BY <1>1, <1>6, SendStep DEF MarkInv, Word
<1> QED
  BY <1>1, <1>2, <1>3, <1>4, <1>5, <1>6 DEF SendStates

LEMMA PlaceInvNext ==
  ASSUME MaxSoft = 0, OutType, SendType, SendInv, MarkInv, PlaceInv, NEW start \in BOOLEAN,
         SendAnswer, Soft(start), Multiplex, ConfInv
  PROVE  PlaceInv'
<1>1. /\ mux'.valid = send.valid
      /\ send.valid \in BOOLEAN /\ send.state \in SendStates /\ mux.valid \in BOOLEAN
      /\ output' = IF mux.valid THEN Append(output, mux.word) ELSE output
      /\ output \in Seq(WordRec) /\ mux.word \in WordRec
  BY OutStep DEF SendType, OutType, MuxRec
<1>2. send'.state = CASE send.state = "IDLE" -> IF Due THEN "SEND_HEAD_0" ELSE "IDLE"
                      [] send.state = "SEND_HEAD_0" -> "SEND_HEAD_1"
                      [] send.state = "SEND_HEAD_1" -> "SEND_HEAD_2"
                      [] send.state = "SEND_HEAD_2" -> "SEND_HEAD_3"
                      [] send.state = "SEND_HEAD_3" -> "IDLE"
  BY <1>1, SendStep DEF SendStates
<1>3. /\ \A k \in 1 .. Len(output) : output[k].from = "mem"
      /\ \A k \in 2 .. Len(output) : output[k].mark = "head" <=> output[k - 1].mark = "tail"
      /\ IF send.state = "SEND_HEAD_3" THEN output # << >> /\ Latest.mark = "head"
         ELSE IF mux.valid /\ send.state # "SEND_HEAD_2" THEN output # << >> /\ Latest.mark = "body"
         ELSE output # << >> => Latest.mark = "tail"
  BY DEF PlaceInv
<1>4. CASE mux.valid
  <2> DEFINE n == Len(output)
  <2>1. /\ mux.word.from = "mem"
        /\ mux.word.mark = IF send.state = "SEND_HEAD_2" THEN "head"
                           ELSE IF send.state = "SEND_HEAD_3" \/ send.valid THEN "body" ELSE "tail"
        /\ send.state # "SEND_HEAD_1"
    BY <1>4 DEF MarkInv
  <2>2. /\ n \in Nat /\ Len(output') = n + 1 /\ output'[n + 1] = mux.word /\ output' # << >>
        /\ \A k \in 1 .. n : output'[k] = output[k]
        /\ output # << >> <=> n > 0
    BY <1>1, <1>4
  <2>3. Latest' = mux.word
    BY <2>2 DEF Latest
  <2>4. n > 0 => (mux.word.mark = "head" <=> output[n].mark = "tail")
    BY <1>1, <1>3, <1>4, <2>1, <2>2 DEF Latest, SendStates
  <2>5. \A k \in 1 .. n + 1 : output'[k].from = "mem"
    BY <1>3, <2>1, <2>2
  <2>6. ASSUME NEW k \in 2 .. n + 1
        PROVE  output'[k].mark = "head" <=> output'[k - 1].mark = "tail"
    <3>1. CASE k = n + 1
      <4>1. n \in 1 .. n /\ n > 0 /\ k - 1 = n
        BY <2>2, <3>1
      <4> QED
        BY <2>2, <2>4, <3>1, <4>1
    <3>2. CASE k # n + 1
      <4>1. k \in 2 .. n /\ k \in 1 .. n /\ k - 1 \in 1 .. n
        BY <2>2, <3>2
      <4> QED
        BY <1>3, <2>2, <4>1
    <3> QED
      BY <3>1, <3>2
  <2>7. IF send'.state = "SEND_HEAD_3" THEN output' # << >> /\ Latest'.mark = "head"
        ELSE IF mux'.valid /\ send'.state # "SEND_HEAD_2" THEN output' # << >> /\ Latest'.mark = "body"
        ELSE output' # << >> => Latest'.mark = "tail"
    <3>1. send.state = "SEND_HEAD_3" => send.valid
      BY DEF MarkInv
    <3>2. send.state = "SEND_HEAD_0" => ~send.valid
      BY DEF MarkInv
    <3> QED
      BY <1>1, <1>2, <2>1, <2>2, <2>3, <3>1, <3>2 DEF SendStates
  <2> HIDE DEF n
  <2> QED
    BY <2>2, <2>5, <2>6, <2>7 DEF PlaceInv
<1>5. CASE ~mux.valid
  <2>1. output' = output /\ Latest' = Latest
    BY <1>1, <1>5 DEF Latest
  <2>2. /\ send.state \in {"IDLE", "SEND_HEAD_0", "SEND_HEAD_1"}
        /\ send.state # "SEND_HEAD_1" => ~send.valid
    BY <1>1, <1>5 DEF MarkInv, SendStates
  <2>3. output # << >> => Latest.mark = "tail"
    BY <1>3, <1>5, <2>2
  <2>4. send'.state # "SEND_HEAD_3" /\ (mux'.valid => send'.state = "SEND_HEAD_2")
    BY <1>1, <1>2, <2>2
  <2> QED
    BY <1>3, <2>1, <2>3, <2>4 DEF PlaceInv
<1> QED
  BY <1>1, <1>4, <1>5

-----------------------------------------------------------------------------
LEMMA HeadsPush ==
  ASSUME NEW S, NEW f \in Seq(S), NEW x
  PROVE  /\ Heads(f, Len(f)) \in Nat
         /\ Heads(Append(f, x), Len(f) + 1) = Heads(f, Len(f)) + (IF IsHead(x) THEN 1 ELSE 0)
         /\ \A n \in 1 .. Len(f) : Heads(Append(f, x), n) = Heads(f, n)
<1> DEFINE g == Append(f, x)
           n == Len(f)
           K == {k \in 1 .. n : IsHead(f[k])}
           U == {k \in 1 .. n + 1 : IsHead(g[k])}
<1>1. n \in Nat /\ g[n + 1] = x /\ \A k \in 1 .. n : g[k] = f[k]
  OBVIOUS
<1>2. IsFiniteSet(K)
  <2>1. IsFiniteSet(1 .. n)
    BY <1>1, FS_Interval
  <2> QED
    BY <2>1, FS_Subset
<1>3. n + 1 \notin K
  BY <1>1
<1>4. Heads(f, n) = Cardinality(K) /\ Heads(g, n + 1) = Cardinality(U)
  BY DEF Heads
<1>5. \A m \in 1 .. n : Heads(g, m) = Heads(f, m)
  <2>1. ASSUME NEW m \in 1 .. n PROVE Heads(g, m) = Heads(f, m)
    <3>1. {k \in 1 .. m : IsHead(g[k])} = {k \in 1 .. m : IsHead(f[k])}
      BY <1>1
    <3> QED
      BY <3>1 DEF Heads
  <2> QED
    BY <2>1
<1>6. Cardinality(K) \in Nat
  BY <1>2, FS_CardinalityType
<1>7. CASE IsHead(x)
  <2>1. U = K \cup {n + 1}
    BY <1>1, <1>7
  <2>2. Cardinality(K \cup {n + 1}) = Cardinality(K) + 1
    BY <1>2, <1>3, FS_AddElement
  <2> QED
    BY <1>4, <1>5, <1>6, <1>7, <2>1, <2>2
<1>8. CASE ~IsHead(x)
  <2>1. U = K
    BY <1>1, <1>8
  <2> HIDE DEF K, U
  <2> QED
    BY <1>4, <1>5, <1>6, <1>8, <2>1
<1> QED
  BY <1>7, <1>8

(* The answers that left, the one on its way and the one that is due are    *)
(* all that were asked for so far.                                          *)
Begun == Heads(output, Len(output))
         + (IF send.state \in {"SEND_HEAD_1", "SEND_HEAD_2"} THEN 1 ELSE 0)

Right(type, value) ==
  Begun \in 1 .. Len(promised) /\ Matches(Answer(type, value), promised[Begun])

AnswerInv ==
  /\ Begun = Turn - (IF Due /\ send.state # "SEND_HEAD_1" THEN 1 ELSE 0)
  /\ send.state = "SEND_HEAD_1" => send.word.value = IF SelAsked THEN "SEL" ELSE "PROG"
  /\ send.state = "SEND_HEAD_2" => Right(mux.word.value, send.word.value)
  /\ send.state = "SEND_HEAD_3" => Right(Latest.value, mux.word.value)

LEMMA NewDue ==
  ASSUME HostInv, ConfInv, ReadInv, SendType, SendInv, Configure, ReadPipe, SendAnswer
  PROVE  /\ Flips \/ Fills => ~Due \/ send.state = "SEND_HEAD_1"
         /\ send.state = "SEND_HEAD_0" => Due /\ ~Flips /\ ~Fills
         /\ Due' <=> Flips \/ Fills \/ (Due /\ send.state # "SEND_HEAD_1")
         /\ send.state = "SEND_HEAD_0" => (SelAsked' <=> SelAsked)
<1>1. since \in Nat /\ send.state \in SendStates
  BY Sizes DEF HostInv, SendType
<1>2. Flips => ~Due \/ send.state = "SEND_HEAD_1"
  BY <1>1 DEF Flips, SendInv, SendStates
<1>3. Fills => ~Due
  BY <1>1 DEF Fills, SendInv, SendStates, Is, Due
<1>4. send.state = "SEND_HEAD_0" => Due
  BY DEF SendInv
<1>5. /\ SelAsked' <=> Flips \/ (SelAsked /\ send.state # "SEND_HEAD_1")
      /\ buffer' # << >> <=> Fills \/ (buffer # << >> /\ send.state # "SEND_HEAD_1")
  BY DueStep
<1>6. (Due <=> SelAsked \/ buffer # << >>) /\ (Due' <=> SelAsked' \/ buffer' # << >>)
  BY DEF Due
<1> QED
  BY <1>2, <1>3, <1>4, <1>5, <1>6

(* The words that left and the answers begun, in a clock.                   *)
LEMMA BegunStep ==
  ASSUME MaxSoft = 0, OutType, SendType, SendInv, MarkInv, NEW start \in BOOLEAN,
         SendAnswer, Soft(start), Multiplex, ConfInv
  PROVE  /\ Begun \in Nat
         /\ Begun' = IF send.state = "SEND_HEAD_0" THEN Begun + 1 ELSE Begun
<1>1. /\ send.valid \in BOOLEAN /\ send.state \in SendStates /\ mux.valid \in BOOLEAN
      /\ output' = IF mux.valid THEN Append(output, mux.word) ELSE output
      /\ output \in Seq(WordRec) /\ mux.word \in WordRec
  BY OutStep DEF SendType, OutType, MuxRec
<1> DEFINE h == Heads(output, Len(output))
<1>2. h \in Nat
  BY <1>1, HeadsPush
<1>3. Heads(output', Len(output')) = h + (IF send.state = "SEND_HEAD_2" THEN 1 ELSE 0)
  <2>1. CASE mux.valid
    <3>1. output' = Append(output, mux.word) /\ Len(output') = Len(output) + 1
      BY <1>1, <2>1
    <3>2. Heads(output', Len(output')) = h + (IF IsHead(mux.word) THEN 1 ELSE 0)
      BY <1>1, <3>1, HeadsPush
    <3>3. IsHead(mux.word) <=> send.state = "SEND_HEAD_2"
      BY <2>1 DEF MarkInv, IsHead
    <3> QED
      BY <3>2, <3>3
  <2>2. CASE ~mux.valid
    <3>1. output' = output
      BY <1>1, <2>2
    <3>2. send.state # "SEND_HEAD_2"
      BY <2>2 DEF MarkInv
    <3> QED
      BY <1>2, <3>1, <3>2
  <2> QED
    BY <1>1, <2>1, <2>2
<1> HIDE DEF h
<1>4. Begun = h + (IF send.state \in {"SEND_HEAD_1", "SEND_HEAD_2"} THEN 1 ELSE 0)
  BY DEF Begun, h
<1>5. Begun' = Heads(output', Len(output'))
               + (IF send'.state \in {"SEND_HEAD_1", "SEND_HEAD_2"} THEN 1 ELSE 0)
  BY DEF Begun
<1>6. send'.state = CASE send.state = "IDLE" -> IF Due THEN "SEND_HEAD_0" ELSE "IDLE"
                      [] send.state = "SEND_HEAD_0" -> "SEND_HEAD_1"
                      [] send.state = "SEND_HEAD_1" -> "SEND_HEAD_2"
                      [] send.state = "SEND_HEAD_2" -> "SEND_HEAD_3"
                      [] send.state = "SEND_HEAD_3" -> "IDLE"
  BY <1>1, SendStep DEF SendStates
<1> QED
  BY <1>1, <1>2, <1>3, <1>4, <1>5, <1>6 DEF SendStates

LEMMA AnswerInvNext ==
  ASSUME MaxSoft = 0, HostInv, ConfInv, RamInv, ReadInv, SendType, SendInv, AskedInv, DueInv,
         OutType, MarkInv, AnswerInv, NEW p \in Packets, NEW start \in BOOLEAN,
         NEW store \in Stores, Host(p), Configure, Ram(store), ReadPipe, SendAnswer,
         Soft(start), Multiplex
  PROVE  AnswerInv'
<1>1. /\ send.state \in SendStates /\ mux.valid \in BOOLEAN
      /\ mux'.valid = send.valid /\ (send.valid => mux'.word = send.word)
      /\ output' = IF mux.valid THEN Append(output, mux.word) ELSE output
      /\ output \in Seq(WordRec) /\ mux.word \in WordRec
  BY OutStep DEF SendType, OutType, MuxRec
<1>2. /\ Flips \/ Fills => ~Due \/ send.state = "SEND_HEAD_1"
      /\ send.state = "SEND_HEAD_0" => Due /\ ~Flips /\ ~Fills
      /\ Due' <=> Flips \/ Fills \/ (Due /\ send.state # "SEND_HEAD_1")
      /\ send.state = "SEND_HEAD_0" => (SelAsked' <=> SelAsked)
  BY NewDue
<1>3. /\ Begun \in Nat
      /\ Begun' = IF send.state = "SEND_HEAD_0" THEN Begun + 1 ELSE Begun
  BY BegunStep
<1>4. /\ Len(promised) \in Nat /\ Len(promised') \in Nat /\ Len(promised') >= Len(promised)
      /\ \A n \in 1 .. Len(promised) : promised'[n] = promised[n]
      /\ Turn \in Nat /\ Turn <= Len(promised)
      /\ Turn' = IF Flips \/ Fills THEN Turn + 1 ELSE Turn
  BY AskedInvNext, HostStep
<1>5. send'.state = CASE send.state = "IDLE" -> IF Due THEN "SEND_HEAD_0" ELSE "IDLE"
                      [] send.state = "SEND_HEAD_0" -> "SEND_HEAD_1"
                      [] send.state = "SEND_HEAD_1" -> "SEND_HEAD_2"
                      [] send.state = "SEND_HEAD_2" -> "SEND_HEAD_3"
                      [] send.state = "SEND_HEAD_3" -> "IDLE"
  BY <1>1, SendStep DEF SendStates
<1>6. Begun = Turn - (IF Due /\ send.state # "SEND_HEAD_1" THEN 1 ELSE 0)
  BY DEF AnswerInv
<1>7. Begun' = Turn' - (IF Due' /\ send'.state # "SEND_HEAD_1" THEN 1 ELSE 0)
  <2>1. CASE send.state = "SEND_HEAD_0"
    BY <1>2, <1>3, <1>4, <1>5, <1>6, <2>1
  <2>2. CASE send.state # "SEND_HEAD_0"
    <3>1. send'.state # "SEND_HEAD_1" /\ Begun' = Begun
      BY <1>1, <1>3, <1>5, <2>2 DEF SendStates
    <3>2. CASE Flips \/ Fills
      BY <1>2, <1>4, <1>6, <3>1, <3>2
    <3>3. CASE ~(Flips \/ Fills)
      BY <1>2, <1>4, <1>6, <3>1, <3>3
    <3> QED
      BY <3>2, <3>3
  <2> QED
    BY <2>1, <2>2
<1>8. ASSUME send'.state = "SEND_HEAD_1"
      PROVE  send'.word.value = IF SelAsked' THEN "SEL" ELSE "PROG"
  <2>1. send.state = "SEND_HEAD_0"
    BY <1>1, <1>5, <1>8 DEF SendStates
  <2>2. send'.word = Word("head", "mem", IF SelAsked THEN "SEL" ELSE "PROG")
    BY <2>1, SendStep
  <2>3. send'.word.value = IF SelAsked THEN "SEL" ELSE "PROG"
    BY <2>2 DEF Word
  <2> QED
    BY <1>2, <2>1, <2>3
<1>9. ASSUME send'.state = "SEND_HEAD_2"
      PROVE  Right(mux.word.value, send.word.value)'
  <2>1. send.state = "SEND_HEAD_1"
    BY <1>1, <1>5, <1>9 DEF SendStates
  <2>2. mux'.word = send.word
    BY <1>1, <2>1 DEF MarkInv
  <2>3. send.word.value = IF SelAsked THEN "SEL" ELSE "PROG"
    BY <2>1 DEF AnswerInv
  <2>4. Begun' = Turn
    BY <1>3, <1>4, <1>6, <2>1
  <2> DEFINE v == IF SelAsked THEN conf.sel
                  ELSE IF buffer = << >> THEN "none" ELSE Head(buffer)
  <2>5. send'.word = Word("body", "mem", v)
    BY <2>1, SendStep
  <2>6. send'.word.value = v
    BY <2>5 DEF Word
  <2>7. SelAsked \/ buffer # << >>
    BY <2>1 DEF SendInv, Due
  <2>8. Turn > 0 /\ promised'[Turn] = promised[Turn]
    BY <1>4, <2>7 DEF DueInv
  <2>9. Turn \in 1 .. Len(promised')
    BY <1>4, <2>8
  <2>10. Matches(Answer(send.word.value, v), promised[Turn])
    <3>1. CASE SelAsked
      <4>1. promised[Turn] = Answer("SEL", conf.sel) /\ v = conf.sel /\ send.word.value = "SEL"
        BY <2>3, <3>1 DEF DueInv
      <4> HIDE DEF v
      <4>2. Matches(Answer("SEL", conf.sel), Answer("SEL", conf.sel))
        BY DEF Matches, Answer
      <4> QED
        BY <4>1, <4>2
    <3>2. CASE ~SelAsked
      <4>1. buffer # << >> /\ send.word.value = "PROG"
        BY <2>3, <2>7, <3>2
      <4>2. v = buffer[1]
        BY <3>2, <4>1 DEF SendType
      <4>3. Matches(Answer("PROG", buffer[1]), promised[Turn])
        BY <4>1 DEF DueInv
      <4> HIDE DEF v
      <4> QED
        BY <4>1, <4>2, <4>3
    <3> QED
      BY <3>1, <3>2
  <2> HIDE DEF v
  <2> QED
    BY <2>2, <2>4, <2>6, <2>8, <2>9, <2>10 DEF Right
<1>10. ASSUME send'.state = "SEND_HEAD_3"
       PROVE  Right(Latest.value, mux.word.value)'
  <2>1. send.state = "SEND_HEAD_2"
    BY <1>1, <1>5, <1>10 DEF SendStates
  <2>2. mux.valid /\ send.valid
    BY <2>1 DEF MarkInv
  <2>3. Latest' = mux.word
    <3>1. output' = Append(output, mux.word)
      BY <1>1, <2>2
    <3>2. output'[Len(output')] = mux.word
      BY <1>1, <3>1
    <3> QED
      BY <3>2 DEF Latest
  <2>4. mux'.word = send.word
    BY <1>1, <2>2
  <2>5. Begun' = Begun
    BY <1>3, <2>1
  <2>6. Begun \in 1 .. Len(promised) /\ Matches(Answer(mux.word.value, send.word.value), promised[Begun])
    BY <2>1 DEF AnswerInv, Right
  <2>7. promised'[Begun] = promised[Begun] /\ Begun \in 1 .. Len(promised')
    BY <1>4, <2>6
  <2> QED
    BY <2>3, <2>4, <2>5, <2>6, <2>7 DEF Right
<1> QED
  BY <1>7, <1>8, <1>9, <1>10 DEF AnswerInv

LEMMA AnswersMatchNext ==
  ASSUME MaxSoft = 0, HostInv, ConfInv, RamInv, ReadInv, SendType, SendInv, AskedInv, DueInv,
         OutType, MarkInv, PlaceInv, AnswerInv, AnswersMatch, NEW p \in Packets, NEW start \in BOOLEAN,
         NEW store \in Stores, Host(p), Configure, Ram(store), ReadPipe, SendAnswer,
         Soft(start), Multiplex
  PROVE  AnswersMatch'
<1>1. /\ send.state \in SendStates /\ mux.valid \in BOOLEAN
      /\ output' = IF mux.valid THEN Append(output, mux.word) ELSE output
      /\ output \in Seq(WordRec) /\ mux.word \in WordRec
  BY OutStep DEF SendType, OutType, MuxRec
<1>2. /\ Len(promised) \in Nat /\ Len(promised') \in Nat /\ Len(promised') >= Len(promised)
      /\ \A n \in 1 .. Len(promised) : promised'[n] = promised[n]
  BY AskedInvNext
<1> DEFINE Good(o, r, n) ==
             /\ Heads(o, n) <= Len(r)
             /\ Matches(Answer(o[n].value, o[n + 1].value), r[Heads(o, n)])
<1>3. \A n \in 1 .. Len(output) - 1 : IsHead(output[n]) => Good(output, promised, n)
  BY DEF AnswersMatch
<1>4. SUFFICES ASSUME NEW n \in 1 .. Len(output') - 1, IsHead(output'[n])
               PROVE  Good(output', promised', n)
  BY DEF AnswersMatch
<1>5. CASE n \in 1 .. Len(output) - 1
  <2>1. output'[n] = output[n] /\ output'[n + 1] = output[n + 1] /\ n \in 1 .. Len(output)
    BY <1>1, <1>5
  <2>2. Heads(output', n) = Heads(output, n)
    BY <1>1, <2>1, HeadsPush
  <2>3. Good(output, promised, n)
    BY <1>3, <1>4, <1>5, <2>1
  <2>4. Heads(output, n) \in 1 .. Len(promised)
    <3> DEFINE K == {k \in 1 .. n : IsHead(output[k])}
    <3>1. n \in K
      BY <1>4, <2>1
    <3>2. IsFiniteSet(1 .. n)
      BY FS_Interval
    <3>3. IsFiniteSet(K)
      BY <3>2, FS_Subset
    <3>4. Cardinality(K) = Heads(output, n)
      BY DEF Heads
    <3> HIDE DEF K
    <3>5. Cardinality(K) \in Nat /\ Cardinality(K) # 0
      BY <3>1, <3>3, FS_CardinalityType, FS_EmptySet
    <3> QED
      BY <1>2, <2>3, <3>4, <3>5
  <2>5. promised'[Heads(output, n)] = promised[Heads(output, n)]
    BY <1>2, <2>4
  <2>6. Heads(output, n) <= Len(promised')
    BY <1>2, <2>4
  <2> QED
    BY <2>1, <2>2, <2>3, <2>5, <2>6
<1>6. CASE n \notin 1 .. Len(output) - 1
  <2>1. mux.valid
    BY <1>1, <1>6
  <2>2. output' = Append(output, mux.word)
    BY <1>1, <2>1
  <2>3. n = Len(output) /\ n \in 1 .. Len(output)
    BY <1>1, <1>6, <2>2
  <2>4. output'[n] = output[n] /\ output'[n + 1] = mux.word
    BY <1>1, <2>2, <2>3
  <2>5. Latest.mark = "head" /\ Latest = output[n] /\ output # << >>
    BY <1>4, <2>3, <2>4 DEF IsHead, Latest
  <2>6. send.state = "SEND_HEAD_3"
    BY <2>1, <2>5 DEF PlaceInv
  <2>7. Right(Latest.value, mux.word.value)
    BY <2>6 DEF AnswerInv
  <2>8. Begun = Heads(output, n)
    <3>1. Heads(output, Len(output)) \in Nat
      BY <1>1, HeadsPush
    <3> QED
      BY <2>3, <2>6, <3>1 DEF Begun
  <2>9. Heads(output', n) = Heads(output, n)
    BY <1>1, <2>2, <2>3, HeadsPush
  <2>10. /\ Heads(output, n) \in 1 .. Len(promised)
         /\ Matches(Answer(output[n].value, mux.word.value), promised[Heads(output, n)])
    BY <2>5, <2>7, <2>8 DEF Right
  <2>11. promised'[Heads(output, n)] = promised[Heads(output, n)] /\ Heads(output, n) <= Len(promised')
    BY <1>2, <2>10
  <2> QED
    BY <2>4, <2>9, <2>10, <2>11
<1> QED
  BY <1>5, <1>6

-----------------------------------------------------------------------------
(* What holds of any program in the processor: the host, the registers of   *)
(* conf_mem.v, the RAMs and the answers that are due.                       *)
BaseInv ==
  /\ HostInv /\ ConfInv /\ RamInv /\ ReadInv /\ SoftInv
  /\ SendType /\ SendInv /\ AskedInv /\ DueInv

(* And of what leaves, when the network interface sends nothing.            *)
LeavesInv == OutType /\ MarkInv /\ PlaceInv /\ AnswerInv /\ AnswersMatch

IInv == BaseInv /\ (MaxSoft = 0 => LeavesInv)

LEMMA BaseInit == Init => BaseInv
<1> SUFFICES ASSUME Init PROVE BaseInv
  OBVIOUS
<1> USE Sizes
<1>1. /\ packet = NoPacket /\ pos = Words /\ since = Space /\ sent = 0
      /\ promised = << >> /\ running = FALSE /\ written = [a \in Address |-> Blank]
      /\ stored = {}
      /\ conf = [state |-> "IDLE", rden |-> FALSE, wren |-> FALSE, addr |-> Origin,
                 wdata |-> Blank, sel |-> TRUE, tag |-> FALSE]
      /\ ram = [a \in Address |-> Blank] /\ ramQ = Blank /\ rdata = Blank
      /\ temp = [r0 |-> FALSE, r1 |-> FALSE, a0 |-> Origin, a1 |-> Origin]
      /\ buffer = << >>
      /\ send = [state |-> "IDLE", valid |-> FALSE, word |-> NoWord, rdreq |-> FALSE, tag |-> FALSE]
      /\ soft = 0 /\ softs = 0
  BY DEF Init
<1>2. packet \in Packets /\ packet.type = "NONE"
  BY <1>1 DEF Packets, NoPacket
<1>3. Origin \in Address
  <2>1. (CHOOSE x \in Index : TRUE) \in Index
    BY Requests, Zenon
  <2> QED
    BY <2>1 DEF Origin, Address, Banks
<1>4. HostInv
  <2>1. written \in [Address -> Data] /\ running \in BOOLEAN
    BY <1>1
  <2>2. pos \in 0 .. Words /\ since \in 1 .. Space /\ sent \in 0 .. MaxPackets
        /\ ~(pos < Words) /\ since = Space /\ since >= Words + 1
    BY <1>1
  <2> QED
    BY <1>2, <2>1, <2>2 DEF HostInv
<1>5. ConfInv
  BY <1>1, <1>2, <1>3 DEF ConfInv, ConfRec, ConfStates, Is
<1>6. RamInv
  BY <1>1, <1>2 DEF RamInv, Is
<1>7. ReadInv
  BY <1>1, <1>2, <1>3 DEF ReadInv, TempRec, Is
<1>8. SoftInv
  BY <1>1 DEF SoftInv
<1>9. SendType
  BY <1>1 DEF SendType, SendStates
<1>10. ~SelAsked /\ ~Due
  BY <1>1 DEF SelAsked, Due
<1>11. SendInv
  BY <1>1, <1>2, <1>10 DEF SendInv, Is
<1>12. AskedInv
  <2>1. promised \in Seq(AnswerRec)
    BY <1>1
  <2> QED
    BY <1>2, <2>1 DEF AskedInv, Is
<1>13. DueInv
  BY <1>1, <1>10 DEF DueInv
<1> QED
  BY <1>4, <1>5, <1>6, <1>7, <1>8, <1>9, <1>11, <1>12, <1>13 DEF BaseInv

LEMMA LeavesInit == Init /\ MaxSoft = 0 => LeavesInv
<1> SUFFICES ASSUME Init, MaxSoft = 0 PROVE LeavesInv
  OBVIOUS
<1>1. /\ packet = NoPacket /\ since = Space /\ promised = << >> /\ conf.tag = FALSE /\ buffer = << >>
      /\ send = [state |-> "IDLE", valid |-> FALSE, word |-> NoWord, rdreq |-> FALSE, tag |-> FALSE]
      /\ soft = 0 /\ softs = 0
      /\ mux = [valid |-> FALSE, word |-> NoWord, mem |-> FALSE]
      /\ output = << >>
  BY DEF Init
<1>2. NoWord \in WordRec
  BY DEF NoWord, Word, WordRec, Values
<1>3. OutType
  BY <1>1, <1>2 DEF OutType, MuxRec
<1>4. MarkInv
  BY <1>1 DEF MarkInv
<1>5. PlaceInv
  BY <1>1 DEF PlaceInv
<1>6. Heads(output, Len(output)) = 0
  <2>1. {k \in 1 .. Len(output) : IsHead(output[k])} = {}
    BY <1>1
  <2> QED
    BY <2>1, FS_EmptySet DEF Heads
<1>7. ~Due
  BY <1>1 DEF Due, SelAsked
<1>8. Turn = 0
  BY <1>1 DEF Turn, Coming, Is, NoPacket
<1>9. AnswerInv
  BY <1>1, <1>6, <1>7, <1>8 DEF AnswerInv, Begun
<1>10. AnswersMatch
  BY <1>1 DEF AnswersMatch
<1> QED
  BY <1>3, <1>4, <1>5, <1>9, <1>10 DEF LeavesInv

LEMMA BaseNext ==
  ASSUME BaseInv, NEW p \in Packets, NEW start \in BOOLEAN, NEW store \in Stores,
         Clock(p, start, store)
  PROVE  BaseInv'
<1>1. /\ HostInv /\ ConfInv /\ RamInv /\ ReadInv /\ SoftInv
      /\ SendType /\ SendInv /\ AskedInv /\ DueInv
  BY DEF BaseInv
<1>2. Host(p) /\ Configure /\ Ram(store) /\ ReadPipe /\ SendAnswer /\ Soft(start)
  BY DEF Clock
<1>3. HostInv' /\ ConfInv' /\ RamInv' /\ ReadInv'
  BY <1>1, <1>2, HostInvNext, ConfInvNext, RamInvNext, ReadInvNext
<1>4. SoftInv'
  BY <1>1, <1>2, SoftInvNext
<1>5. SendType' /\ SendInv'
  BY <1>1, <1>2, SendTypeNext, SendInvNext
<1>6. AskedInv'
  BY <1>1, <1>2, AskedInvNext
<1>7. DueInv'
  BY <1>1, <1>2, DueInvNext
<1> QED
  BY <1>3, <1>4, <1>5, <1>6, <1>7 DEF BaseInv

LEMMA LeavesNext ==
  ASSUME MaxSoft = 0, BaseInv, LeavesInv, NEW p \in Packets, NEW start \in BOOLEAN,
         NEW store \in Stores, Clock(p, start, store)
  PROVE  LeavesInv'
<1>1. /\ HostInv /\ ConfInv /\ RamInv /\ ReadInv /\ SoftInv
      /\ SendType /\ SendInv /\ AskedInv /\ DueInv
      /\ OutType /\ MarkInv /\ PlaceInv /\ AnswerInv /\ AnswersMatch
  BY DEF BaseInv, LeavesInv
<1>2. Host(p) /\ Configure /\ Ram(store) /\ ReadPipe /\ SendAnswer /\ Soft(start) /\ Multiplex
  BY DEF Clock
<1>3. OutType' /\ MarkInv' /\ PlaceInv'
  BY <1>1, <1>2, OutStep, MarkInvNext, PlaceInvNext
<1>4. AnswerInv' /\ AnswersMatch'
  BY <1>1, <1>2, AnswerInvNext, AnswersMatchNext
<1> QED
  BY <1>3, <1>4 DEF LeavesInv

(* The inductive invariant of the configuration path.                       *)
THEOREM Invariant == Spec => []IInv
<1>1. Init => IInv
  BY BaseInit, LeavesInit DEF IInv
<1>2. IInv /\ [Next]_vars => IInv'
  <2> SUFFICES ASSUME IInv, [Next]_vars PROVE IInv'
    OBVIOUS
  <2>1. BaseInv /\ (MaxSoft = 0 => LeavesInv)
    BY DEF IInv
  <2>2. CASE Next
    <3>1. PICK p \in Packets, start \in BOOLEAN, store \in Stores : Clock(p, start, store)
      BY <2>2 DEF Next
    <3> QED
      BY <2>1, <3>1, BaseNext, LeavesNext DEF IInv
  <2>3. CASE UNCHANGED vars
    <3>1. BaseInv'
      BY <2>1, <2>3 DEF BaseInv, HostInv, ConfInv, RamInv, ReadInv, SoftInv, SendType, SendInv,
                        AskedInv, DueInv, Turn, Coming, Due, SelAsked, Is, Comes, OfInstr, Matches, vars, host
    <3>2. LeavesInv => LeavesInv'
      <4>1. OutType /\ MarkInv /\ PlaceInv => OutType' /\ MarkInv' /\ PlaceInv'
        BY <2>3 DEF OutType, MarkInv, PlaceInv, Latest, vars
      <4>2. promised' = promised /\ output' = output /\ send' = send /\ mux' = mux
            /\ Turn' = Turn /\ Due' = Due /\ SelAsked' = SelAsked
        BY <2>3 DEF vars, host, Turn, Coming, Due, SelAsked, Is
      <4>3. AnswerInv => AnswerInv'
        BY <4>2 DEF AnswerInv, Right, Begun, Latest
      <4>4. AnswersMatch => AnswersMatch'
        BY <4>2 DEF AnswersMatch
      <4> QED
        BY <4>1, <4>3, <4>4 DEF LeavesInv
    <3> QED
      BY <2>1, <3>1, <3>2 DEF IInv
  <2> QED
    BY <2>2, <2>3
<1> QED
  BY <1>1, <1>2, PTL DEF Spec

(* TypeOK of the configuration path.                                        *)
THEOREM TypeCorrect == Spec => []TypeOK
<1>1. IInv => TypeOK
  <2> SUFFICES ASSUME IInv PROVE TypeOK
    OBVIOUS
  <2>1. HostInv /\ ConfInv /\ RamInv /\ SendType /\ SendInv /\ SoftInv
    BY DEF IInv, BaseInv
  <2> QED
    BY <2>1, Sizes DEF TypeOK, HostInv, ConfInv, ConfRec, ConfStates, RamInv, DataWords, SendType, SendStates,
                       SendInv, SoftInv
<1> QED
  BY <1>1, Invariant, PTL

(* ConfigurationDone: when the host's last packet is done, the running mode *)
(* and every word the core has not stored over since are what its packets   *)
(* said, for RAMs of any size, any images, any stores of the core while the *)
(* host writes and whatever leaves at the same time.                        *)
THEOREM ConfigurationIsDone == Spec => []ConfigurationDone
<1>1. IInv => ConfigurationDone
  <2> SUFFICES ASSUME IInv, since = Space
               PROVE  CpuRuns = running /\ \A a \in Address \ stored : ram[a] = written[a]
    BY DEF ConfigurationDone
  <2>1. HostInv /\ ConfInv /\ RamInv
    BY DEF IInv, BaseInv
  <2>2. since > Words + 1
    BY Sizes
  <2>3. \A a \in Address \ stored : written[a] = ram[a]
    BY <2>1, <2>2, Settled
  <2>4. running = ~conf.sel
    BY <2>1, <2>2, Sizes DEF ConfInv
  <2> QED
    BY <2>3, <2>4 DEF CpuRuns
<1> QED
  BY <1>1, Invariant, PTL

(* AnswersMatch: while the network interface is silent the answers of       *)
(* conf_mem.v are those the requests call for, in their order, for any      *)
(* number of requests.                                                      *)
THEOREM AnswersAreRight == ASSUME MaxSoft = 0 PROVE Spec => []AnswersMatch
<1>1. IInv => AnswersMatch
  BY DEF IInv, LeavesInv
<1> QED
  BY <1>1, Invariant, PTL

(* PacketsWellFormed: while the network interface is silent what leaves is  *)
(* a sequence of whole packets.                                             *)
THEOREM PacketsAreWellFormed == ASSUME MaxSoft = 0 PROVE Spec => []PacketsWellFormed
<1>1. IInv => PacketsWellFormed
  <2> SUFFICES ASSUME IInv PROVE PacketsWellFormed
    OBVIOUS
  <2>1. PlaceInv /\ output \in Seq(WordRec)
    BY DEF IInv, LeavesInv, OutType
  <2> QED
    BY <2>1 DEF PacketsWellFormed, PlaceInv
<1> QED
  BY <1>1, Invariant, PTL
=============================================================================
