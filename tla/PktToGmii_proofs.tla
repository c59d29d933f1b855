-------------------------- MODULE PktToGmii_proofs --------------------------
(***************************************************************************)
(* Proofs about PktToGmii for any packets, any sizes that Sizes allows and *)
(* any distance between packets that Source allows.                        *)
(***************************************************************************)
EXTENDS PktToGmii, Integers, FiniteSetTheorems, SequenceTheorems, TLAPS

(* The remainders of the powers of x from 33 to 39. *)
P33 == {1, 2, 3, 5, 6, 8, 9, 11, 12, 13, 17, 23, 24, 27}
P34 == {2, 3, 4, 6, 7, 9, 10, 12, 13, 14, 18, 24, 25, 28}
P35 == {3, 4, 5, 7, 8, 10, 11, 13, 14, 15, 19, 25, 26, 29}
P36 == {4, 5, 6, 8, 9, 11, 12, 14, 15, 16, 20, 26, 27, 30}
P37 == {5, 6, 7, 9, 10, 12, 13, 15, 16, 17, 21, 27, 28, 31}
P38 == {0, 1, 2, 4, 5, 6, 12, 13, 14, 17, 18, 23, 26, 28, 29}
P39 == {1, 2, 3, 5, 6, 7, 13, 14, 15, 18, 19, 24, 27, 29, 30}

(* The remainders of Powers, written out. *)
LEMMA PowersAre == Powers = <<Polynomial, P33, P34, P35, P36, P37, P38, P39>>
<1>1. TimesX(Polynomial) = P33
  BY DEF TimesX, Polynomial, P33
<1>2. TimesX(P33) = P34
  BY DEF TimesX, Polynomial, P33, P34
<1>3. TimesX(P34) = P35
  BY DEF TimesX, Polynomial, P34, P35
<1>4. TimesX(P35) = P36
  BY DEF TimesX, Polynomial, P35, P36
<1>5. TimesX(P36) = P37
  BY DEF TimesX, Polynomial, P36, P37
<1>6. TimesX(P37) = P38
  BY DEF TimesX, Polynomial, P37, P38
<1>7. TimesX(P38) = P39
  BY DEF TimesX, Polynomial, P38, P39
<1> QED
  BY <1>1, <1>2, <1>3, <1>4, <1>5, <1>6, <1>7 DEF Powers

(* Bit i takes the bits of a byte in whose powers it is: the equations of   *)
(* next_crc bit by bit.                                                     *)
LEMMA TapsArePowers ==
  ASSUME NEW i \in 0 .. 31
  PROVE  Taps[i + 1] = {j \in 0 .. 7 : i \in Powers[j + 1]}
<1>1. Powers = <<Polynomial, P33, P34, P35, P36, P37, P38, P39>>
  BY PowersAre
<1>2. ASSUME NEW j \in 0 .. 7 PROVE j \in Taps[i + 1] <=> i \in Powers[j + 1]
  <2>0. CASE j = 0
    BY <1>1, <2>0 DEF Taps, Polynomial
  <2>1. CASE j = 1
    BY <1>1, <2>1 DEF Taps, P33
  <2>2. CASE j = 2
    BY <1>1, <2>2 DEF Taps, P34
  <2>3. CASE j = 3
    BY <1>1, <2>3 DEF Taps, P35
  <2>4. CASE j = 4
    BY <1>1, <2>4 DEF Taps, P36
  <2>5. CASE j = 5
    BY <1>1, <2>5 DEF Taps, P37
  <2>6. CASE j = 6
    BY <1>1, <2>6 DEF Taps, P38
  <2>7. CASE j = 7
    BY <1>1, <2>7 DEF Taps, P39
  <2> QED
    BY <2>0, <2>1, <2>2, <2>3, <2>4, <2>5, <2>6, <2>7
<1>3. Taps[i + 1] \subseteq 0 .. 7
  BY DEF Taps
<1> QED
  BY <1>2, <1>3

(* One more number in a set of numbers below eight turns its parity. *)
LEMMA OddStep ==
  ASSUME NEW S \in SUBSET (0 .. 7), NEW k \in 0 .. 7
  PROVE  Odd(S \cap (0 .. k)) <=> (Odd(S \cap (0 .. k - 1)) # (k \in S))
<1> DEFINE R == S \cap (0 .. k - 1)
<1>1. IsFiniteSet(R)
  <2>1. IsFiniteSet(0 .. k - 1)
    BY FS_Interval
  <2> QED
    BY <2>1, FS_Subset
<1>2. k \notin R /\ Cardinality(R) \in Nat
  BY <1>1, FS_CardinalityType
<1>3. CASE k \in S
  <2>1. S \cap (0 .. k) = R \cup {k}
    BY <1>3
  <2>2. Cardinality(S \cap (0 .. k)) = Cardinality(R) + 1
    BY <1>1, <1>2, <2>1, FS_AddElement
  <2> QED
    BY <1>2, <1>3, <2>2 DEF Odd
<1>4. CASE k \notin S
  <2>1. S \cap (0 .. k) = R
    BY <1>4
  <2>2. Odd(S \cap (0 .. k)) <=> Odd(S \cap (0 .. k - 1))
    BY <2>1
  <2> QED
    BY <1>4, <2>2 DEF Odd
<1> QED
  BY <1>3, <1>4

(* The parity of such a set is the sum of its bits. *)
LEMMA Parity ==
  ASSUME NEW S \in SUBSET (0 .. 7)
  PROVE  Odd(S) <=> (((((((0 \in S) # (1 \in S)) # (2 \in S)) # (3 \in S))
                       # (4 \in S)) # (5 \in S)) # (6 \in S)) # (7 \in S)
<1>1. ~Odd(S \cap (0 .. -1))
  <2>1. S \cap (0 .. -1) = {}
    OBVIOUS
  <2> QED
    BY <2>1, FS_EmptySet DEF Odd
<1>2. Odd(S \cap (0 .. 0)) <=> (Odd(S \cap (0 .. -1)) # (0 \in S))
  <2>1. 0 - 1 = -1
    OBVIOUS
  <2> QED
    BY <2>1, OddStep, 0 \in 0 .. 7
<1>3. Odd(S \cap (0 .. 1)) <=> (Odd(S \cap (0 .. 0)) # (1 \in S))
  <2>1. 1 - 1 = 0
    OBVIOUS
  <2> QED
    BY <2>1, OddStep, 1 \in 0 .. 7
<1>4. Odd(S \cap (0 .. 2)) <=> (Odd(S \cap (0 .. 1)) # (2 \in S))
  <2>1. 2 - 1 = 1
    OBVIOUS
  <2> QED
    BY <2>1, OddStep, 2 \in 0 .. 7
<1>5. Odd(S \cap (0 .. 3)) <=> (Odd(S \cap (0 .. 2)) # (3 \in S))
  <2>1. 3 - 1 = 2
    OBVIOUS
  <2> QED
    BY <2>1, OddStep, 3 \in 0 .. 7
<1>6. Odd(S \cap (0 .. 4)) <=> (Odd(S \cap (0 .. 3)) # (4 \in S))
  <2>1. 4 - 1 = 3
    OBVIOUS
  <2> QED
    BY <2>1, OddStep, 4 \in 0 .. 7
<1>7. Odd(S \cap (0 .. 5)) <=> (Odd(S \cap (0 .. 4)) # (5 \in S))
  <2>1. 5 - 1 = 4
    OBVIOUS
  <2> QED
    BY <2>1, OddStep, 5 \in 0 .. 7
<1>8. Odd(S \cap (0 .. 6)) <=> (Odd(S \cap (0 .. 5)) # (6 \in S))
  <2>1. 6 - 1 = 5
    OBVIOUS
  <2> QED
    BY <2>1, OddStep, 6 \in 0 .. 7
<1>9. Odd(S \cap (0 .. 7)) <=> (Odd(S \cap (0 .. 6)) # (7 \in S))
  <2>1. 7 - 1 = 6
    OBVIOUS
  <2> QED
    BY <2>1, OddStep, 7 \in 0 .. 7
<1>10. S \cap (0 .. 7) = S
  OBVIOUS
<1> QED
  BY <1>1, <1>2, <1>3, <1>4, <1>5, <1>6, <1>7, <1>8, <1>9, <1>10 DEF Odd

(* The equations of gmii_crc_calc.v are the division of IEEE 802.3, for     *)
(* every register and byte.                                                 *)
THEOREM CrcIsTheDivision ==
  ASSUME NEW next, NEW byte \in Byte
  PROVE  NextCrc(next, byte) = Divided(next, byte)
<1> DEFINE dataIn == {7 - b : b \in byte}
           high   == {j \in 0 .. 7 : (24 + j \in next) # (7 - j \in byte)}
           S(i)   == {j \in Taps[i + 1] : (j \in dataIn) # (24 + j \in next)}
           T(i)   == {j \in high : i \in Powers[j + 1]}
<1>1. ASSUME NEW i \in 0 .. 31 PROVE S(i) = T(i)
  BY TapsArePowers DEF Byte
<1> HIDE DEF S, T
<1>2. NextCrc(next, byte) = {i \in 0 .. 31 : Odd(S(i)) # (i - 8 \in next)}
  BY DEF NextCrc, S
<1>3. Divided(next, byte) = {i \in 0 .. 31 : Odd(T(i)) # (i - 8 \in next)}
  BY DEF Divided, T
<1> QED
  BY <1>1, <1>2, <1>3

(* What the bytes of the CRC leave of a register, whatever it was. *)
Left1 == {2, 4, 5, 7, 14, 16, 17, 18, 20, 21, 22, 23, 24, 28, 29, 31}
Left2 == {0, 2, 3, 4, 5, 6, 10, 13, 14, 19, 22, 24, 25, 26, 27, 28, 29, 30, 31}
Left3 == {8, 10, 11, 12, 13, 14, 18, 21, 22, 27, 30}

Inverted(next, k) == {b \in 0 .. 7 : 31 - (8 * k + b) \notin next}

(* The receiver divides the first byte of the CRC.                          *)
LEMMA CrcByte0 ==
  ASSUME NEW next \in SUBSET (0 .. 31)
  PROVE  Divided(next, Inverted(next, 0)) = {i \in 0 .. 31 : (i \in Left1) # (i - 8 \in next)}
<1> DEFINE reg == next
           high == {j \in 0 .. 7 : (24 + j \in reg) # (7 - j \in Inverted(next, 0))}
           S(i) == {j \in high : i \in Powers[j + 1]}
<1>1. high = {0, 1, 2, 3, 4, 5, 6, 7}
  BY DEF Inverted
<1>2. ASSUME NEW i \in 0 .. 31
      PROVE  Odd(S(i)) <=> ((i \in Left1) # (i - 8 \in {}))
  <2>1. S(i) \in SUBSET (0 .. 7)
    OBVIOUS
  <2> HIDE DEF high
  <2>2. 0 \in S(i) <=> i \in Polynomial
    BY <1>1, PowersAre
  <2>3. 1 \in S(i) <=> i \in P33
    BY <1>1, PowersAre
  <2>4. 2 \in S(i) <=> i \in P34
    BY <1>1, PowersAre
  <2>5. 3 \in S(i) <=> i \in P35
    BY <1>1, PowersAre
  <2>6. 4 \in S(i) <=> i \in P36
    BY <1>1, PowersAre
  <2>7. 5 \in S(i) <=> i \in P37
    BY <1>1, PowersAre
  <2>8. 6 \in S(i) <=> i \in P38
    BY <1>1, PowersAre
  <2>9. 7 \in S(i) <=> i \in P39
    BY <1>1, PowersAre
  <2> HIDE DEF S
  <2> QED
    BY <2>1, <2>2, <2>3, <2>4, <2>5, <2>6, <2>7, <2>8, <2>9, Parity DEF Polynomial, P33, P34, P35, P36, P37, P38, P39, Left1
<1>3. Divided(reg, Inverted(next, 0)) = {i \in 0 .. 31 : Odd(S(i)) # (i - 8 \in reg)}
  BY DEF Divided
<1> HIDE DEF S
<1> QED
  BY <1>2, <1>3 DEF Odd, Left1

(* The receiver divides the second one.                                     *)
LEMMA CrcByte1 ==
  ASSUME NEW next \in SUBSET (0 .. 31)
  PROVE  Divided({i \in 0 .. 31 : (i \in Left1) # (i - 8 \in next)}, Inverted(next, 1)) = {i \in 0 .. 31 : (i \in Left2) # (i - 16 \in next)}
<1> DEFINE reg == {i \in 0 .. 31 : (i \in Left1) # (i - 8 \in next)}
           high == {j \in 0 .. 7 : (24 + j \in reg) # (7 - j \in Inverted(next, 1))}
           S(i) == {j \in high : i \in Powers[j + 1]}
<1>1. high = {1, 2, 3, 6}
  BY DEF Inverted, Left1
<1>2. ASSUME NEW i \in 0 .. 31
      PROVE  Odd(S(i)) <=> ((i \in Left2) # (i - 8 \in Left1))
  <2>1. S(i) \in SUBSET (0 .. 7)
    OBVIOUS
  <2> HIDE DEF high
  <2>2. 0 \notin S(i)
    BY <1>1
  <2>3. 1 \in S(i) <=> i \in P33
    BY <1>1, PowersAre
  <2>4. 2 \in S(i) <=> i \in P34
    BY <1>1, PowersAre
  <2>5. 3 \in S(i) <=> i \in P35
    BY <1>1, PowersAre
  <2>6. 4 \notin S(i)
    BY <1>1
  <2>7. 5 \notin S(i)
    BY <1>1
  <2>8. 6 \in S(i) <=> i \in P38
    BY <1>1, PowersAre
  <2>9. 7 \notin S(i)
    BY <1>1
  <2> HIDE DEF S
  <2> QED
    BY <2>1, <2>2, <2>3, <2>4, <2>5, <2>6, <2>7, <2>8, <2>9, Parity DEF P33, P34, P35, P38, Left1, Left2
<1>3. Divided(reg, Inverted(next, 1)) = {i \in 0 .. 31 : Odd(S(i)) # (i - 8 \in reg)}
  BY DEF Divided
<1> HIDE DEF S
<1> QED
  BY <1>2, <1>3 DEF Odd, Left1, Left2

(* The receiver divides the third one.                                      *)
LEMMA CrcByte2 ==
  ASSUME NEW next \in SUBSET (0 .. 31)
  PROVE  Divided({i \in 0 .. 31 : (i \in Left2) # (i - 16 \in next)}, Inverted(next, 2)) = {i \in 0 .. 31 : (i \in Left3) # (i - 24 \in next)}
<1> DEFINE reg == {i \in 0 .. 31 : (i \in Left2) # (i - 16 \in next)}
           high == {j \in 0 .. 7 : (24 + j \in reg) # (7 - j \in Inverted(next, 2))}
           S(i) == {j \in high : i \in Powers[j + 1]}
<1>1. high = {}
  BY DEF Inverted, Left2
<1>2. ASSUME NEW i \in 0 .. 31
      PROVE  Odd(S(i)) <=> ((i \in Left3) # (i - 8 \in Left2))
  <2>1. S(i) \in SUBSET (0 .. 7)
    OBVIOUS
  <2> HIDE DEF high
  <2>2. 0 \notin S(i)
    BY <1>1
  <2>3. 1 \notin S(i)
    BY <1>1
  <2>4. 2 \notin S(i)
    BY <1>1
  <2>5. 3 \notin S(i)
    BY <1>1
  <2>6. 4 \notin S(i)
    BY <1>1
  <2>7. 5 \notin S(i)
    BY <1>1
  <2>8. 6 \notin S(i)
    BY <1>1
  <2>9. 7 \notin S(i)
    BY <1>1
  <2> HIDE DEF S
  <2> QED
    BY <2>1, <2>2, <2>3, <2>4, <2>5, <2>6, <2>7, <2>8, <2>9, Parity DEF Left2, Left3
<1>3. Divided(reg, Inverted(next, 2)) = {i \in 0 .. 31 : Odd(S(i)) # (i - 8 \in reg)}
  BY DEF Divided
<1> HIDE DEF S
<1> QED
  BY <1>2, <1>3 DEF Odd, Left2, Left3

(* Behind the fourth one the Remainder is left, whatever the frame was.     *)
LEMMA CrcByte3 ==
  ASSUME NEW next \in SUBSET (0 .. 31)
  PROVE  Divided({i \in 0 .. 31 : (i \in Left3) # (i - 24 \in next)}, Inverted(next, 3)) = Remainder
<1> DEFINE reg == {i \in 0 .. 31 : (i \in Left3) # (i - 24 \in next)}
           high == {j \in 0 .. 7 : (24 + j \in reg) # (7 - j \in Inverted(next, 3))}
           S(i) == {j \in high : i \in Powers[j + 1]}
<1>1. high = {0, 1, 2, 4, 5, 7}
  BY DEF Inverted, Left3
<1>2. ASSUME NEW i \in 0 .. 31
      PROVE  Odd(S(i)) <=> ((i \in Remainder) # (i - 8 \in Left3))
  <2>1. S(i) \in SUBSET (0 .. 7)
    OBVIOUS
  <2> HIDE DEF high
  <2>2. 0 \in S(i) <=> i \in Polynomial
    BY <1>1, PowersAre
  <2>3. 1 \in S(i) <=> i \in P33
    BY <1>1, PowersAre
  <2>4. 2 \in S(i) <=> i \in P34
    BY <1>1, PowersAre
  <2>5. 3 \notin S(i)
    BY <1>1
  <2>6. 4 \in S(i) <=> i \in P36
    BY <1>1, PowersAre
  <2>7. 5 \in S(i) <=> i \in P37
    BY <1>1, PowersAre
  <2>8. 6 \notin S(i)
    BY <1>1
  <2>9. 7 \in S(i) <=> i \in P39
    BY <1>1, PowersAre
  <2> HIDE DEF S
  <2> QED
    BY <2>1, <2>2, <2>3, <2>4, <2>5, <2>6, <2>7, <2>8, <2>9, Parity DEF Polynomial, P33, P34, P36, P37, P39, Left3, Remainder
<1>3. Divided(reg, Inverted(next, 3)) = {i \in 0 .. 31 : Odd(S(i)) # (i - 8 \in reg)}
  BY DEF Divided
<1> HIDE DEF S
<1> QED
  BY <1>2, <1>3 DEF Odd, Left3, Remainder

(* The words of the FIFO. *)
WordRec == [mark : {"none", "head", "body", "tail"}, valid : 0 .. W - 1,
            bytes : [0 .. W - 1 -> Byte]]

(* The packet that is divided or was divided last, and what it carries.     *)
Current ==
  Len(wire) + (IF div.state = "PAD_PKT_TAG" /\ div.cntHead <= 2 THEN 1 ELSE 0)
Bytes == sent[Current]

(* Between the first byte of a preamble and the end of a packet.            *)
Busy == div.state \in {"PAD_PKT_TAG", "READ_PKT", "TRANS_PKT"}

(* The bytes of the frame that have been put into gmii_data.                *)
Emitted == IF div.state = "PAD_PKT_TAG" THEN div.cntHead ELSE Len(Last(wire)) + 2

(* The registers are in their ranges. *)
TypeInv ==
  /\ sent \in Seq(Payloads) /\ due \in Nat /\ pos \in Nat
  /\ fifo \in Seq(WordRec) /\ Len(fifo) <= Cap
  /\ div \in [state : {"IDLE", "PAD_PKT_TAG", "READ_PKT", "TRANS_PKT", "WAIT"}, rden : BOOLEAN,
              word : WordRec, cntValid : 0 .. W - 1, cntGmii : 0 .. W - 1, cntHead : 0 .. 7,
              cntWait : 0 .. Wait]
  /\ data \in Byte /\ valid \in BOOLEAN
  /\ crc \in [state : {"IDLE", "RCV", "CRC", "OUT"}, dv : BOOLEAN, cnt : 0 .. 3,
              next : SUBSET (0 .. 31), en : BOOLEAN, data : Byte]
  /\ quiet \in 0 .. Ifg /\ wire \in Seq(Seq(Byte)) /\ remainder \in SUBSET (0 .. 31)

(* The packet that comes is the last one sent, and its clocks are due. *)
SourceInv ==
  IF sent = << >> THEN packet = << >> /\ pos = 0
  ELSE /\ packet = sent[Len(sent)] /\ pos \in 1 .. WordsOf(packet) + 1
       /\ pos = 1 => due >= Service(packet)

(* g[k] is the number of words in the first k packets, f[k] the number of   *)
(* clocks they take.                                                        *)
Sums(f, g) ==
  /\ f \in [0 .. Len(sent) -> Nat] /\ f[0] = 0
  /\ g \in [0 .. Len(sent) -> Nat] /\ g[0] = 0
  /\ \A k \in 1 .. Len(sent) :
       f[k] = f[k - 1] + Service(sent[k]) /\ g[k] = g[k - 1] + WordsOf(sent[k])
  /\ \A j, k \in 0 .. Len(sent) :
       j <= k => g[j] <= g[k] /\ W * g[k] + f[j] <= f[k] + W * g[j]

(* The words of the packet that comes that are still to come. *)
Rest == IF PktValid THEN WordsOf(packet) - pos + 1 ELSE 0

(* The words in the FIFO are those behind the first a.                      *)
WordsInv(g, a) ==
  /\ a \in Nat
  /\ a + Len(fifo) + Rest = g[Len(sent)]
  /\ \A i \in 1 .. Len(fifo), k \in 1 .. Len(sent) :
       g[k - 1] < a + i /\ a + i <= g[k] => fifo[i] = Word(sent[k], a + i - g[k - 1])

(* The registers of state_div say how much of the packet has been divided:  *)
(* the first a words are taken, Emitted bytes of the frame are out.         *)
DivInv(g, a) ==
  /\ Current \in 0 .. Len(sent)
  /\ div.rden <=> div.state = "READ_PKT"
  /\ div.state = "WAIT" => div.cntWait < Wait
  /\ div.state \in {"IDLE", "WAIT"} => a = g[Current]
  /\ Busy => Current >= 1 /\ Emitted <= Pre + Len(Bytes)
  /\ div.state = "WAIT" => Current >= 1
  /\ div.state = "PAD_PKT_TAG" => a = g[Current - 1]
  /\ div.state = "READ_PKT" =>
       /\ g[Current - 1] <= a /\ a < g[Current]
       /\ Emitted = Pre + W * (a - g[Current - 1])
  /\ div.state = "TRANS_PKT" =>
       /\ g[Current - 1] < a /\ a <= g[Current]
       /\ Emitted = Pre + W * (a - 1 - g[Current - 1]) + div.cntGmii + 1
       /\ div.word = Word(Bytes, a - g[Current - 1])
       /\ div.cntValid + div.cntGmii = div.word.valid
       /\ div.word.mark # "tail" => div.cntValid >= 1

(* The clocks until the machine can take the next packet. *)
Left ==
  IF div.state = "IDLE" THEN 0
  ELSE IF div.state = "WAIT" THEN Wait - div.cntWait
  ELSE Pre + Len(Bytes) - Emitted + 1 + Wait

(* The clocks of all packets are spent or due; what waits when a packet     *)
(* comes leaves room for it; and the packet that comes while it is divided  *)
(* is ahead of the reader.                                                  *)
RateInv(f) == f[Len(sent)] + Left <= f[Current] + due + 1
RoomInv(g, a) == PktValid => g[Len(sent) - 1] <= a + Waiting
AheadInv(g, a) ==
  PktValid /\ Current = Len(sent) =>
    /\ div.state = "READ_PKT" => a + 2 <= g[Current - 1] + pos
    /\ div.state = "TRANS_PKT" => a + 1 <= g[Current - 1] + pos

(* Byte k of a frame. *)
FrameByte(bytes, k) == IF k < Pre THEN X55 ELSE IF k = Pre THEN XD5 ELSE bytes[k - Pre]

(* m bytes of the frame are on the wire.                                    *)
Shows(m) ==
  /\ wire # << >> /\ Len(Last(wire)) = m
  /\ \A k \in 1 .. m : k <= Pre + Len(Bytes) => Last(wire)[k] = FrameByte(Bytes, k)

(* ctrl_state at rest. *)
CrcReset == crc.state = "IDLE" /\ ~crc.dv /\ ~crc.en /\ crc.cnt = 0 /\ crc.next = 0 .. 31

(* ctrl_state has taken byte k of the frame, with the same register as the  *)
(* receiver, which is one byte behind.                                      *)
CrcRuns(k) ==
  /\ crc.dv /\ crc.en /\ crc.cnt = 0 /\ crc.data = FrameByte(Bytes, k)
  /\ crc.state = IF k < Pre THEN "RCV" ELSE "CRC"
  /\ crc.next = IF k <= Pre THEN 0 .. 31 ELSE NextCrc(remainder, crc.data)

(* The register of the receiver behind k bytes of the CRC. *)
Behind(k) ==
  LET c == IF k = 0 THEN {} ELSE IF k = 1 THEN Left1 ELSE IF k = 2 THEN Left2 ELSE Left3
  IN  {i \in 0 .. 31 : (i \in c) # (i - 8 * k \in crc.next)}

(* The bytes under way: one in gmii_data, one in the CRC machine, the rest  *)
(* on the wire.                                                             *)
BusyInv ==
  Busy =>
    /\ valid <=> Emitted >= 1
    /\ Emitted >= 1 => data = FrameByte(Bytes, Emitted)
    /\ Emitted <= 1 => CrcReset
    /\ Emitted <= 2 => quiet >= Ifg + Emitted - 2
    /\ Emitted >= 2 => CrcRuns(Emitted - 1)
    /\ Emitted >= 3 => Shows(Emitted - 2) /\ quiet = 0
    /\ Emitted \in 3 .. Pre + 2 => remainder = 0 .. 31

(* During WAIT_S the CRC leaves, then the wire is quiet. *)
WaitInv ==
  div.state = "WAIT" =>
    LET n == Pre + Len(Bytes)
        w == div.cntWait
    IN  /\ ~valid
        /\ w = 0 => CrcRuns(n) /\ Shows(n - 1) /\ quiet = 0
        /\ w \in 1 .. 4 =>
             /\ crc.state = "OUT" /\ ~crc.dv /\ crc.en /\ crc.cnt = w - 1
             /\ crc.data = LastCrc(w - 1) /\ remainder = Behind(w - 1)
             /\ Shows(n + w - 1) /\ quiet = 0
        /\ w >= 5 => CrcReset /\ Shows(n + 4) /\ quiet = w - 5 /\ remainder = Remainder

(* In IDLE_S nothing is under way. *)
IdleInv == div.state = "IDLE" => ~valid /\ CrcReset /\ quiet >= 7

(* What holds of the sums and the words taken. *)
Parts(f, g, a) ==
  /\ Sums(f, g) /\ WordsInv(g, a) /\ DivInv(g, a)
  /\ RateInv(f) /\ RoomInv(g, a) /\ AheadInv(g, a)

(* The inductive invariant. *)
IInv ==
  /\ TypeInv /\ SourceInv /\ BusyInv /\ WaitInv /\ IdleInv
  /\ \E f, g, a : Parts(f, g, a)

(* The words of a packet, and the clocks they take. *)
LEMMA PayloadOk ==
  ASSUME NEW bytes \in Payloads
  PROVE  /\ W \in Nat /\ W >= 2 /\ W <= 23 /\ Len(bytes) \in Nat /\ Len(bytes) > W
         /\ bytes \in Seq(Byte)
         /\ WordsOf(bytes) \in Nat /\ WordsOf(bytes) >= 2
         /\ W * WordsOf(bytes) \in Nat /\ W * WordsOf(bytes) >= Len(bytes)
         /\ W * WordsOf(bytes) < Len(bytes) + W
         /\ Service(bytes) = 22 + Len(bytes)
         /\ WordsOf(bytes) + Waiting <= Cap
<1> DEFINE n == Len(bytes)
           w == (n + W - 1) \div W
<1>1. /\ W \in Nat /\ W >= 2 /\ W <= 23 /\ bytes \in Seq(Byte) /\ n > W
      /\ WordsOf(bytes) + Waiting <= Cap
  BY Sizes DEF Pre, Wait
<1>2. n \in Nat
  BY <1>1
<1>3. WordsOf(bytes) = w /\ Service(bytes) = 22 + n
  BY <1>2 DEF WordsOf, Service, Pre, Wait
<1> HIDE DEF n
<1>4. w \in Nat /\ W * w <= n + W - 1 /\ n + W - 1 < W * w + W
  BY <1>1, <1>2
<1> HIDE DEF w
<1>5. w >= 2
  BY <1>1, <1>2, <1>4
<1>6. W * w >= n /\ W * w < n + W
  BY <1>1, <1>2, <1>4
<1>7. W * w \in Nat
  BY <1>1, <1>4
<1> QED
  BY <1>1, <1>2, <1>3, <1>4, <1>5, <1>6, <1>7 DEF n

(* Products with W, which the arithmetic of the provers needs spelt out. *)
LEMMA TimesW ==
  ASSUME NEW k \in Nat, NEW m \in Nat, k <= m
  PROVE  /\ W * k \in Nat /\ W * (k + 1) = W * k + W /\ W * k <= W * m
         /\ W * (m - k) = W * m - W * k
BY Sizes DEF Pre, Wait

(* Word k of a packet. *)
LEMMA WordOk ==
  ASSUME NEW bytes \in Payloads, NEW k \in 1 .. WordsOf(bytes)
  PROVE  LET w == Word(bytes, k)
         IN /\ w \in WordRec
            /\ w.mark = "tail" <=> k = WordsOf(bytes)
            /\ w.mark # "tail" => w.valid = W - 1 /\ W * k < Len(bytes)
            /\ w.mark = "tail" => W * (k - 1) + w.valid + 1 = Len(bytes)
            /\ W * (k - 1) + w.valid + 1 <= Len(bytes)
            /\ \A i \in 0 .. w.valid : w.bytes[i] = bytes[W * (k - 1) + i + 1]
            /\ k = 1 => w.mark = "head"
<1> DEFINE n == Len(bytes)
           w == Word(bytes, k)
           b == W * (k - 1)
<1>1. /\ W \in Nat /\ W >= 2 /\ n \in Nat /\ n > W /\ WordsOf(bytes) \in Nat
      /\ WordsOf(bytes) >= 2 /\ W * WordsOf(bytes) >= n /\ W * WordsOf(bytes) < n + W
      /\ bytes \in Seq(Byte) /\ k \in Nat /\ k - 1 \in Nat
  BY PayloadOk
<1>2. b \in Nat /\ W * k = b + W /\ (k - 1) * W = b
  BY <1>1
<1>3. k = WordsOf(bytes) => b < n /\ n <= b + W
  BY <1>1, <1>2
<1>4. k < WordsOf(bytes) => b + W < n
  <2>1. SUFFICES ASSUME k < WordsOf(bytes) PROVE b + W < n
    OBVIOUS
  <2>2. k + 1 <= WordsOf(bytes)
    BY <1>1, <2>1
  <2>3. W * (k + 1) = W * k + W /\ W * (k + 1) <= W * WordsOf(bytes)
    BY <1>1, <2>2, TimesW
  <2> QED
    BY <1>1, <1>2, <2>3
<1>5. /\ w.mark = IF k = 1 THEN "head" ELSE IF k = WordsOf(bytes) THEN "tail" ELSE "body"
      /\ w.valid = IF k < WordsOf(bytes) THEN W - 1 ELSE n - b - 1
      /\ w.bytes = [i \in 0 .. W - 1 |-> IF b + i < n THEN bytes[b + i + 1] ELSE {}]
      /\ w = [mark |-> w.mark, valid |-> w.valid, bytes |-> w.bytes]
  BY <1>2 DEF Word
<1> HIDE DEF w, b, n
<1>6. w.valid \in 0 .. W - 1 /\ b + w.valid + 1 <= n
  <2>1. W \in Nat /\ W >= 2 /\ n \in Nat /\ b \in Nat
    BY <1>1, <1>2
  <2>2. CASE k < WordsOf(bytes)
    <3>1. w.valid = W - 1 /\ b + W < n
      BY <1>4, <1>5, <2>2
    <3> QED
      BY <2>1, <3>1
  <2>3. CASE k = WordsOf(bytes)
    <3>1. w.valid = n - b - 1 /\ b < n /\ n <= b + W
      BY <1>1, <1>3, <1>5, <2>3
    <3> QED
      BY <2>1, <3>1
  <2> QED
    BY <1>1, <2>2, <2>3
<1>7. ASSUME NEW i \in 0 .. W - 1
      PROVE  (IF b + i < n THEN bytes[b + i + 1] ELSE {}) \in Byte
  <2>1. b + i < n => b + i + 1 \in 1 .. n
    BY <1>1, <1>2
  <2> QED
    BY <1>1, <2>1 DEF Byte, n
<1>8. w.bytes \in [0 .. W - 1 -> Byte]
  BY <1>5, <1>7
<1>9. w \in WordRec
  BY <1>5, <1>6, <1>8 DEF WordRec
<1>10. \A i \in 0 .. w.valid : w.bytes[i] = bytes[b + i + 1]
  <2>1. SUFFICES ASSUME NEW i \in 0 .. w.valid PROVE w.bytes[i] = bytes[b + i + 1]
    OBVIOUS
  <2>2. i \in 0 .. W - 1 /\ b + i < n
    BY <1>1, <1>2, <1>6
  <2> QED
    BY <1>5, <2>2
<1>11. w.mark = "tail" <=> k = WordsOf(bytes)
  BY <1>1, <1>5
<1>12. /\ w.mark # "tail" => w.valid = W - 1 /\ W * k < n
       /\ w.mark = "tail" => b + w.valid + 1 = n
  <2>1. CASE k < WordsOf(bytes)
    BY <1>1, <1>2, <1>4, <1>5, <1>11, <2>1
  <2>2. CASE k = WordsOf(bytes)
    <3>1. w.valid = n - b - 1
      BY <1>1, <1>5, <2>2
    <3>2. b + w.valid + 1 = n
      BY ONLY <1>1, <1>2, <3>1
    <3> QED
      BY <1>11, <2>2, <3>2
  <2> QED
    BY <1>1, <2>1, <2>2
<1> QED
  BY <1>5, <1>6, <1>9, <1>10, <1>11, <1>12 DEF w, b, n

(* The packet that is divided. *)
LEMMA CurrentOk ==
  ASSUME TypeInv, NEW g, NEW a, DivInv(g, a), Current >= 1
  PROVE  Current \in 1 .. Len(sent) /\ Bytes \in Payloads /\ Len(sent) \in Nat
<1>1. Current \in 0 .. Len(sent)
  BY DEF DivInv
<1>2. sent \in Seq(Payloads)
  BY DEF TypeInv
<1>3. Len(sent) \in Nat
  BY <1>2
<1> HIDE DEF Current
<1>4. Current \in 1 .. Len(sent)
  BY <1>1, <1>3
<1> QED
  BY <1>2, <1>3, <1>4 DEF Bytes

-----------------------------------------------------------------------------
(* The packets and the sums over them after a clock. *)
LEMMA SourceStep ==
  ASSUME TypeInv, SourceInv, NEW start \in BOOLEAN, Source(start)
  PROVE  /\ sent' \in Seq(Payloads) /\ Len(sent) \in Nat /\ due' \in Nat /\ pos' \in Nat
         /\ SourceInv'
         /\ IF start
            THEN /\ packet' \in Payloads /\ sent' = Append(sent, packet') /\ pos' = 1
                 /\ due <= Burst /\ due' = due + Service(packet')
                 /\ PktValid => pos = WordsOf(packet)
            ELSE /\ sent' = sent /\ packet' = packet
                 /\ pos' = IF PktValid THEN pos + 1 ELSE pos
                 /\ due' = IF due > 0 THEN due - 1 ELSE 0
         /\ \A k \in 1 .. Len(sent) : sent'[k] = sent[k]
<1>1. sent \in Seq(Payloads) /\ due \in Nat /\ pos \in Nat /\ Len(sent) \in Nat
  BY DEF TypeInv
<1>2. CASE start
  <2>1. PICK bytes \in Payloads :
          packet' = bytes /\ pos' = 1 /\ sent' = Append(sent, bytes) /\ due' = due + Service(bytes)
    BY <1>2 DEF Source
  <2>2. WordsOf(bytes) \in Nat /\ WordsOf(bytes) >= 2 /\ Service(bytes) \in Nat
    BY PayloadOk
  <2>3. sent' \in Seq(Payloads) /\ sent' # << >> /\ Len(sent') = Len(sent) + 1
        /\ sent'[Len(sent')] = bytes /\ \A k \in 1 .. Len(sent) : sent'[k] = sent[k]
    BY <1>1, <2>1
  <2>4. SourceInv'
    BY <1>1, <2>1, <2>2, <2>3 DEF SourceInv
  <2>5. due <= Burst /\ (PktValid => pos = WordsOf(packet))
    BY <1>2 DEF Source
  <2> QED
    BY <1>1, <1>2, <2>1, <2>2, <2>3, <2>4, <2>5
<1>3. CASE ~start
  <2>1. /\ sent' = sent /\ packet' = packet
        /\ pos' = IF PktValid THEN pos + 1 ELSE pos
        /\ due' = IF due > 0 THEN due - 1 ELSE 0
    BY <1>3 DEF Source
  <2>2. CASE sent = << >>
    <3>1. ~PktValid
      BY <2>2 DEF SourceInv, PktValid
    <3> QED
      BY <1>1, <1>3, <2>1, <2>2, <3>1 DEF SourceInv
  <2>3. CASE sent # << >>
    <3>1. packet = sent[Len(sent)] /\ pos \in 1 .. WordsOf(packet) + 1 /\ Len(sent) \in 1 .. Len(sent)
      BY <1>1, <2>3 DEF SourceInv
    <3>2. packet \in Payloads
      BY <1>1, <3>1
    <3>3. WordsOf(packet) \in Nat /\ WordsOf(packet) >= 2
      BY <3>2, PayloadOk
    <3>4. pos' \in 1 .. WordsOf(packet) + 1 /\ pos' # 1
      BY <2>1, <3>1, <3>3 DEF PktValid
    <3>5. SourceInv'
      BY <2>1, <2>3, <3>1, <3>4 DEF SourceInv
    <3> QED
      BY <1>1, <1>3, <2>1, <3>4, <3>5
  <2> QED
    BY <2>2, <2>3
<1> QED
  BY <1>2, <1>3

(* Sums over the packets that came before hold of the packets that have come since. *)
Extends(h, h2) == \A k \in 0 .. Len(sent) : h2[k] = h[k]

(* The sums go on to a packet that comes. *)
LEMMA SumsStep ==
  ASSUME TypeInv, SourceInv, NEW start \in BOOLEAN, Source(start), NEW f, NEW g, Sums(f, g)
  PROVE  \E f2, g2 : Sums(f2, g2)' /\ Extends(f, f2) /\ Extends(g, g2)
<1>1. /\ sent' \in Seq(Payloads) /\ Len(sent) \in Nat
      /\ IF start THEN packet' \in Payloads /\ sent' = Append(sent, packet') ELSE sent' = sent
      /\ \A k \in 1 .. Len(sent) : sent'[k] = sent[k]
  BY SourceStep
<1>2. CASE ~start
  <2>1. Sums(f, g)'
    BY <1>1, <1>2 DEF Sums, Service, WordsOf
  <2> QED
    BY <2>1 DEF Extends
<1>3. CASE start
  <2> DEFINE n == Len(sent)
             b == packet'
             ff == [k \in 0 .. n + 1 |-> IF k = n + 1 THEN f[n] + Service(b) ELSE f[k]]
             gg == [k \in 0 .. n + 1 |-> IF k = n + 1 THEN g[n] + WordsOf(b) ELSE g[k]]
  <2>1. /\ W \in Nat /\ WordsOf(b) \in Nat /\ Service(b) \in Nat /\ n \in Nat
        /\ W * WordsOf(b) \in Nat /\ W * WordsOf(b) <= Service(b)
    <3>1. PICK c \in Payloads : c = b
      BY <1>1, <1>3
    <3>2. /\ WordsOf(c) \in Nat /\ Service(c) \in Nat /\ W * WordsOf(c) \in Nat
          /\ W * WordsOf(c) <= Service(c) /\ W \in Nat
      BY PayloadOk
    <3> QED
      BY <1>1, <3>1, <3>2
  <2>2. Len(sent') = n + 1 /\ sent'[n + 1] = b
    BY <1>1, <1>3 DEF TypeInv
  <2> HIDE DEF b, n
  <2>3. /\ f \in [0 .. n -> Nat] /\ g \in [0 .. n -> Nat] /\ f[0] = 0 /\ g[0] = 0
        /\ \A k \in 1 .. n :
              f[k] = f[k - 1] + Service(sent[k]) /\ g[k] = g[k - 1] + WordsOf(sent[k])
        /\ \A j, k \in 0 .. n :
              j <= k => g[j] <= g[k] /\ W * g[k] + f[j] <= f[k] + W * g[j]
    BY DEF Sums, n
  <2>4. f[n] \in Nat /\ g[n] \in Nat /\ n \in 0 .. n /\ n + 1 \in 0 .. n + 1
    BY <2>1, <2>3
  <2> PICK f2, g2 : f2 = ff /\ g2 = gg
    OBVIOUS
  <2>5. f2 \in [0 .. n + 1 -> Nat] /\ g2 \in [0 .. n + 1 -> Nat] /\ f2[0] = 0 /\ g2[0] = 0
    <3>1. f[n] + Service(b) \in Nat /\ g[n] + WordsOf(b) \in Nat
      BY <2>1, <2>4
    <3>2. ASSUME NEW k \in 0 .. n + 1, k # n + 1 PROVE f[k] \in Nat /\ g[k] \in Nat
      <4>1. k \in 0 .. n
        BY <2>1, <3>2
      <4> QED
        BY <2>3, <4>1
    <3>3. ff \in [0 .. n + 1 -> Nat] /\ gg \in [0 .. n + 1 -> Nat]
      BY <3>1, <3>2
    <3>4. 0 \in 0 .. n + 1 /\ 0 # n + 1
      BY <2>1
    <3> QED
      BY <2>3, <3>3, <3>4
  <2>6. f2[n + 1] = f[n] + Service(b) /\ g2[n + 1] = g[n] + WordsOf(b)
    BY <2>4
  <2>7. \A k \in 0 .. n : f2[k] = f[k] /\ g2[k] = g[k]
    BY <2>1
  <2> HIDE DEF ff, gg
  <2>8. ASSUME NEW k \in 1 .. n + 1
        PROVE  /\ f2[k] = f2[k - 1] + Service(sent'[k])
               /\ g2[k] = g2[k - 1] + WordsOf(sent'[k])
    <3>1. CASE k = n + 1
      <4>1. k - 1 = n
        BY <2>1, <3>1
      <4> QED
        BY <2>2, <2>4, <2>6, <2>7, <3>1, <4>1
    <3>2. CASE k # n + 1
      <4>1. k \in 1 .. n /\ k \in 0 .. n /\ k - 1 \in 0 .. n
        BY <2>1, <3>2
      <4>2. sent'[k] = sent[k]
        BY <1>1, <4>1 DEF n
      <4> QED
        BY <2>3, <2>7, <4>1, <4>2
    <3> QED
      BY <3>1, <3>2
  <2>9. ASSUME NEW j \in 0 .. n + 1, NEW k \in 0 .. n + 1, j <= k
        PROVE  g2[j] <= g2[k] /\ W * g2[k] + f2[j] <= f2[k] + W * g2[j]
    <3>1. CASE k # n + 1
      <4>1. j \in 0 .. n /\ k \in 0 .. n
        BY <2>1, <2>9, <3>1
      <4> QED
        BY <2>3, <2>7, <2>9, <4>1
    <3>2. CASE j = n + 1
      <4>1. k = n + 1
        BY <2>1, <2>9, <3>2
      <4>2. g2[j] \in Nat /\ f2[j] \in Nat
        BY <2>5
      <4>3. W * g2[j] \in Nat
        BY <2>1, <4>2
      <4> QED
        BY <3>2, <4>1, <4>2, <4>3
    <3>3. CASE k = n + 1 /\ j # n + 1
      <4>1. j \in 0 .. n /\ j <= n
        BY <2>1, <3>3
      <4>2. g[j] <= g[n] /\ W * g[n] + f[j] <= f[n] + W * g[j]
        BY <2>3, <2>4, <4>1
      <4>3. g[j] \in Nat /\ f[j] \in Nat
        BY <2>3, <4>1
      <4>4. W * (g[n] + WordsOf(b)) = W * g[n] + W * WordsOf(b) /\ W * g[n] \in Nat /\ W * g[j] \in Nat
        BY <2>1, <2>4, <4>3
      <4>5. W * g2[k] + f2[j] <= f2[k] + W * g2[j]
        <5> DEFINE x == W * g[n]
                   y == W * g[j]
                   z == W * WordsOf(b)
        <5>1. x \in Nat /\ y \in Nat /\ z \in Nat /\ z <= Service(b) /\ x + f[j] <= f[n] + y
          BY <2>1, <4>2, <4>4
        <5>2. W * g2[k] = x + z /\ W * g2[j] = y /\ f2[j] = f[j] /\ f2[k] = f[n] + Service(b)
          BY <2>6, <2>7, <3>3, <4>1, <4>4
        <5> HIDE DEF x, y, z
        <5> QED
          BY <2>1, <2>4, <4>3, <5>1, <5>2
      <4>6. g2[j] <= g2[k]
        BY <2>1, <2>4, <2>6, <2>7, <3>3, <4>1, <4>2, <4>3
      <4> QED
        BY <4>5, <4>6
    <3> QED
      BY <3>1, <3>2, <3>3
  <2>10. Sums(f2, g2)'
    BY <2>2, <2>5, <2>8, <2>9 DEF Sums
  <2> QED
    BY <2>7, <2>10 DEF Extends, n
<1> QED
  BY <1>2, <1>3

(* When the next frame begins on the wire. *)
LEMMA Begins ==
  ASSUME TypeInv, NEW g, NEW a, DivInv(g, a),
         BusyInv, WaitInv, IdleInv,
         Current >= 1 => g[Current - 1] \in Nat, a \in Nat
  PROVE  /\ crc.en /\ quiet = Ifg <=> div.state = "PAD_PKT_TAG" /\ div.cntHead = 2
         /\ crc.en /\ quiet # Ifg => wire # << >> /\ quiet = 0
         /\ div.state \in {"READ_PKT", "TRANS_PKT"} => Emitted >= Pre /\ wire # << >>
<1>1. /\ W \in Nat /\ W >= 2 /\ div.cntHead \in 0 .. 7 /\ div.cntWait \in 0 .. Wait
      /\ div.cntGmii \in 0 .. W - 1 /\ quiet \in 0 .. Ifg
      /\ div.state \in {"IDLE", "PAD_PKT_TAG", "READ_PKT", "TRANS_PKT", "WAIT"}
  BY Sizes DEF TypeInv, Pre, Wait
<1>2. CASE div.state = "IDLE"
  BY <1>2 DEF IdleInv, CrcReset
<1>3. CASE div.state = "WAIT"
  <2>1. CASE div.cntWait \in 0 .. 4
    BY <1>1, <1>3, <2>1 DEF WaitInv, CrcRuns, Shows, Ifg
  <2>2. CASE div.cntWait \notin 0 .. 4
    BY <1>1, <1>3, <2>2 DEF WaitInv, CrcReset
  <2> QED
    BY <1>3, <2>1, <2>2
<1>4. CASE div.state = "PAD_PKT_TAG"
  <2>1. Emitted = div.cntHead /\ Busy
    BY <1>4 DEF Emitted, Busy
  <2>2. CASE div.cntHead <= 1
    BY <1>1, <1>4, <2>1, <2>2 DEF BusyInv, CrcReset
  <2>3. CASE div.cntHead = 2
    BY <1>1, <1>4, <2>1, <2>3 DEF BusyInv, CrcRuns, Ifg
  <2>4. CASE div.cntHead >= 3
    BY <1>1, <1>4, <2>1, <2>4 DEF BusyInv, CrcRuns, Shows, Ifg
  <2> QED
    BY <1>1, <2>2, <2>3, <2>4
<1>5. CASE div.state \in {"READ_PKT", "TRANS_PKT"}
  <2>1. Current >= 1 /\ Busy
    BY <1>5 DEF DivInv, Busy
  <2>2. PICK b \in Nat : b = g[Current - 1]
    BY <2>1
  <2>3. Emitted \in Nat /\ Emitted >= Pre
    <3>1. CASE div.state = "READ_PKT"
      <4>1. b <= a /\ Emitted = Pre + W * (a - b)
        BY <2>2, <3>1 DEF DivInv
      <4>2. W * (a - b) \in Nat
        BY <1>1, <2>2, <4>1
      <4> QED
        BY <4>1, <4>2 DEF Pre
    <3>2. CASE div.state = "TRANS_PKT"
      <4>1. b < a /\ Emitted = Pre + W * (a - 1 - b) + div.cntGmii + 1
        BY <2>2, <3>2 DEF DivInv
      <4>2. W * (a - 1 - b) \in Nat
        BY <1>1, <2>2, <4>1
      <4> QED
        BY <1>1, <4>1, <4>2 DEF Pre
    <3> QED
      BY <1>5, <3>1, <3>2
  <2>4. quiet = 0 /\ wire # << >>
    BY <2>1, <2>3 DEF BusyInv, Shows, Pre
  <2> QED
    BY <1>5, <2>3, <2>4 DEF Ifg
<1> QED
  BY <1>1, <1>2, <1>3, <1>4, <1>5

(* What a clock does to the frames on the wire. *)
LEMMA WireStep ==
  ASSUME TypeInv, Record, crc.en /\ quiet # Ifg => wire # << >>
  PROVE  /\ wire' \in Seq(Seq(Byte)) /\ Len(wire) \in Nat /\ quiet' \in 0 .. Ifg
         /\ Len(wire') = Len(wire) + (IF crc.en /\ quiet = Ifg THEN 1 ELSE 0)
         /\ ~crc.en => wire' = wire
         /\ crc.en /\ quiet = Ifg =>
              wire' # << >> /\ Len(Last(wire')) = 1 /\ Last(wire')[1] = crc.data
         /\ crc.en /\ quiet # Ifg =>
              /\ wire' # << >> /\ Len(Last(wire)) \in Nat /\ Len(Last(wire')) = Len(Last(wire)) + 1
              /\ Last(wire')[Len(Last(wire)) + 1] = crc.data
              /\ \A k \in 1 .. Len(Last(wire)) : Last(wire')[k] = Last(wire)[k]
<1>1. /\ wire \in Seq(Seq(Byte)) /\ crc.data \in Byte /\ crc.en \in BOOLEAN /\ quiet \in 0 .. Ifg
      /\ Len(wire) \in Nat
  BY DEF TypeInv
<1>2. quiet' = (IF crc.en THEN 0 ELSE IF quiet < Ifg THEN quiet + 1 ELSE quiet)
      /\ wire' = IF ~crc.en THEN wire
                 ELSE IF quiet = Ifg THEN Append(wire, <<crc.data>>)
                 ELSE [wire EXCEPT ![Len(wire)] = Append(@, crc.data)]
  BY DEF Record
<1>3. CASE ~crc.en
  BY <1>1, <1>2, <1>3 DEF Ifg
<1>4. CASE crc.en /\ quiet = Ifg
  <2>1. <<crc.data>> \in Seq(Byte)
    BY <1>1
  <2>2. wire' = Append(wire, <<crc.data>>) /\ quiet' = 0
    BY <1>2, <1>4
  <2>3. wire' \in Seq(Seq(Byte)) /\ Len(wire') = Len(wire) + 1 /\ wire'[Len(wire')] = <<crc.data>>
        /\ wire' # << >>
    BY <1>1, <2>1, <2>2
  <2> QED
    BY <1>1, <1>4, <2>2, <2>3 DEF Last, Ifg
<1>5. CASE crc.en /\ quiet # Ifg
  <2>1. wire # << >> /\ wire' = [wire EXCEPT ![Len(wire)] = Append(@, crc.data)] /\ quiet' = 0
    BY <1>2, <1>5
  <2> DEFINE n == Len(wire)
  <2>2. n \in 1 .. n /\ n \in Nat
    BY <1>1, <2>1
  <2>3. PICK s \in Seq(Byte) : s = wire[n]
    BY <1>1, <2>2
  <2>4. Append(s, crc.data) \in Seq(Byte) /\ Len(s) \in Nat
    BY <1>1, <2>3
  <2>5. wire' = [wire EXCEPT ![n] = Append(s, crc.data)]
    BY <2>1, <2>3
  <2>6. wire' \in Seq(Seq(Byte)) /\ Len(wire') = n /\ wire'[n] = Append(s, crc.data)
    BY <1>1, <2>2, <2>4, <2>5
  <2>7. wire' # << >>
    BY <2>2, <2>6
  <2>8. Last(wire') = Append(s, crc.data) /\ Last(wire) = s
    BY <2>3, <2>6 DEF Last
  <2>9. /\ Len(Append(s, crc.data)) = Len(s) + 1
        /\ Append(s, crc.data)[Len(s) + 1] = crc.data
        /\ \A k \in 1 .. Len(s) : Append(s, crc.data)[k] = s[k]
    BY <1>1, <2>4
  <2>10. /\ Len(Last(wire)) \in Nat /\ Len(Last(wire')) = Len(Last(wire)) + 1
         /\ Last(wire')[Len(Last(wire)) + 1] = crc.data
         /\ \A k \in 1 .. Len(Last(wire)) : Last(wire')[k] = Last(wire)[k]
    BY <2>4, <2>8, <2>9
  <2>11. quiet' \in 0 .. Ifg /\ Len(wire') = Len(wire) + 0
    BY <2>1, <2>2, <2>6 DEF Ifg
  <2> QED
    BY <1>1, <1>5, <2>6, <2>7, <2>10, <2>11
<1> QED
  BY <1>1, <1>3, <1>4, <1>5

(* The next packet begins where the machine leaves IDLE_S. *)
LEMMA CurrentStep ==
  ASSUME TypeInv, TypeInv', Record, Divide,
         crc.en /\ quiet = Ifg <=> div.state = "PAD_PKT_TAG" /\ div.cntHead = 2,
         crc.en /\ quiet # Ifg => wire # << >>
  PROVE  /\ Current' = IF div.state = "IDLE" /\ fifo # << >> THEN Current + 1 ELSE Current
         /\ Current \in Nat
<1>1. /\ Len(wire) \in Nat
      /\ div.state = "PAD_PKT_TAG" /\ div.cntHead = 2 => Len(wire') = Len(wire) + 1
      /\ ~(div.state = "PAD_PKT_TAG" /\ div.cntHead = 2) => Len(wire') = Len(wire)
  <2>1. /\ Len(wire) \in Nat
        /\ Len(wire') = Len(wire) + (IF crc.en /\ quiet = Ifg THEN 1 ELSE 0)
    BY WireStep
  <2>2. CASE crc.en /\ quiet = Ifg
    BY <2>1, <2>2
  <2>3. CASE ~(crc.en /\ quiet = Ifg)
    BY <2>1, <2>3
  <2> QED
    BY <2>2, <2>3
<1>2. div.cntHead \in 0 .. 7 /\ div.cntHead' \in 0 .. 7
      /\ div \in [state : {"IDLE", "PAD_PKT_TAG", "READ_PKT", "TRANS_PKT", "WAIT"}, rden : BOOLEAN,
              word : WordRec, cntValid : 0 .. W - 1, cntGmii : 0 .. W - 1, cntHead : 0 .. 7,
              cntWait : 0 .. Wait]
  BY DEF TypeInv
<1>3. CASE Idle
  BY <1>1, <1>2, <1>3 DEF Idle, Current
<1>4. CASE PadPktTag
  <2>1. /\ div.state = "PAD_PKT_TAG" /\ div'.cntHead = (div.cntHead + 1) % 8
        /\ div'.state = IF div.cntHead = Pre - 1 THEN "READ_PKT" ELSE "PAD_PKT_TAG"
    BY <1>2, <1>4 DEF PadPktTag
  <2>2. div.cntHead # 7 => (div.cntHead + 1) % 8 = div.cntHead + 1
    BY <1>2
  <2> QED
    BY <1>1, <1>2, <2>1, <2>2 DEF Current, Pre
<1>5. CASE ReadPkt
  BY <1>1, <1>2, <1>5 DEF ReadPkt, Current
<1>6. CASE TransPkt
  <2>1. div.state = "TRANS_PKT" /\ div'.state \in {"TRANS_PKT", "READ_PKT", "WAIT"}
    BY <1>2, <1>6 DEF TransPkt
  <2> QED
    BY <1>1, <2>1 DEF Current
<1>7. CASE WaitClocks
  <2>1. div.state = "WAIT" /\ div'.state \in {"WAIT", "IDLE"}
    BY <1>2, <1>7 DEF WaitClocks
  <2> QED
    BY <1>1, <2>1 DEF Current
<1> QED
  BY <1>3, <1>4, <1>5, <1>6, <1>7 DEF Divide

(* The packet that comes. *)
LEMMA ComingOk ==
  ASSUME TypeInv, SourceInv
  PROVE  /\ Len(sent) \in Nat /\ Rest \in Nat
         /\ ~PktValid => Rest = 0
         /\ PktValid =>
              /\ Len(sent) \in 1 .. Len(sent) /\ packet = sent[Len(sent)] /\ packet \in Payloads
              /\ pos \in 1 .. WordsOf(packet) /\ WordsOf(packet) \in Nat
              /\ Rest = WordsOf(packet) - pos + 1
<1>1. sent \in Seq(Payloads) /\ Len(sent) \in Nat /\ pos \in Nat
  BY DEF TypeInv
<1>2. ASSUME PktValid
      PROVE  /\ Len(sent) \in 1 .. Len(sent) /\ packet = sent[Len(sent)] /\ packet \in Payloads
             /\ pos \in 1 .. WordsOf(packet) /\ WordsOf(packet) \in Nat
             /\ Rest = WordsOf(packet) - pos + 1 /\ Rest \in Nat
  <2>1. pos \in 1 .. WordsOf(packet) /\ Rest = WordsOf(packet) - pos + 1
    BY <1>2 DEF PktValid, Rest
  <2>2. sent # << >> /\ packet = sent[Len(sent)]
    BY <2>1 DEF SourceInv
  <2>3. Len(sent) \in 1 .. Len(sent) /\ packet \in Payloads
    BY <1>1, <2>2
  <2>4. WordsOf(packet) \in Nat
    BY <2>3, PayloadOk
  <2> QED
    BY <1>1, <2>1, <2>2, <2>3, <2>4
<1>3. ~PktValid => Rest = 0
  BY DEF Rest
<1> QED
  BY <1>1, <1>2, <1>3

(* The words still to come after a clock. *)
LEMMA RestStep ==
  ASSUME TypeInv, SourceInv, NEW start \in BOOLEAN, Source(start)
  PROVE  /\ Rest' = IF start THEN WordsOf(packet') ELSE IF PktValid THEN Rest - 1 ELSE 0
         /\ start /\ PktValid => Rest = 1
<1>1. /\ Len(sent) \in Nat
      /\ ~PktValid => Rest = 0
      /\ PktValid => /\ pos \in 1 .. WordsOf(packet) /\ WordsOf(packet) \in Nat
                     /\ Rest = WordsOf(packet) - pos + 1
  BY ComingOk
<1>2. IF start
      THEN packet' \in Payloads /\ pos' = 1 /\ (PktValid => pos = WordsOf(packet))
      ELSE packet' = packet /\ pos' = IF PktValid THEN pos + 1 ELSE pos
  BY SourceStep
<1>3. CASE start
  <2>1. WordsOf(packet') \in Nat /\ WordsOf(packet') >= 2
    <3>1. PICK c \in Payloads : c = packet'
      BY <1>2, <1>3
    <3> QED
      BY <3>1, PayloadOk
  <2>2. Rest' = WordsOf(packet')
    BY <1>2, <1>3, <2>1 DEF Rest, PktValid
  <2> QED
    BY <1>1, <1>2, <1>3, <2>2
<1>4. CASE ~start /\ PktValid
  <2>1. pos \in 1 .. WordsOf(packet) /\ WordsOf(packet) \in Nat /\ Rest = WordsOf(packet) - pos + 1
    BY <1>1, <1>4
  <2>2. WordsOf(packet)' = WordsOf(packet) /\ pos' = pos + 1
    BY <1>2, <1>4 DEF WordsOf
  <2>3. PktValid' <=> pos + 1 <= WordsOf(packet)
    BY <2>1, <2>2 DEF PktValid
  <2> QED
    BY <1>4, <2>1, <2>2, <2>3 DEF Rest
<1>5. CASE ~start /\ ~PktValid
  <2>1. WordsOf(packet)' = WordsOf(packet) /\ pos' = pos
    BY <1>2, <1>5 DEF WordsOf
  <2> QED
    BY <1>5, <2>1 DEF Rest, PktValid
<1> QED
  BY <1>3, <1>4, <1>5

(* What the sums say of the packets. *)
LEMMA SumsOk ==
  ASSUME TypeInv, NEW f, NEW g, Sums(f, g)
  PROVE  /\ Len(sent) \in Nat
         /\ \A k \in 0 .. Len(sent) : f[k] \in Nat /\ g[k] \in Nat
         /\ \A j, k \in 0 .. Len(sent) :
              j <= k => g[j] <= g[k] /\ W * g[k] + f[j] <= f[k] + W * g[j]
         /\ \A k \in 1 .. Len(sent) :
              f[k] = f[k - 1] + Service(sent[k]) /\ g[k] = g[k - 1] + WordsOf(sent[k])
<1>1. Len(sent) \in Nat
  BY DEF TypeInv
<1>2. ASSUME NEW k \in 0 .. Len(sent) PROVE f[k] \in Nat /\ g[k] \in Nat
  BY <1>1 DEF Sums
<1> QED
  BY <1>1, <1>2 DEF Sums

(* The FIFO has what is read and room for what is written. *)
LEMMA FifoHolds ==
  ASSUME TypeInv, SourceInv, NEW f, NEW g, NEW a, Sums(f, g), WordsInv(g, a), DivInv(g, a),
         RoomInv(g, a), AheadInv(g, a)
  PROVE  FifoSound
<1> DEFINE n == Len(sent)
<1>1. /\ n \in Nat /\ n \in 0 .. n /\ \A k \in 0 .. n : f[k] \in Nat /\ g[k] \in Nat
      /\ \A j, k \in 0 .. n : j <= k => g[j] <= g[k]
      /\ \A k \in 1 .. n : g[k] = g[k - 1] + WordsOf(sent[k])
      /\ a \in Nat /\ Len(fifo) \in Nat /\ a + Len(fifo) + Rest = g[n] /\ Current \in 0 .. n
  BY SumsOk DEF WordsInv, DivInv, TypeInv
<1>2. ASSUME PktValid
      PROVE  /\ n - 1 \in 0 .. n /\ pos \in 1 .. WordsOf(packet) /\ packet \in Payloads
             /\ a + Len(fifo) = g[n - 1] + pos - 1
  <2>1. /\ n \in 1 .. n /\ packet = sent[n] /\ packet \in Payloads /\ WordsOf(packet) \in Nat
        /\ pos \in 1 .. WordsOf(packet) /\ Rest = WordsOf(packet) - pos + 1
    BY <1>2, ComingOk
  <2>2. g[n] = g[n - 1] + WordsOf(packet) /\ n - 1 \in 0 .. n /\ g[n - 1] \in Nat
    BY <1>1, <2>1
  <2>3. a \in Nat /\ Len(fifo) \in Nat /\ a + Len(fifo) + Rest = g[n]
    BY <1>1
  <2>4. a + Len(fifo) = g[n - 1] + pos - 1
    <3>1. PICK x \in Nat, w \in Nat : x = g[n - 1] /\ w = WordsOf(packet)
      BY <2>1, <2>2
    <3>2. a \in Nat /\ Len(fifo) \in Nat /\ pos \in Nat /\ a + Len(fifo) + (w - pos + 1) = x + w
      BY <2>1, <2>2, <2>3, <3>1
    <3>3. PICK l \in Nat : l = Len(fifo)
      BY <2>3
    <3>4. a + l = x + pos - 1
      BY <3>2, <3>3
    <3> QED
      BY <3>1, <3>3, <3>4
  <2> QED
    BY <2>1, <2>2, <2>4
<1> HIDE DEF n
<1>3. PktValid => Len(fifo) < Cap
  <2>1. SUFFICES ASSUME PktValid PROVE Len(fifo) < Cap
    OBVIOUS
  <2>2. /\ pos \in 1 .. WordsOf(packet) /\ packet \in Payloads /\ n - 1 \in 0 .. n
        /\ a + Len(fifo) = g[n - 1] + pos - 1
    BY <1>2, <2>1
  <2>3. g[n - 1] <= a + Waiting
    BY <2>1 DEF RoomInv, n
  <2>4. WordsOf(packet) + Waiting <= Cap /\ WordsOf(packet) \in Nat
    BY <2>2, PayloadOk
  <2>5. Waiting \in Nat /\ Cap \in Nat
    BY Sizes DEF Waiting, Pre, Wait
  <2>6. g[n - 1] \in Nat
    BY <1>1, <2>2
  <2> QED
    BY <1>1, <2>2, <2>3, <2>4, <2>5, <2>6
<1>4. div.state = "READ_PKT" => fifo # << >>
  <2>1. SUFFICES ASSUME div.state = "READ_PKT" PROVE Len(fifo) > 0
    BY DEF TypeInv
  <2>2. Current >= 1 /\ a < g[Current]
    BY <2>1 DEF DivInv, Busy
  <2>3. Current \in 0 .. n /\ g[Current] \in Nat
    BY <1>1
  <2> HIDE DEF Current
  <2>4. CASE ~PktValid
    <3>1. Rest = 0 /\ g[Current] <= g[n]
      BY <1>1, <2>3, <2>4, ComingOk
    <3> QED
      BY <1>1, <2>2, <2>3, <3>1
  <2>5. CASE PktValid /\ Current # n
    <3>1. n - 1 \in 0 .. n /\ a + Len(fifo) = g[n - 1] + pos - 1 /\ pos >= 1 /\ pos \in Nat
      BY <1>2, <2>5 DEF TypeInv
    <3>2. Current <= n - 1
      BY <1>1, <2>3, <2>5
    <3>3. g[Current] <= g[n - 1] /\ g[n - 1] \in Nat
      BY <1>1, <2>3, <3>1, <3>2
    <3> QED
      BY <1>1, <2>2, <2>3, <3>1, <3>3
  <2>6. CASE PktValid /\ Current = n
    <3>1. n - 1 \in 0 .. n /\ a + Len(fifo) = g[n - 1] + pos - 1 /\ pos >= 1 /\ pos \in Nat
      BY <1>2, <2>6 DEF TypeInv
    <3>2. a + 2 <= g[n - 1] + pos
      BY <2>1, <2>6 DEF AheadInv, n
    <3>3. g[n - 1] \in Nat
      BY <1>1, <3>1
    <3> QED
      BY <1>1, <3>1, <3>2, <3>3
  <2> QED
    BY <2>4, <2>5, <2>6
<1> QED
  BY <1>3, <1>4 DEF FifoSound

(* A word has a number, which is that of one packet. *)
LEMMA WhichPacket ==
  ASSUME TypeInv, NEW f, NEW g, Sums(f, g), NEW j \in 1 .. Len(sent), NEW k \in 1 .. Len(sent),
         NEW x \in Nat, g[j - 1] < x, x <= g[j], g[k - 1] < x, x <= g[k]
  PROVE  j = k
<1>1. /\ Len(sent) \in Nat
      /\ \A i \in 0 .. Len(sent) : g[i] \in Nat
      /\ \A i, l \in 0 .. Len(sent) : i <= l => g[i] <= g[l]
  BY SumsOk
<1>2. /\ j - 1 \in 0 .. Len(sent) /\ k - 1 \in 0 .. Len(sent)
      /\ j \in 0 .. Len(sent) /\ k \in 0 .. Len(sent)
  BY <1>1
<1>3. g[j] \in Nat /\ g[k] \in Nat /\ g[j - 1] \in Nat /\ g[k - 1] \in Nat
  BY <1>1, <1>2
<1>4. ~(j < k)
  <2>1. SUFFICES ASSUME j <= k - 1 PROVE FALSE
    BY <1>2
  <2>2. g[j] <= g[k - 1]
    BY <1>1, <1>2, <2>1
  <2> QED
    BY <1>3, <2>2
<1>5. ~(k < j)
  <2>1. SUFFICES ASSUME k <= j - 1 PROVE FALSE
    BY <1>2
  <2>2. g[k] <= g[j - 1]
    BY <1>1, <1>2, <2>1
  <2> QED
    BY <1>3, <2>2
<1> QED
  BY <1>4, <1>5

(* What a clock does to the FIFO: r words leave it and p enter. *)
LEMMA FifoMoves ==
  ASSUME TypeInv, SourceInv, FifoSound, div.rden <=> div.state = "READ_PKT", Fifo
  PROVE  LET r == IF div.rden THEN 1 ELSE 0
             p == IF PktValid THEN 1 ELSE 0
         IN  /\ fifo' \in Seq(WordRec) /\ Len(fifo) \in Nat
             /\ Len(fifo') + r = Len(fifo) + p /\ r <= Len(fifo)
             /\ \A i \in 1 .. Len(fifo) - r : fifo'[i] = fifo[i + r]
             /\ PktValid => fifo'[Len(fifo')] = Word(packet, pos)
<1> DEFINE r == IF div.rden THEN 1 ELSE 0
           p == IF PktValid THEN 1 ELSE 0
           q == IF div.rden THEN Tail(fifo) ELSE fifo
<1>1. fifo \in Seq(WordRec) /\ div.rden \in BOOLEAN /\ Len(fifo) \in Nat
  BY DEF TypeInv
<1>2. div.rden => fifo # << >>
  BY DEF FifoSound
<1>3. PktValid => Len(fifo) < Cap
  BY DEF FifoSound
<1>4. fifo' = IF PktValid THEN Append(q, Word(packet, pos)) ELSE q
  <2>1. (IF div.rden /\ fifo # << >> THEN Tail(fifo) ELSE fifo) = q
    BY <1>1, <1>2
  <2> QED
    BY <1>3, <2>1 DEF Fifo
<1>5. q \in Seq(WordRec) /\ Len(q) + r = Len(fifo) /\ \A i \in 1 .. Len(q) : q[i] = fifo[i + r]
  <2>1. CASE div.rden
    <3>1. Tail(fifo) \in Seq(WordRec) /\ Len(Tail(fifo)) = Len(fifo) - 1
          /\ \A i \in 1 .. Len(Tail(fifo)) : Tail(fifo)[i] = fifo[i + 1]
      BY <1>1, <1>2, <2>1
    <3> QED
      BY <1>1, <2>1, <3>1
  <2>2. CASE ~div.rden
    BY <1>1, <2>2
  <2> QED
    BY <1>1, <2>1, <2>2
<1>6. PktValid => Word(packet, pos) \in WordRec
  <2>1. SUFFICES ASSUME PktValid PROVE Word(packet, pos) \in WordRec
    OBVIOUS
  <2>2. packet \in Payloads /\ pos \in 1 .. WordsOf(packet)
    BY <2>1, ComingOk
  <2>3. PICK c \in Payloads : c = packet
    BY <2>2
  <2>4. PICK k \in 1 .. WordsOf(c) : k = pos
    BY <2>2, <2>3
  <2> QED
    BY <2>3, <2>4, WordOk
<1> HIDE DEF q
<1>7. CASE PktValid
  <2>1. PICK w \in WordRec : w = Word(packet, pos)
    BY <1>6, <1>7
  <2>2. fifo' = Append(q, w)
    BY <1>4, <1>7, <2>1
  <2>3. /\ fifo' \in Seq(WordRec) /\ Len(fifo') = Len(q) + 1 /\ fifo'[Len(q) + 1] = w
        /\ \A i \in 1 .. Len(q) : fifo'[i] = q[i]
    BY <1>5, <2>2
  <2>4. r \in Nat /\ p = 1 /\ Len(q) \in Nat /\ Len(q) = Len(fifo) - r
    BY <1>1, <1>5, <1>7
  <2>5. Len(fifo') + r = Len(fifo) + p /\ r <= Len(fifo)
    <3>1. PICK l \in Nat, m \in Nat : l = Len(fifo) /\ m = Len(q)
      BY <1>1, <2>4
    <3>2. m + 1 + r = l + p /\ r <= l
      BY <2>4, <3>1
    <3> QED
      BY <2>3, <3>1, <3>2
  <2>6. \A i \in 1 .. Len(fifo) - r : fifo'[i] = fifo[i + r]
    BY <1>5, <2>3, <2>4
  <2> QED
    BY <1>1, <1>7, <2>1, <2>3, <2>5, <2>6
<1>8. CASE ~PktValid
  BY <1>1, <1>2, <1>4, <1>5, <1>8
<1> QED
  BY <1>7, <1>8

(* The words of the FIFO stay the words of the packets, after a clock. *)
LEMMA WordsStep ==
  ASSUME TypeInv, SourceInv, FifoSound, div.rden <=> div.state = "READ_PKT", Fifo,
         NEW start \in BOOLEAN, Source(start),
         NEW f, NEW g, NEW f2, NEW g2, Sums(f, g), Sums(f2, g2)', Extends(g, g2),
         NEW a, WordsInv(g, a), TypeInv', NEW b, b = IF div.rden THEN a + 1 ELSE a
  PROVE  WordsInv(g2, b)'
<1> DEFINE r == IF div.rden THEN 1 ELSE 0
           p == IF PktValid THEN 1 ELSE 0
           n == Len(sent)
<1>1. /\ n \in Nat /\ n \in 0 .. n /\ Len(fifo) \in Nat /\ a \in Nat /\ Rest \in Nat
      /\ a + Len(fifo) + Rest = g[n] /\ b = a + r /\ r \in 0 .. 1 /\ p \in 0 .. 1
      /\ Rest >= p
  <2>1. n \in Nat /\ Rest \in Nat /\ (PktValid => Rest >= 1)
    BY ComingOk
  <2>2. Len(fifo) \in Nat /\ a \in Nat /\ a + Len(fifo) + Rest = g[n] /\ div.rden \in BOOLEAN
    BY DEF WordsInv, TypeInv
  <2>3. b = a + r
    BY <2>2
  <2> QED
    BY <2>1, <2>2, <2>3
<1>2. /\ Len(fifo') + r = Len(fifo) + p /\ r <= Len(fifo) /\ Len(fifo') \in Nat
      /\ \A i \in 1 .. Len(fifo) - r : fifo'[i] = fifo[i + r]
      /\ PktValid => fifo'[Len(fifo')] = Word(packet, pos)
  <2>1. Len(fifo') \in Nat
    BY DEF TypeInv
  <2> QED
    BY <2>1, FifoMoves
<1>3. /\ Rest' = IF start THEN WordsOf(packet') ELSE Rest - p
      /\ start => Rest = p
  <2>1. ~PktValid => Rest = 0
    BY ComingOk
  <2> QED
    BY <2>1, RestStep
<1>4. /\ \A k \in 0 .. n : g2[k] = g[k]
      /\ Len(sent') = IF start THEN n + 1 ELSE n
      /\ start => /\ g2[n + 1] = g2[n] + WordsOf(packet') /\ WordsOf(packet') \in Nat
      /\ \A k \in 1 .. n : sent'[k] = sent[k]
  <2>1. /\ start => packet' \in Payloads /\ sent' = Append(sent, packet')
        /\ ~start => sent' = sent
        /\ \A k \in 1 .. n : sent'[k] = sent[k]
    BY SourceStep
  <2>2. start => Len(sent') = n + 1 /\ sent'[n + 1] = packet'
    <3>1. SUFFICES ASSUME start PROVE Len(sent') = n + 1 /\ sent'[n + 1] = packet'
      OBVIOUS
    <3>2. PICK c \in Payloads : c = packet'
      BY <2>1, <3>1
    <3> QED
      BY <2>1, <3>1, <3>2 DEF TypeInv
  <2>3. start => g2[n + 1] = g2[n] + WordsOf(packet')
    <3>1. \A k \in 1 .. Len(sent') : g2[k] = g2[k - 1] + WordsOf(sent'[k])
      BY DEF Sums
    <3> QED
      BY <1>1, <2>2, <3>1
  <2>4. start => WordsOf(packet') \in Nat
    <3>1. SUFFICES ASSUME start PROVE WordsOf(packet') \in Nat
      OBVIOUS
    <3>2. PICK c \in Payloads : c = packet'
      BY <2>1, <3>1
    <3> QED
      BY <3>2, PayloadOk
  <2> QED
    BY <2>1, <2>2, <2>3, <2>4 DEF Extends
<1> HIDE DEF n, r, p
<1>5. g[n] \in Nat /\ g2[n] = g[n]
  <2>1. \A k \in 0 .. Len(sent) : g[k] \in Nat
    BY SumsOk
  <2> QED
    BY <1>1, <1>4, <2>1 DEF n
<1>6. b \in Nat /\ b + Len(fifo') + (Rest - p) = g[n]
  <2>1. PICK l \in Nat, m \in Nat : l = Len(fifo) /\ m = Len(fifo')
    BY <1>1, <1>2
  <2>2. b \in Nat /\ b = a + r /\ m + r = l + p /\ r \in Nat /\ p \in Nat /\ a \in Nat /\ Rest \in Nat
    BY <1>1, <1>2, <2>1
  <2>3. b + m + (Rest - p) = a + l + Rest
    BY <2>2
  <2> QED
    BY <1>1, <2>1, <2>2, <2>3
<1>7. b + Len(fifo') + Rest' = g2[Len(sent')]
  <2>1. CASE start
    <3>1. Rest - p = 0 /\ Rest' = WordsOf(packet') /\ g2[Len(sent')] = g2[n] + WordsOf(packet')
      BY <1>1, <1>3, <1>4, <2>1
    <3>2. PICK m \in Nat, w \in Nat : m = Len(fifo') /\ w = WordsOf(packet')
      BY <1>2, <1>4, <2>1
    <3>3. b + m + 0 = g[n]
      BY <1>6, <3>1, <3>2
    <3> QED
      BY <1>5, <1>6, <3>1, <3>2, <3>3
  <2>2. CASE ~start
    BY <1>3, <1>4, <1>5, <1>6, <2>2
  <2> QED
    BY <2>1, <2>2
<1>8. ASSUME NEW i \in 1 .. Len(fifo'), NEW k \in 1 .. Len(sent'),
             g2[k - 1] < b + i, b + i <= g2[k]
      PROVE  fifo'[i] = Word(sent'[k], b + i - g2[k - 1])
  <2>1. b + i <= g[n]
    <3>1. PICK m \in Nat : m = Len(fifo')
      BY <1>2
    <3>2. i \in Nat /\ i <= m /\ b + m + (Rest - p) = g[n] /\ Rest - p >= 0
      BY <1>1, <1>6, <3>1
    <3> QED
      BY <1>1, <1>5, <1>6, <3>2
  <2>2. k \in 1 .. n
    <3>1. CASE k = n + 1
      <4>1. k - 1 = n
        BY <1>1, <3>1
      <4>2. g[n] < b + i
        BY <1>5, <1>8, <4>1
      <4> QED
        BY <1>5, <1>6, <2>1, <4>2
    <3> QED
      BY <1>1, <1>4, <3>1
  <2>3. k \in 0 .. n /\ k - 1 \in 0 .. n /\ sent'[k] = sent[k]
    BY <1>1, <1>4, <2>2
  <2>4. g2[k] = g[k] /\ g2[k - 1] = g[k - 1] /\ g[k] \in Nat /\ g[k - 1] \in Nat
    <3>1. \A h \in 0 .. Len(sent) : g[h] \in Nat
      BY SumsOk
    <3> QED
      BY <1>4, <2>3, <3>1 DEF n
  <2>5. Word(sent'[k], b + i - g2[k - 1]) = Word(sent[k], b + i - g[k - 1])
    BY <2>3, <2>4
  <2>6. CASE i <= Len(fifo) - r
    <3>1. i \in 1 .. Len(fifo) - r /\ i + r \in 1 .. Len(fifo) /\ b + i = a + (i + r)
      BY <1>1, <2>6
    <3>2. fifo'[i] = fifo[i + r]
      BY <1>2, <3>1
    <3>3. g[k - 1] < a + (i + r) /\ a + (i + r) <= g[k]
      BY <1>8, <2>4, <3>1
    <3>4. fifo[i + r] = Word(sent[k], a + (i + r) - g[k - 1])
      BY <2>2, <3>1, <3>3 DEF WordsInv, n
    <3>5. b + i - g[k - 1] = a + (i + r) - g[k - 1]
      <4>1. PICK y \in Nat, h \in Nat, x \in Nat : y = g[k - 1] /\ h = i + r /\ x = i
        BY <1>1, <2>4, <3>1
      <4>2. b + x = a + h /\ a \in Nat /\ b \in Nat
        BY <1>1, <1>6, <3>1, <4>1
      <4>3. b + (x - y) = a + (h - y)
        BY <4>2
      <4> QED
        BY <4>1, <4>3
    <3> QED
      BY <2>5, <3>2, <3>4, <3>5
  <2>7. CASE i > Len(fifo) - r
    <3>1. i = Len(fifo') /\ p = 1
      BY <1>1, <1>2, <2>7
    <3>2. PktValid
      BY <3>1 DEF p
    <3>3. /\ packet = sent[n] /\ packet \in Payloads /\ n \in 1 .. n
          /\ pos \in 1 .. WordsOf(packet) /\ WordsOf(packet) \in Nat
          /\ Rest = WordsOf(packet) - pos + 1
      BY <3>2, ComingOk DEF n
    <3>4. g[n] = g[n - 1] + WordsOf(packet) /\ g[n - 1] \in Nat
      <4>1. /\ \A h \in 0 .. Len(sent) : g[h] \in Nat
            /\ \A h \in 1 .. Len(sent) : g[h] = g[h - 1] + WordsOf(sent[h])
        BY SumsOk
      <4>2. n - 1 \in 0 .. n
        BY <1>1, <3>3
      <4> QED
        BY <3>3, <4>1, <4>2 DEF n
    <3>5. b + i = g[n - 1] + pos
      <4>1. PICK x \in Nat, w \in Nat : x = g[n - 1] /\ w = WordsOf(packet)
        BY <3>3, <3>4
      <4>2. b + i + (Rest - p) = x + w
        BY <1>6, <3>1, <3>4, <4>1
      <4>3. Rest - p = w - pos /\ pos \in Nat
        BY <3>1, <3>3, <4>1
      <4>4. PICK y \in Nat : y = b + i
        BY <1>6
      <4>5. y + (w - pos) = x + w
        BY <4>2, <4>3, <4>4
      <4>6. y = x + pos
        BY <4>3, <4>5
      <4> QED
        BY <4>1, <4>4, <4>6
    <3>6. g[n - 1] < b + i /\ b + i <= g[n]
      BY <2>1, <3>3, <3>4, <3>5
    <3>7. k = n
      <4>1. PICK x \in Nat : x = b + i
        BY <1>6
      <4>2. g[k - 1] < x /\ x <= g[k] /\ g[n - 1] < x /\ x <= g[n]
        BY <1>8, <2>4, <3>6, <4>1
      <4> QED
        BY <2>2, <3>3, <4>2, WhichPacket DEF n
    <3>8. b + i - g[k - 1] = pos
      <4>1. PICK x \in Nat : x = g[n - 1]
        BY <3>4
      <4>2. b + i = x + pos /\ pos \in Nat
        BY <3>3, <3>5, <4>1
      <4>3. b + i - x = pos
        BY <1>6, <4>2
      <4> QED
        BY <3>7, <4>1, <4>3
    <3> QED
      BY <1>2, <2>5, <3>1, <3>2, <3>3, <3>7, <3>8
  <2> QED
    BY <1>1, <2>6, <2>7
<1> QED
  BY <1>6, <1>7, <1>8 DEF WordsInv

(* What state_div can do in a clock. *)
Rests  == div.state = "IDLE" /\ fifo = << >> /\ div'.state = "IDLE" /\ valid' = valid
Takes  == /\ div.state = "IDLE" /\ fifo # << >>
          /\ div'.state = "PAD_PKT_TAG" /\ div'.cntHead = 0 /\ valid' = valid
Pads   == /\ div.state = "PAD_PKT_TAG" /\ div.cntHead < 7
          /\ div'.state = "PAD_PKT_TAG" /\ div'.cntHead = div.cntHead + 1
          /\ data' = X55 /\ valid'
Padded == /\ div.state = "PAD_PKT_TAG" /\ div.cntHead = 7
          /\ div'.state = "READ_PKT" /\ data' = XD5 /\ valid'
Reads  == /\ div.state = "READ_PKT" /\ div'.state = "TRANS_PKT"
          /\ div'.word = Dout /\ div'.cntValid = Dout.valid /\ div'.cntGmii = 0
          /\ data' = Dout.bytes[0] /\ valid'
Sends  == /\ div.state = "TRANS_PKT" /\ div.cntValid >= 1 /\ div.cntGmii + 1 < W
          /\ data' = div.word.bytes[div.cntGmii + 1] /\ valid'
          /\ IF div.cntValid = 1 /\ div.word.mark # "tail"
             THEN div'.state = "READ_PKT"
             ELSE /\ div'.state = "TRANS_PKT" /\ div'.word = div.word
                  /\ div'.cntValid = div.cntValid - 1 /\ div'.cntGmii = div.cntGmii + 1
Ends   == /\ div.state = "TRANS_PKT" /\ div.cntValid = 0 /\ div.word.mark = "tail"
          /\ div'.state = "WAIT" /\ div'.cntWait = 0 /\ ~valid'
Waits  == /\ div.state = "WAIT" /\ div.cntWait < 11 /\ valid' = valid
          /\ div'.state = "WAIT" /\ div'.cntWait = div.cntWait + 1
Waited == /\ div.state = "WAIT" /\ div.cntWait = 11 /\ valid' = valid
          /\ div'.state = "IDLE"

(* One of these happens, as DivMoves shows. *)
Moves == \/ Rests \/ Takes \/ Pads \/ Padded \/ Reads \/ Sends \/ Ends \/ Waits \/ Waited

(* A remainder is in its range. *)
LEMMA ModRange ==
  ASSUME NEW w \in Nat, w >= 2, NEW x \in Nat
  PROVE  x % w \in 0 .. w - 1 /\ (x < w => x % w = x /\ (x + w) % w = x)
OBVIOUS

(* A clock of state_div is one of its moves and keeps its registers in range. *)
LEMMA DivMoves ==
  ASSUME TypeInv, Divide, FifoSound, NEW g, NEW a, DivInv(g, a)
  PROVE  /\ Moves
         /\ div' \in [state : {"IDLE", "PAD_PKT_TAG", "READ_PKT", "TRANS_PKT", "WAIT"},
                      rden : BOOLEAN, word : WordRec, cntValid : 0 .. W - 1,
                      cntGmii : 0 .. W - 1, cntHead : 0 .. 7, cntWait : 0 .. Wait]
         /\ data' \in Byte /\ valid' \in BOOLEAN
         /\ div'.rden <=> div'.state = "READ_PKT"
<1> DEFINE DivRec == [state : {"IDLE", "PAD_PKT_TAG", "READ_PKT", "TRANS_PKT", "WAIT"},
                      rden : BOOLEAN, word : WordRec, cntValid : 0 .. W - 1,
                      cntGmii : 0 .. W - 1, cntHead : 0 .. 7, cntWait : 0 .. Wait]
<1>1. /\ W \in Nat /\ W >= 2 /\ div \in DivRec /\ fifo \in Seq(WordRec)
      /\ data \in Byte /\ valid \in BOOLEAN /\ X55 \in Byte /\ XD5 \in Byte
      /\ div.rden <=> div.state = "READ_PKT"
  BY Sizes DEF TypeInv, Pre, Wait, X55, XD5, Byte, DivInv
<1>2. (div.cntGmii + 1) % W \in 0 .. W - 1 /\ (div.cntWait + 1) % 16 \in 0 .. 15
      /\ (div.cntHead + 1) % 8 \in 0 .. 7 /\ (div.cntValid + W - 1) % W \in 0 .. W - 1
  <2>1. /\ div.cntGmii \in 0 .. W - 1 /\ div.cntWait \in 0 .. Wait /\ div.cntHead \in 0 .. 7
        /\ div.cntValid \in 0 .. W - 1
    BY <1>1
  <2>2. PICK i \in Nat, j \in Nat, k \in Nat, l \in Nat :
          /\ i = div.cntGmii + 1 /\ j = div.cntWait + 1 /\ k = div.cntHead + 1
          /\ l = div.cntValid + W - 1
    <3>1. div.cntValid + W - 1 \in Nat
      <4>1. PICK v \in Nat : v = div.cntValid
        BY <1>1, <2>1
      <4> QED
        BY <1>1, <4>1
    <3>2. div.cntGmii + 1 \in Nat /\ div.cntWait + 1 \in Nat /\ div.cntHead + 1 \in Nat
      BY <1>1, <2>1 DEF Wait
    <3> QED
      BY <3>1, <3>2
  <2>3. i % W \in 0 .. W - 1 /\ l % W \in 0 .. W - 1
    BY <1>1, ModRange
  <2>4. j % 16 \in 0 .. 15 /\ k % 8 \in 0 .. 7
    OBVIOUS
  <2> QED
    BY <2>2, <2>3, <2>4
<1>3. CASE Idle
  <2>1. div.state = "IDLE" /\ div.rden = FALSE
    BY <1>1, <1>3 DEF Idle
  <2>2. div'.state = (IF fifo # << >> THEN "PAD_PKT_TAG" ELSE "IDLE") /\ div'.rden = FALSE
        /\ (fifo # << >> => div'.cntHead = 0) /\ UNCHANGED <<data, valid>>
    BY <1>1, <1>3 DEF Idle
  <2>3. div' \in DivRec
    <3>1. PICK h \in 0 .. 7, s \in {"IDLE", "PAD_PKT_TAG"}, i \in 0 .. W - 1 :
            div' = [div EXCEPT !.cntGmii = i, !.rden = FALSE, !.cntHead = h, !.state = s]
      <4>1. div.cntHead \in 0 .. 7 /\ 0 \in 0 .. 7
        BY <1>1
      <4> QED
        BY <1>2, <1>3, <4>1 DEF Idle
    <3> QED
      BY <1>1, <3>1
  <2> QED
    BY <1>1, <2>1, <2>2, <2>3 DEF Moves, Rests, Takes
<1>4. CASE PadPktTag
  <2> DEFINE last == div.cntHead = Pre - 1
  <2>1. /\ div.state = "PAD_PKT_TAG" /\ div.rden = FALSE /\ div.cntHead \in 0 .. 7
        /\ div' = [div EXCEPT !.cntGmii = (@ + 1) % W, !.cntHead = (@ + 1) % 8,
                      !.rden = IF last THEN TRUE ELSE @,
                      !.state = IF last THEN "READ_PKT" ELSE @]
        /\ data' = (IF last THEN XD5 ELSE X55) /\ valid' = TRUE
    BY <1>1, <1>4 DEF PadPktTag
  <2>2. div' \in DivRec
    BY <1>1, <1>2, <2>1
  <2>3. CASE last
    BY <1>1, <2>1, <2>2, <2>3 DEF Moves, Padded, Pre
  <2>4. CASE ~last
    <3>1. (div.cntHead + 1) % 8 = div.cntHead + 1 /\ div.cntHead < 7
      BY <2>1, <2>4 DEF Pre
    <3>2. div'.state = "PAD_PKT_TAG" /\ div'.rden = FALSE /\ div'.cntHead = div.cntHead + 1
      BY <1>1, <2>1, <2>4, <3>1
    <3> QED
      BY <1>1, <2>1, <2>2, <2>4, <3>1, <3>2 DEF Moves, Pads
  <2> QED
    BY <2>3, <2>4
<1>5. CASE ReadPkt
  <2>1. Dout \in WordRec
    <3>1. fifo # << >>
      BY <1>5 DEF ReadPkt, FifoSound
    <3> QED
      BY <1>1, <3>1 DEF Dout
  <2>2. Dout.valid \in 0 .. W - 1 /\ Dout.bytes[0] \in Byte
    BY <1>1, <2>1 DEF WordRec
  <2>3. div' \in DivRec
    <3>1. PICK d \in WordRec, v \in 0 .. W - 1 :
            div' = [div EXCEPT !.rden = FALSE, !.word = d, !.cntValid = v, !.cntGmii = 0,
                               !.state = "TRANS_PKT"]
      BY <2>1, <2>2, <1>5 DEF ReadPkt
    <3>2. 0 \in 0 .. W - 1
      BY <1>1
    <3> QED
      BY <1>1, <3>1, <3>2
  <2>4. Reads /\ div'.rden = FALSE
    BY <1>1, <1>5 DEF ReadPkt, Reads
  <2>5. data' \in Byte /\ valid' \in BOOLEAN
    BY <1>5, <2>2 DEF ReadPkt
  <2> QED
    BY <2>3, <2>4, <2>5 DEF Moves, Reads
<1>6. CASE TransPkt
  <2> DEFINE done == div.cntValid = 0 /\ div.word.mark = "tail"
             more == div.cntValid = 1 /\ div.word.mark # "tail"
  <2>1. /\ div.state = "TRANS_PKT" /\ div.rden = FALSE
        /\ div' = [div EXCEPT !.cntGmii = (@ + 1) % W, !.cntValid = (@ + W - 1) % W,
                      !.rden = IF more THEN TRUE ELSE @,
                      !.cntWait = IF done THEN 0 ELSE @,
                      !.state = IF done THEN "WAIT" ELSE IF more THEN "READ_PKT" ELSE @]
        /\ valid' = ~done
        /\ data' = div.word.bytes[(div.cntGmii + 1) % W]
    BY <1>1, <1>6 DEF TransPkt
  <2>2. /\ div.word \in WordRec /\ div.cntValid \in 0 .. W - 1 /\ div.cntGmii \in 0 .. W - 1
        /\ div.cntValid + div.cntGmii = div.word.valid /\ div.word.valid \in 0 .. W - 1
        /\ div.word.mark # "tail" => div.cntValid >= 1
    BY <1>1, <2>1 DEF DivInv, WordRec
  <2>3. div' \in DivRec
    BY <1>1, <1>2, <2>1, 0 \in 0 .. Wait DEF Wait
  <2>4. data' \in Byte /\ valid' \in BOOLEAN
    BY <1>2, <2>1, <2>2 DEF WordRec
  <2>5. CASE done
    <3>1. div'.state = "WAIT" /\ div'.cntWait = 0 /\ div'.rden = FALSE /\ ~valid'
      BY <1>1, <2>1, <2>5
    <3> QED
      BY <2>1, <2>3, <2>4, <2>5, <3>1 DEF Moves, Ends
  <2>6. CASE ~done
    <3>1. div.cntValid >= 1 /\ div.cntGmii + 1 < W
      BY <1>1, <2>2, <2>6
    <3>2. (div.cntGmii + 1) % W = div.cntGmii + 1
      <4>1. PICK v \in Nat : v = div.cntGmii + 1
        BY <1>1, <2>2
      <4> QED
        BY <1>1, <3>1, <4>1, ModRange
    <3>3. (div.cntValid + W - 1) % W = div.cntValid - 1
      <4>1. PICK u \in Nat, v \in Nat : u = div.cntValid /\ v = u - 1
        BY <1>1, <2>2, <3>1
      <4>2. v < W /\ u + W - 1 = v + W
        <5>1. u <= W - 1
          BY <1>1, <2>2, <4>1
        <5> QED
          BY <1>1, <4>1, <5>1
      <4>3. (v + W) % W = v
        BY <1>1, <4>2, ModRange
      <4> QED
        BY <4>1, <4>2, <4>3
    <3>4. data' = div.word.bytes[div.cntGmii + 1] /\ valid'
      BY <2>1, <2>6, <3>2
    <3>5. CASE more
      <4>1. div'.state = "READ_PKT" /\ div'.rden = TRUE
        BY <1>1, <2>1, <2>6, <3>5
      <4> QED
        BY <2>1, <2>3, <2>4, <3>1, <3>4, <3>5, <4>1 DEF Moves, Sends
    <3>6. CASE ~more
      <4>1. /\ div'.state = "TRANS_PKT" /\ div'.rden = FALSE /\ div'.word = div.word
            /\ div'.cntValid = div.cntValid - 1 /\ div'.cntGmii = div.cntGmii + 1
        BY <1>1, <2>1, <2>6, <3>2, <3>3, <3>6
      <4> QED
        BY <2>1, <2>3, <2>4, <3>1, <3>4, <3>6, <4>1 DEF Moves, Sends
    <3> QED
      BY <3>5, <3>6
  <2> QED
    BY <2>5, <2>6
<1>7. CASE WaitClocks
  <2>1. /\ div.state = "WAIT" /\ div.rden = FALSE /\ UNCHANGED <<data, valid>>
        /\ div' = [div EXCEPT !.cntGmii = (@ + 1) % W, !.cntWait = (@ + 1) % 16,
                    !.state = IF div.cntWait = Wait - 1 THEN "IDLE" ELSE @]
    BY <1>1, <1>7 DEF WaitClocks
  <2>2. div.cntWait \in 0 .. 11
    BY <1>1, <2>1 DEF DivInv, Wait
  <2>3. (div.cntWait + 1) % 16 = div.cntWait + 1
    BY <2>2
  <2>4. div' \in DivRec
    <3>1. PICK i \in 0 .. W - 1, w \in 0 .. Wait, s \in {"WAIT", "IDLE"} :
            div' = [div EXCEPT !.cntGmii = i, !.cntWait = w, !.state = s]
      <4>1. div.cntWait + 1 \in 0 .. Wait
        BY <2>2 DEF Wait
      <4> QED
        BY <1>2, <2>1, <2>3, <4>1
    <3> QED
      BY <1>1, <3>1
  <2>5. div'.state = (IF div.cntWait = 11 THEN "IDLE" ELSE "WAIT") /\ div'.rden = FALSE
        /\ div'.cntWait = div.cntWait + 1
    BY <1>1, <2>1, <2>3 DEF Wait
  <2>6. Waits \/ Waited
    BY <2>1, <2>2, <2>5 DEF Waits, Waited
  <2> QED
    BY <1>1, <2>1, <2>4, <2>5, <2>6 DEF Moves
<1> QED
  BY <1>3, <1>4, <1>5, <1>6, <1>7 DEF Divide

(* A clock puts one byte more into gmii_data. *)
LEMMA EmittedStep ==
  ASSUME TypeInv, TypeInv', Record, Moves, BusyInv,
         crc.en /\ quiet # Ifg => wire # << >>,
         div.state \in {"READ_PKT", "TRANS_PKT"} => Emitted >= Pre /\ Emitted \in Nat
  PROVE  /\ Busy => Emitted \in Nat
         /\ Takes => Emitted' = 0
         /\ Busy /\ Busy' => Emitted' = Emitted + 1
         /\ Padded => Emitted = 7
<1>1. Takes => Emitted' = 0
  BY DEF Takes, Emitted
<1>2. Pads => Emitted' = Emitted + 1
  BY DEF Pads, Emitted
<1>3. div.state = "PAD_PKT_TAG" => Emitted = div.cntHead /\ Emitted \in Nat
  <2>1. div.cntHead \in 0 .. 7
    BY DEF TypeInv
  <2> QED
    BY <2>1 DEF Emitted
<1>4. ASSUME Padded PROVE Emitted' = Emitted + 1 /\ Emitted = 7
  <2>1. Emitted = 7 /\ Busy
    BY <1>4 DEF Padded, Emitted, Busy
  <2>2. crc.en /\ quiet = 0 /\ Len(Last(wire)) = 5
    BY <2>1 DEF BusyInv, CrcRuns, Shows
  <2>3. Len(Last(wire')) = Len(Last(wire)) + 1
    BY <2>2, WireStep DEF Ifg
  <2>4. Emitted' = Len(Last(wire')) + 2
    BY <1>4 DEF Padded, Emitted
  <2> QED
    BY <2>1, <2>2, <2>3, <2>4
<1>5. ASSUME Reads \/ Sends PROVE Emitted' = Emitted + 1
  <2>1. /\ div.state \in {"READ_PKT", "TRANS_PKT"} /\ Busy
        /\ Emitted = Len(Last(wire)) + 2 /\ Emitted' = Len(Last(wire')) + 2
    BY <1>5 DEF Reads, Sends, Emitted, Busy
  <2>2. Emitted >= 8 /\ Emitted \in Nat
    BY <2>1 DEF Pre
  <2> HIDE DEF Emitted
  <2>3. crc.en /\ quiet = 0
    BY <2>1, <2>2 DEF BusyInv, CrcRuns
  <2>4. Len(Last(wire)) \in Nat /\ Len(Last(wire')) = Len(Last(wire)) + 1
    BY <2>3, WireStep DEF Ifg
  <2> QED
    BY <2>1, <2>4
<1>6. Busy => Emitted \in Nat
  BY <1>3 DEF Busy
<1>7. Busy /\ Busy' => Pads \/ Padded \/ Reads \/ Sends
  BY DEF Moves, Busy, Rests, Takes, Ends, Waits, Waited
<1> QED
  BY <1>1, <1>2, <1>4, <1>5, <1>6, <1>7

(* The packet that is divided after a clock, and the bytes of it. *)
LEMMA CurrentMoves ==
  ASSUME TypeInv, SourceInv, NEW f, NEW g, NEW f2, NEW g2, NEW a, Sums(f, g), WordsInv(g, a),
         DivInv(g, a), Extends(f, f2), Extends(g, g2), Moves,
         Len(sent') \in Nat, Len(sent) <= Len(sent'),
         \A k \in 1 .. Len(sent) : sent'[k] = sent[k],
         Current' = IF div.state = "IDLE" /\ fifo # << >> THEN Current + 1 ELSE Current
  PROVE  /\ Current \in 0 .. Len(sent) /\ Current' \in 0 .. Len(sent) /\ Len(sent) \in Nat
         /\ Takes => Current' = Current + 1
         /\ ~Takes => Current' = Current
         /\ Current' >= 1 =>
              /\ Current' \in 1 .. Len(sent) /\ Bytes' = sent[Current'] /\ Bytes' \in Payloads
              /\ g2[Current'] = g[Current'] /\ g2[Current' - 1] = g[Current' - 1]
              /\ f2[Current'] = f[Current'] /\ f2[Current' - 1] = f[Current' - 1]
              /\ g[Current'] \in Nat /\ g[Current' - 1] \in Nat
              /\ f[Current'] \in Nat /\ f[Current' - 1] \in Nat
              /\ g[Current'] = g[Current' - 1] + WordsOf(Bytes')
              /\ f[Current'] = f[Current' - 1] + Service(Bytes')
              /\ WordsOf(Bytes') \in Nat /\ Len(Bytes') \in Nat
         /\ ~Takes => Bytes' = Bytes \/ Current = 0
         /\ g2[Current'] = g[Current'] /\ g[Current'] \in Nat /\ g[Current] \in Nat
         /\ f2[Current'] = f[Current'] /\ f[Current'] \in Nat /\ f[Current] \in Nat
<1>1. /\ Len(sent) \in Nat /\ sent \in Seq(Payloads)
      /\ \A k \in 0 .. Len(sent) : f[k] \in Nat /\ g[k] \in Nat
      /\ \A j, k \in 0 .. Len(sent) : j <= k => g[j] <= g[k]
      /\ \A k \in 1 .. Len(sent) :
           f[k] = f[k - 1] + Service(sent[k]) /\ g[k] = g[k - 1] + WordsOf(sent[k])
  BY SumsOk DEF TypeInv
<1>2. Current \in 0 .. Len(sent) /\ Current \in Nat
  BY <1>1 DEF DivInv
<1>3. /\ Takes => Current' = Current + 1 /\ div.state = "IDLE" /\ fifo # << >>
      /\ ~Takes => Current' = Current
  BY DEF Moves, Rests, Takes, Pads, Padded, Reads, Sends, Ends, Waits, Waited
<1>4. ASSUME Takes PROVE Current < Len(sent)
  <2>1. a = g[Current] /\ a + Len(fifo) + Rest = g[Len(sent)] /\ fifo # << >>
    BY <1>3, <1>4 DEF DivInv, WordsInv
  <2>2. Len(fifo) > 0 /\ Len(fifo) \in Nat
    BY <2>1 DEF TypeInv
  <2>3. Rest \in Nat
    BY ComingOk
  <2>4. g[Current] \in Nat /\ g[Len(sent)] \in Nat
    BY <1>1, <1>2
  <2>5. PICK x \in Nat, y \in Nat, l \in Nat, r \in Nat :
          x = g[Current] /\ y = g[Len(sent)] /\ l = Len(fifo) /\ r = Rest
    BY <2>2, <2>3, <2>4
  <2>6. x # y
    BY <2>1, <2>2, <2>5
  <2> HIDE DEF Current
  <2>7. Current # Len(sent)
    BY <2>5, <2>6
  <2> QED
    BY <1>1, <1>2, <2>7
<1> HIDE DEF Current, Takes
<1>5. Current' \in 0 .. Len(sent)
  BY <1>1, <1>2, <1>3, <1>4
<1>6. Bytes' = sent'[Current'] /\ Bytes = sent[Current]
  BY DEF Bytes
<1>7. ASSUME Current' >= 1
      PROVE  /\ Current' \in 1 .. Len(sent) /\ Bytes' = sent[Current'] /\ Bytes' \in Payloads
             /\ Current' - 1 \in 0 .. Len(sent)
             /\ g[Current'] = g[Current' - 1] + WordsOf(Bytes')
             /\ f[Current'] = f[Current' - 1] + Service(Bytes')
             /\ WordsOf(Bytes') \in Nat /\ Len(Bytes') \in Nat
  <2>1. Current' \in 1 .. Len(sent) /\ Current' - 1 \in 0 .. Len(sent)
    BY <1>1, <1>5, <1>7
  <2>2. Bytes' = sent[Current']
    BY <1>6, <2>1
  <2>3. PICK c \in Payloads : c = Bytes'
    BY <1>1, <2>1, <2>2
  <2>4. WordsOf(c) \in Nat /\ Len(c) \in Nat
    BY PayloadOk
  <2>5. /\ g[Current'] = g[Current' - 1] + WordsOf(sent[Current'])
        /\ f[Current'] = f[Current' - 1] + Service(sent[Current'])
    BY <1>1, <2>1
  <2> QED
    BY <2>1, <2>2, <2>3, <2>4, <2>5
<1>8. ~Takes => Bytes' = Bytes \/ Current = 0
  <2>1. SUFFICES ASSUME ~Takes, Current # 0 PROVE Bytes' = Bytes
    OBVIOUS
  <2>2. Current' = Current /\ Current \in 1 .. Len(sent)
    BY <1>1, <1>2, <1>3, <2>1
  <2> QED
    BY <1>6, <2>2
<1>9. \A k \in 0 .. Len(sent) : g2[k] = g[k] /\ f2[k] = f[k]
  BY DEF Extends
<1> QED
  BY <1>1, <1>2, <1>3, <1>5, <1>7, <1>8, <1>9

(* What the counters of state_div say of the packet, after a clock. *)
LEMMA DivStep ==
  ASSUME TypeInv, TypeInv', SourceInv, FifoSound, Record, Moves, BusyInv,
         NEW f, NEW g, NEW f2, NEW g2, NEW a, Sums(f, g), WordsInv(g, a), DivInv(g, a),
         Extends(f, f2), Extends(g, g2),
         Len(sent') \in Nat, Len(sent) <= Len(sent'),
         \A k \in 1 .. Len(sent) : sent'[k] = sent[k],
         Current' = IF div.state = "IDLE" /\ fifo # << >> THEN Current + 1 ELSE Current,
         crc.en /\ quiet # Ifg => wire # << >>,
         div.state \in {"READ_PKT", "TRANS_PKT"} => Emitted >= Pre /\ Emitted \in Nat,
         div'.rden <=> div'.state = "READ_PKT",
         NEW b, b = IF div.rden THEN a + 1 ELSE a
  PROVE  DivInv(g2, b)'
<1> DEFINE c == Current
           d == Current'
           x == g[d - 1]
<1>1. /\ c \in 0 .. Len(sent) /\ d \in 0 .. Len(sent) /\ Len(sent) \in Nat
      /\ Takes => d = c + 1
      /\ ~Takes => d = c
      /\ d >= 1 => /\ d \in 1 .. Len(sent) /\ Bytes' = sent[d] /\ Bytes' \in Payloads
                   /\ g2[d] = g[d] /\ g2[d - 1] = x /\ g[d] \in Nat /\ x \in Nat
                   /\ g[d] = x + WordsOf(Bytes') /\ WordsOf(Bytes') \in Nat /\ Len(Bytes') \in Nat
      /\ ~Takes => Bytes' = Bytes \/ c = 0
      /\ g2[d] = g[d] /\ g[d] \in Nat
  BY CurrentMoves
<1>2. /\ Busy => Emitted \in Nat
      /\ Takes => Emitted' = 0
      /\ Busy /\ Busy' => Emitted' = Emitted + 1
      /\ Padded => Emitted = 7
  BY EmittedStep
<1>3. W \in Nat /\ W >= 2 /\ a \in Nat /\ (div.rden <=> div.state = "READ_PKT")
  BY Sizes DEF WordsInv, DivInv, Pre, Wait
<1>4. b = IF div.state = "READ_PKT" THEN a + 1 ELSE a
  BY <1>3
<1>5. (Busy \/ div.state = "WAIT") => c >= 1 /\ ~Takes
  BY DEF DivInv, Takes, Busy
<1>6. /\ div.state \in {"IDLE", "WAIT"} => a = g[c]
      /\ div.state = "PAD_PKT_TAG" => a = g[c - 1]
      /\ div.state = "READ_PKT" =>
           /\ g[c - 1] <= a /\ a < g[c]
           /\ Emitted = Pre + W * (a - g[c - 1])
      /\ div.state = "TRANS_PKT" =>
           /\ g[c - 1] < a /\ a <= g[c]
           /\ Emitted = Pre + W * (a - 1 - g[c - 1]) + div.cntGmii + 1
           /\ div.word = Word(Bytes, a - g[c - 1])
           /\ div.cntValid + div.cntGmii = div.word.valid
           /\ div.word.mark # "tail" => div.cntValid >= 1
  BY DEF DivInv
<1> HIDE DEF c, d
<1>7. (Busy \/ div.state = "WAIT") =>
        d = c /\ d >= 1 /\ Bytes' = Bytes /\ c >= 1 /\ x = g[c - 1]
  BY <1>1, <1>5
<1> SUFFICES
      /\ div'.state = "WAIT" => div'.cntWait < Wait
      /\ div'.state \in {"IDLE", "WAIT"} => b = g[d]
      /\ Busy' => d >= 1 /\ Emitted' <= Pre + Len(Bytes')
      /\ div'.state = "WAIT" => d >= 1
      /\ div'.state = "PAD_PKT_TAG" => b = x
      /\ div'.state = "READ_PKT" =>
           /\ x <= b /\ b < g[d]
           /\ Emitted' = Pre + W * (b - x)
      /\ div'.state = "TRANS_PKT" =>
           /\ x < b /\ b <= g[d]
           /\ Emitted' = Pre + W * (b - 1 - x) + div'.cntGmii + 1
           /\ div'.word = Word(Bytes', b - x)
           /\ div'.cntValid + div'.cntGmii = div'.word.valid
           /\ div'.word.mark # "tail" => div'.cntValid >= 1
  <2>1. /\ Current' = d /\ Current' \in 0 .. Len(sent')
    BY <1>1 DEF d
  <2>2. Busy' => g2[d - 1] = x
    BY <1>1, <1>5, <1>7 DEF Busy, Moves, Rests, Takes, Pads, Padded, Reads, Sends, Ends, Waits, Waited
  <2> HIDE DEF x
  <2> QED
    BY <1>1, <2>1, <2>2 DEF DivInv, Busy
<1> HIDE DEF x
<1>8. CASE Rests
  <2>1. d = c /\ b = a /\ a = g[c]
    BY <1>1, <1>4, <1>6, <1>8 DEF Rests, Takes
  <2> QED
    BY <1>8, <2>1 DEF Rests, Busy
<1>9. CASE Takes
  <2>1. d = c + 1 /\ b = a /\ a = g[c] /\ Emitted' = 0 /\ c \in Nat
    BY <1>1, <1>2, <1>4, <1>6, <1>9 DEF Takes
  <2>2. x = g[c] /\ d >= 1
    BY <2>1 DEF x
  <2>3. Len(Bytes') \in Nat
    BY <1>1, <2>2
  <2> QED
    BY <1>9, <2>1, <2>2, <2>3 DEF Takes, Busy, Pre
<1>10. CASE Pads
  <2>1. Busy /\ Busy' /\ div.state = "PAD_PKT_TAG" /\ div'.state = "PAD_PKT_TAG"
        /\ Emitted' = div'.cntHead /\ div'.cntHead \in 0 .. 7
    BY <1>10 DEF Pads, Busy, Emitted, TypeInv
  <2>2. b = x /\ d >= 1 /\ Len(Bytes') \in Nat
    BY <1>1, <1>4, <1>6, <1>7, <2>1
  <2> QED
    BY <2>1, <2>2 DEF Pre
<1>11. CASE Padded
  <2>1. Busy /\ Busy' /\ div.state = "PAD_PKT_TAG" /\ div'.state = "READ_PKT"
    BY <1>11 DEF Padded, Busy
  <2>2. Emitted' = 8 /\ b = x /\ d >= 1
    BY <1>2, <1>4, <1>6, <1>7, <1>11, <2>1
  <2>3. Bytes' \in Payloads /\ g[d] = x + WordsOf(Bytes') /\ x \in Nat
    BY <1>1, <2>2
  <2>4. WordsOf(Bytes') >= 2 /\ WordsOf(Bytes') \in Nat /\ Len(Bytes') \in Nat
    <3>1. PICK y \in Payloads : y = Bytes'
      BY <2>3
    <3> QED
      BY <3>1, PayloadOk
  <2>5. W * (b - x) = 0
    BY <1>3, <2>2, <2>3
  <2> QED
    BY <2>1, <2>2, <2>3, <2>4, <2>5 DEF Pre
<1>12. CASE Reads
  <2>1. Busy /\ Busy' /\ div.state = "READ_PKT" /\ div'.state = "TRANS_PKT"
    BY <1>12 DEF Reads, Busy
  <2>2. /\ d = c /\ d >= 1 /\ Bytes' = Bytes /\ x = g[c - 1] /\ b = a + 1
        /\ d \in 1 .. Len(sent) /\ Bytes = sent[d] /\ Bytes \in Payloads /\ x \in Nat
        /\ g[d] = x + WordsOf(Bytes) /\ WordsOf(Bytes) \in Nat /\ Len(Bytes) \in Nat
        /\ g[d - 1] = x
    BY <1>1, <1>4, <1>7, <2>1 DEF x
  <2>3. x <= a /\ a < g[d] /\ Emitted = Pre + W * (a - x) /\ Emitted' = Emitted + 1
    BY <1>2, <1>6, <2>1, <2>2
  <2>20. PICK u \in Nat, h \in Nat : u = WordsOf(Bytes) /\ h = g[d] /\ h = x + u
    BY <1>1, <2>2
  <2>21. a \in Nat /\ b = a + 1 /\ x \in Nat /\ x <= a /\ a < h
    BY <1>3, <2>2, <2>3, <2>20
  <2>22. b - x \in 1 .. u /\ b - 1 - x = a - x /\ x < b /\ b <= h /\ a - x = b - x - 1
         /\ a + 1 - x = b - x
    <3>1. PICK i \in Nat : i = x /\ i <= a /\ a < h /\ h = i + u
      BY <2>20, <2>21
    <3>2. (a + 1) - i \in 1 .. u
      BY <2>21, <3>1
    <3>3. (a + 1) - 1 - i = a - i /\ i < a + 1 /\ a + 1 <= h
      BY <2>21, <3>1
    <3>4. a - i = (a + 1) - i - 1 /\ a + 1 - i = (a + 1) - i
      BY <2>21, <3>1
    <3> QED
      BY <2>21, <3>1, <3>2, <3>3, <3>4
  <2>4. PICK k \in 1 .. WordsOf(Bytes) : k = b - x
    BY <2>20, <2>22
  <2>5. div'.word = Word(Bytes, k)
    <3>1. fifo # << >> /\ Len(fifo) \in Nat /\ Len(fifo) >= 1
      <4>1. fifo # << >> /\ fifo \in Seq(WordRec)
        BY <2>1 DEF FifoSound, TypeInv
      <4> QED
        BY <4>1
    <3>2. Dout = fifo[1] /\ 1 \in 1 .. Len(fifo)
      BY <3>1 DEF Dout, TypeInv
    <3>3. g[d - 1] < a + 1 /\ a + 1 <= g[d]
      BY <2>2, <2>20, <2>21
    <3>4. fifo[1] = Word(sent[d], a + 1 - g[d - 1])
      BY <2>2, <3>2, <3>3 DEF WordsInv
    <3>5. a + 1 - g[d - 1] = k
      BY <2>2, <2>4, <2>22
    <3> QED
      BY <1>12, <2>2, <3>2, <3>4, <3>5 DEF Reads
  <2>6. div'.cntValid = div'.word.valid /\ div'.cntGmii = 0
    BY <1>12 DEF Reads
  <2>7. /\ div'.word \in WordRec
        /\ div'.word.mark # "tail" => div'.word.valid = W - 1
        /\ W * (k - 1) + div'.word.valid + 1 <= Len(Bytes)
    BY <2>2, <2>5, WordOk
  <2>8. div'.word.valid \in 0 .. W - 1
    <3>1. PICK z \in WordRec : z = div'.word
      BY <2>7
    <3> QED
      BY <3>1 DEF WordRec
  <2>9. b - 1 - x = k - 1 /\ a - x = k - 1 /\ k - 1 \in Nat
    <3>1. k \in Nat /\ k >= 1
      BY <2>4, <2>20
    <3> QED
      BY <2>4, <2>22, <3>1
  <2>10. W * (k - 1) \in Nat
    BY <1>3, <2>9
  <2>11. Emitted' = 8 + W * (k - 1) + 1
    BY <2>3, <2>9, <2>10 DEF Pre
  <2>12. Emitted' <= Pre + Len(Bytes')
    <3>1. PICK y \in Nat, v \in Nat, l \in Nat : y = W * (k - 1) /\ v = div'.word.valid /\ l = Len(Bytes)
      BY <2>2, <2>8, <2>10
    <3>2. y + v + 1 <= l /\ Emitted' = 8 + y + 1
      BY <2>7, <2>11, <3>1
    <3>3. Emitted' <= 8 + l
      BY <3>2
    <3> QED
      BY <2>2, <3>1, <3>3 DEF Pre
  <2>13. x < b /\ b <= g[d]
    BY <2>20, <2>22
  <2>14. Emitted' = Pre + W * (b - 1 - x) + div'.cntGmii + 1
    <3>1. PICK y \in Nat : y = W * (k - 1)
      BY <2>10
    <3>2. W * (b - 1 - x) = y /\ Emitted' = 8 + y + 1
      BY <2>9, <2>11, <3>1
    <3> QED
      BY <2>6, <3>2 DEF Pre
  <2>15. /\ div'.cntValid + div'.cntGmii = div'.word.valid
         /\ div'.word.mark # "tail" => div'.cntValid >= 1
    <3>1. PICK v \in Nat : v = div'.word.valid
      BY <2>8
    <3> QED
      BY <1>3, <2>6, <2>7, <3>1
  <2> QED
    BY <2>1, <2>2, <2>4, <2>5, <2>12, <2>13, <2>14, <2>15
<1>13. ASSUME div.state = "TRANS_PKT"
       PROVE  /\ d = c /\ d >= 1 /\ Bytes' = Bytes /\ b = a
              /\ x \in Nat /\ Bytes \in Payloads /\ g[d] = x + WordsOf(Bytes)
              /\ WordsOf(Bytes) \in Nat /\ Len(Bytes) \in Nat
              /\ \E k \in 1 .. WordsOf(Bytes) :
                   /\ k = a - x /\ a = x + k /\ div.word = Word(Bytes, k)
                   /\ W * (k - 1) \in Nat /\ W * k = W * (k - 1) + W
                   /\ Emitted = Pre + W * (k - 1) + div.cntGmii + 1
                   /\ W * (k - 1) + div.word.valid + 1 <= Len(Bytes)
                   /\ div.word.mark = "tail" <=> k = WordsOf(Bytes)
                   /\ div.word.mark # "tail" => div.word.valid = W - 1
              /\ div.cntValid + div.cntGmii = div.word.valid
              /\ div.cntValid \in Nat /\ div.cntGmii \in Nat /\ div.word.valid \in Nat
              /\ Emitted \in Nat
  <2>1. Busy
    BY <1>13 DEF Busy
  <2>2. /\ d = c /\ d >= 1 /\ Bytes' = Bytes /\ x = g[c - 1] /\ b = a
        /\ Bytes \in Payloads /\ x \in Nat
        /\ g[d] = x + WordsOf(Bytes) /\ WordsOf(Bytes) \in Nat /\ Len(Bytes) \in Nat
    BY <1>1, <1>4, <1>7, <1>13, <2>1
  <2>3. /\ x < a /\ a <= g[d]
        /\ Emitted = Pre + W * (a - 1 - x) + div.cntGmii + 1
        /\ div.word = Word(Bytes, a - x)
        /\ div.cntValid + div.cntGmii = div.word.valid
    BY <1>6, <1>13, <2>2
  <2>4. PICK k \in 1 .. WordsOf(Bytes) : k = a - x
    BY <1>3, <2>2, <2>3
  <2>5. a = x + k /\ a - 1 - x = k - 1 /\ k - 1 \in Nat /\ k \in Nat
    <3>1. k \in Nat /\ k >= 1
      BY <2>2, <2>4
    <3>2. PICK i \in Nat : i = x
      BY <2>2
    <3>3. a = i + k /\ k - 1 \in Nat
      BY <1>3, <2>4, <3>1, <3>2
    <3>4. a - 1 - i = k - 1
      BY <1>3, <3>1, <3>2, <3>3
    <3> QED
      BY <3>1, <3>2, <3>3, <3>4
  <2>6. W * (k - 1) \in Nat /\ W * k = W * (k - 1) + W
    BY <1>3, <2>5
  <2>7. div.word = Word(Bytes, k) /\ Emitted = Pre + W * (k - 1) + div.cntGmii + 1
    BY <2>3, <2>4, <2>5
  <2>8. /\ div.word.mark = "tail" <=> k = WordsOf(Bytes)
        /\ div.word.mark # "tail" => div.word.valid = W - 1
        /\ W * (k - 1) + div.word.valid + 1 <= Len(Bytes)
    BY <2>2, <2>7, WordOk
  <2>9. div.cntValid \in Nat /\ div.cntGmii \in Nat /\ div.word.valid \in Nat
    <3>1. div.cntValid \in 0 .. W - 1 /\ div.cntGmii \in 0 .. W - 1 /\ div.word.valid \in 0 .. W - 1
      BY DEF TypeInv, WordRec
    <3> QED
      BY <1>3, <3>1
  <2> QED
    BY <1>2, <2>1, <2>2, <2>3, <2>4, <2>5, <2>6, <2>7, <2>8, <2>9
<1>14. CASE Sends
  <2>1. /\ div.state = "TRANS_PKT" /\ Busy /\ Busy' /\ div.cntValid >= 1
        /\ IF div.cntValid = 1 /\ div.word.mark # "tail"
           THEN div'.state = "READ_PKT"
           ELSE /\ div'.state = "TRANS_PKT" /\ div'.word = div.word
                /\ div'.cntValid = div.cntValid - 1 /\ div'.cntGmii = div.cntGmii + 1
    BY <1>14 DEF Sends, Busy
  <2>2. /\ d = c /\ d >= 1 /\ Bytes' = Bytes /\ b = a
        /\ x \in Nat /\ Bytes \in Payloads /\ g[d] = x + WordsOf(Bytes)
        /\ WordsOf(Bytes) \in Nat /\ Len(Bytes) \in Nat
    BY <1>13, <2>1
  <2>3. PICK k \in 1 .. WordsOf(Bytes) :
          /\ k = a - x /\ a = x + k /\ div.word = Word(Bytes, k)
          /\ W * (k - 1) \in Nat /\ W * k = W * (k - 1) + W
          /\ Emitted = Pre + W * (k - 1) + div.cntGmii + 1
          /\ W * (k - 1) + div.word.valid + 1 <= Len(Bytes)
          /\ div.word.mark = "tail" <=> k = WordsOf(Bytes)
          /\ div.word.mark # "tail" => div.word.valid = W - 1
    BY <1>13, <2>1
  <2>4. PICK y \in Nat, l \in Nat, v \in Nat, i \in Nat, w \in Nat, e \in Nat :
          /\ y = W * (k - 1) /\ l = Len(Bytes) /\ v = div.cntValid /\ i = div.cntGmii
          /\ w = div.word.valid /\ e = Emitted
    BY <1>13, <2>1, <2>2, <2>3
  <2>5. v + i = w /\ e = 8 + y + i + 1 /\ y + w + 1 <= l /\ v >= 1
    BY <1>13, <2>1, <2>3, <2>4 DEF Pre
  <2>6. Emitted' = e + 1
    BY <1>2, <2>1, <2>4
  <2>7. Emitted' <= Pre + Len(Bytes')
    <3>1. e + 1 <= 8 + l
      BY <2>5
    <3> QED
      BY <2>2, <2>4, <2>6, <3>1 DEF Pre
  <2>8. CASE div.cntValid = 1 /\ div.word.mark # "tail"
    <3>1. w = W - 1 /\ v = 1 /\ k # WordsOf(Bytes) /\ div'.state = "READ_PKT"
      BY <2>1, <2>3, <2>4, <2>8
    <3>2. i = W - 2 /\ e + 1 = 8 + (y + W)
      BY <1>3, <2>5, <3>1
    <3>3. Emitted' = Pre + W * k /\ W * (b - x) = W * k
      BY <2>2, <2>3, <2>4, <2>6, <3>2 DEF Pre
    <3>4. x <= b /\ b < g[d]
      <4>1. PICK u \in Nat : u = WordsOf(Bytes)
        BY <2>2
      <4>2. k < u
        <5>1. k \in 1 .. u /\ k # u
          BY <3>1, <4>1
        <5> QED
          BY <4>1, <5>1
      <4>3. b = x + k /\ g[d] = x + u /\ k \in Nat
        BY <2>2, <2>3, <4>1
      <4> QED
        BY <2>2, <4>1, <4>2, <4>3
    <3> QED
      BY <2>2, <2>7, <3>1, <3>3, <3>4
  <2>9. CASE ~(div.cntValid = 1 /\ div.word.mark # "tail")
    <3>1. /\ div'.state = "TRANS_PKT" /\ div'.word = div.word
          /\ div'.cntValid = v - 1 /\ div'.cntGmii = i + 1
      BY <2>1, <2>4, <2>9
    <3>2. x < b /\ b <= g[d] /\ b - x = k /\ b - 1 - x = k - 1
      BY <1>3, <2>2, <2>3
    <3>3. Emitted' = Pre + W * (b - 1 - x) + div'.cntGmii + 1
      <4>1. e + 1 = 8 + y + (i + 1) + 1
        BY <2>5
      <4>2. W * (b - 1 - x) = y
        BY <2>4, <3>2
      <4> QED
        BY <2>6, <3>1, <4>1, <4>2 DEF Pre
    <3>4. div'.cntValid + div'.cntGmii = div'.word.valid
      <4>1. (v - 1) + (i + 1) = w
        BY <2>5
      <4> QED
        BY <2>4, <3>1, <4>1
    <3>5. div'.word.mark # "tail" => div'.cntValid >= 1
      <4>1. div'.word.mark # "tail" => v # 1
        BY <2>4, <2>9, <3>1
      <4>2. v # 1 => v - 1 >= 1
        BY <2>4, <2>5
      <4> QED
        BY <3>1, <4>1, <4>2
    <3>6. div'.word = Word(Bytes', b - x)
      BY <2>2, <2>3, <3>1, <3>2
    <3> QED
      BY <2>2, <2>7, <3>1, <3>2, <3>3, <3>4, <3>5, <3>6
  <2> QED
    BY <2>8, <2>9
<1>15. CASE Ends
  <2>1. /\ div.state = "TRANS_PKT" /\ div.word.mark = "tail"
        /\ div'.state = "WAIT" /\ div'.cntWait = 0
    BY <1>15 DEF Ends
  <2>2. d = c /\ d >= 1 /\ b = a /\ g[d] = x + WordsOf(Bytes)
    BY <1>13, <2>1
  <2>3. a = x + WordsOf(Bytes)
    BY <1>13, <2>1
  <2> QED
    BY <2>1, <2>2, <2>3 DEF Busy, Wait
<1>16. CASE Waits \/ Waited
  <2>1. /\ div.state = "WAIT" /\ div'.state \in {"WAIT", "IDLE"}
        /\ div'.state = "WAIT" => div.cntWait < 11 /\ div'.cntWait = div.cntWait + 1
    BY <1>16 DEF Waits, Waited
  <2>2. d = c /\ d >= 1 /\ b = a /\ a = g[c]
    BY <1>4, <1>6, <1>7, <2>1
  <2>3. div.cntWait \in 0 .. 12
    BY DEF TypeInv, Wait
  <2>4. div'.state = "WAIT" => div'.cntWait < 12
    BY <2>1, <2>3
  <2> QED
    BY <2>1, <2>2, <2>4 DEF Busy, Wait
<1> QED
  BY <1>8, <1>9, <1>10, <1>11, <1>12, <1>14, <1>15, <1>16 DEF Moves

(* The clocks that are left of the packet that is divided. *)
LeftGood ==
  /\ Left \in Nat
  /\ Busy => Len(Bytes) \in Nat /\ Emitted \in Nat /\ Left = 8 + Len(Bytes) - Emitted + 13

(* The words taken fit the state of state_div. *)
DivHolds == \E g, a : DivInv(g, a)

(* The clocks left are a number. *)
LEMMA LeftOk == TypeInv /\ DivHolds /\ (Busy => Emitted \in Nat) => LeftGood
<1> SUFFICES ASSUME TypeInv, NEW g, NEW a, DivInv(g, a), Busy => Emitted \in Nat
             PROVE  LeftGood
  BY DEF DivHolds
<1>1. ASSUME Busy PROVE Left \in Nat /\ Len(Bytes) \in Nat /\ Left = 8 + Len(Bytes) - Emitted + 13
  <2>1. Current >= 1 /\ Emitted <= 8 + Len(Bytes) /\ Emitted \in Nat
    BY <1>1 DEF DivInv, Pre
  <2>2. PICK c \in Payloads : c = Bytes
    BY <2>1, CurrentOk
  <2>3. Len(Bytes) \in Nat
    BY <2>2, PayloadOk
  <2>4. Left = 8 + Len(Bytes) - Emitted + 1 + 12
    BY <1>1 DEF Busy, Left, Pre, Wait
  <2>5. PICK l \in Nat, e \in Nat : l = Len(Bytes) /\ e = Emitted
    BY <2>1, <2>3
  <2>6. 8 + l - e + 1 + 12 = 8 + l - e + 13 /\ 8 + l - e + 13 \in Nat
    BY <2>1, <2>5
  <2> QED
    BY <2>3, <2>4, <2>5, <2>6
<1>2. ASSUME ~Busy PROVE Left \in Nat
  <2>1. div.state \in {"IDLE", "WAIT"} /\ div.cntWait \in 0 .. 12
    BY <1>2 DEF Busy, TypeInv, Wait
  <2> QED
    BY <2>1 DEF Left, Wait
<1> QED
  BY <1>1, <1>2 DEF LeftGood

(* So they are after a clock. *)
LEMMA LeftOkNext == TypeInv' /\ DivHolds' /\ (Busy => Emitted \in Nat)' => LeftGood'
BY LeftOk, PTL

(* A clock is spent on a packet unless there is none. *)
LEMMA LeftStep ==
  ASSUME TypeInv, TypeInv', SourceInv, FifoSound, Record, Moves, BusyInv,
         NEW f, NEW g, NEW f2, NEW g2, NEW a, Sums(f, g), WordsInv(g, a), DivInv(g, a),
         Extends(f, f2), Extends(g, g2),
         Len(sent') \in Nat, Len(sent) <= Len(sent'),
         \A k \in 1 .. Len(sent) : sent'[k] = sent[k],
         Current' = IF div.state = "IDLE" /\ fifo # << >> THEN Current + 1 ELSE Current,
         crc.en /\ quiet # Ifg => wire # << >>,
         div.state \in {"READ_PKT", "TRANS_PKT"} => Emitted >= Pre /\ Emitted \in Nat,
         NEW b, DivInv(g2, b)'
  PROVE  /\ Left \in Nat /\ Left' \in Nat
         /\ Rests => Left = 0 /\ Left' = 0
         /\ ~Rests => Left' + f[Current] + 1 = Left + f[Current']
<1>1. /\ Busy => Emitted \in Nat
      /\ Takes => Emitted' = 0
      /\ Busy /\ Busy' => Emitted' = Emitted + 1
      /\ Padded => Emitted = 7
  BY EmittedStep
<1>2. /\ Current \in 0 .. Len(sent) /\ Current' \in 0 .. Len(sent) /\ Len(sent) \in Nat
      /\ Takes => Current' = Current + 1
      /\ ~Takes => Current' = Current
      /\ Current' >= 1 => /\ f[Current'] = f[Current' - 1] + Service(Bytes')
                          /\ f[Current' - 1] \in Nat /\ Bytes' \in Payloads
      /\ ~Takes => Bytes' = Bytes \/ Current = 0
      /\ f[Current'] \in Nat /\ f[Current] \in Nat
  BY CurrentMoves
<1>3. Busy' => Emitted' \in Nat
  <2>1. Busy' => Takes \/ Busy
    BY DEF Moves, Busy, Rests, Takes, Pads, Padded, Reads, Sends, Ends, Waits, Waited
  <2> QED
    BY <1>1, <2>1
<1>4. /\ Left \in Nat
      /\ Busy => Len(Bytes) \in Nat /\ Emitted \in Nat /\ Left = 8 + Len(Bytes) - Emitted + 13
  <2>1. DivHolds
    BY DEF DivHolds
  <2> QED
    BY <1>1, <2>1, LeftOk DEF LeftGood
<1>5. /\ Left' \in Nat
      /\ Busy' => Len(Bytes') \in Nat /\ Emitted' \in Nat /\ Left' = 8 + Len(Bytes') - Emitted' + 13
  <2>1. DivHolds'
    BY DEF DivHolds
  <2>2. LeftGood'
    BY <1>3, <2>1, LeftOkNext
  <2> QED
    BY <2>2 DEF LeftGood
<1>6. (Busy \/ div.state = "WAIT") => Current >= 1
  BY DEF DivInv
<1>7. Rests => Left = 0 /\ Left' = 0
  BY DEF Rests, Left
<1>8. ASSUME Takes PROVE Left' + f[Current] + 1 = Left + f[Current']
  <2>1. Left = 0 /\ Busy'
    BY <1>8 DEF Takes, Left, Busy
  <2>2. Emitted' = 0 /\ Current' = Current + 1 /\ Current \in Nat
    BY <1>1, <1>2, <1>8
  <2>3. Left' = 8 + Len(Bytes') - 0 + 13 /\ Len(Bytes') \in Nat
    BY <1>5, <2>1, <2>2
  <2> HIDE DEF Current
  <2>4. Current' >= 1 /\ Current' - 1 = Current
    BY <2>2
  <2>5. PICK c \in Payloads : c = Bytes'
    BY <1>2, <2>4
  <2>6. Service(c) = 22 + Len(c)
    BY PayloadOk
  <2>7. f[Current'] = f[Current] + (22 + Len(Bytes')) /\ f[Current] \in Nat
    BY <1>2, <2>4, <2>5, <2>6
  <2>8. PICK l \in Nat, y \in Nat : l = Len(Bytes') /\ y = f[Current]
    BY <2>3, <2>7
  <2>9. 8 + l - 0 + 13 + y + 1 = 0 + (y + (22 + l))
    BY <2>8
  <2> QED
    BY <2>1, <2>3, <2>7, <2>8, <2>9
<1>9. ASSUME Busy, Busy' PROVE Left' + f[Current] + 1 = Left + f[Current']
  <2>1. ~Takes /\ Current >= 1
    BY <1>6, <1>9 DEF Takes, Busy
  <2>2. Bytes' = Bytes /\ Current' = Current /\ Emitted' = Emitted + 1
    BY <1>1, <1>2, <1>9, <2>1
  <2>3. PICK l \in Nat, e \in Nat, y \in Nat : l = Len(Bytes) /\ e = Emitted /\ y = f[Current]
    BY <1>2, <1>4, <1>9
  <2>4. Left = 8 + l - e + 13 /\ Left' = 8 + l - (e + 1) + 13
    BY <1>4, <1>5, <1>9, <2>2, <2>3
  <2>5. (8 + l - (e + 1) + 13) + y + 1 = (8 + l - e + 13) + y
    BY <2>3
  <2> QED
    BY <2>2, <2>3, <2>4, <2>5
<1>10. ASSUME Ends PROVE Left' + f[Current] + 1 = Left + f[Current']
  <2>1. /\ div.state = "TRANS_PKT" /\ Busy /\ div.cntValid = 0 /\ div.word.mark = "tail"
        /\ div'.state = "WAIT" /\ div'.cntWait = 0 /\ ~Takes
    BY <1>10 DEF Ends, Busy, Takes
  <2>2. Left' = 12 /\ Current' = Current
    BY <1>2, <2>1 DEF Left, Wait
  <2>3. Current >= 1 /\ Current \in 1 .. Len(sent) /\ Bytes \in Payloads /\ Bytes = sent[Current]
    BY <1>2, <1>6, <2>1, CurrentOk DEF Bytes
  <2>4. /\ g[Current - 1] < a /\ a <= g[Current]
        /\ Emitted = 8 + W * (a - 1 - g[Current - 1]) + div.cntGmii + 1
        /\ div.word = Word(Bytes, a - g[Current - 1])
        /\ div.cntValid + div.cntGmii = div.word.valid
    BY <2>1 DEF DivInv, Pre
  <2>5. /\ \A k \in 0 .. Len(sent) : g[k] \in Nat
        /\ g[Current] = g[Current - 1] + WordsOf(Bytes)
    BY <2>3, SumsOk
  <2>6. PICK x \in Nat, u \in Nat : x = g[Current - 1] /\ u = WordsOf(Bytes)
    <3>1. Current - 1 \in 0 .. Len(sent)
      BY <1>2, <2>3
    <3>2. WordsOf(Bytes) \in Nat
      BY <2>3, PayloadOk
    <3> QED
      BY <2>5, <3>1, <3>2
  <2>7. W \in Nat /\ a \in Nat
    BY Sizes DEF WordsInv
  <2>8. x < a /\ a <= x + u
    BY <2>4, <2>5, <2>6
  <2>9. PICK k \in 1 .. u : k = a - x
    BY <2>6, <2>7, <2>8
  <2>10. a - 1 - x = k - 1 /\ k - 1 \in Nat
    BY <2>6, <2>7, <2>9
  <2>11. div.word = Word(Bytes, k) /\ Emitted = 8 + W * (k - 1) + div.cntGmii + 1
    BY <2>4, <2>6, <2>9, <2>10
  <2>12. W * (k - 1) + div.word.valid + 1 = Len(Bytes)
    BY <2>1, <2>3, <2>6, <2>11, WordOk
  <2>13. PICK v \in Nat, i \in Nat, y \in Nat, l \in Nat :
           v = div.word.valid /\ i = div.cntGmii /\ y = W * (k - 1) /\ l = Len(Bytes)
    <3>1. div.cntGmii \in 0 .. W - 1 /\ div.word.valid \in 0 .. W - 1
      BY DEF TypeInv, WordRec
    <3>2. W * (k - 1) \in Nat
      BY <2>7, <2>10
    <3>3. div.cntGmii \in Nat /\ div.word.valid \in Nat /\ Len(Bytes) \in Nat
      BY <1>4, <2>1, <2>7, <3>1
    <3> QED
      BY <3>2, <3>3
  <2>14. v = i
    BY <2>1, <2>4, <2>13
  <2>15. Emitted = 8 + y + i + 1 /\ y + v + 1 = l
    BY <2>11, <2>12, <2>13
  <2>16. Emitted = 8 + l
    <3>1. 8 + y + i + 1 = 8 + l
      <4>1. \A p, q, t \in Nat : p + q + 1 = t => 8 + p + q + 1 = 8 + t
        OBVIOUS
      <4>2. y + i + 1 = l
        BY <2>14, <2>15
      <4>3. y \in Nat /\ i \in Nat /\ l \in Nat
        BY <2>13
      <4> QED
        BY ONLY <4>1, <4>2, <4>3
    <3> QED
      BY <2>15, <3>1
  <2>17. Left = 13
    <3>1. Left = 8 + l - (8 + l) + 13
      BY <1>4, <2>1, <2>13, <2>16
    <3> QED
      BY <2>13, <3>1
  <2> HIDE DEF Current
  <2> QED
    BY <1>2, <2>2, <2>17
<1>11. ASSUME Waits \/ Waited PROVE Left' + f[Current] + 1 = Left + f[Current']
  <2>1. /\ div.state = "WAIT" /\ ~Takes /\ div.cntWait \in 0 .. 12
        /\ IF div.cntWait < 11 THEN div'.state = "WAIT" /\ div'.cntWait = div.cntWait + 1
           ELSE div.cntWait = 11 /\ div'.state = "IDLE"
    BY <1>11 DEF Waits, Waited, Takes, TypeInv, Wait
  <2>2. Current' = Current
    BY <1>2, <2>1
  <2>3. Left = 12 - div.cntWait
    BY <2>1 DEF Left, Wait
  <2>4. Left' = IF div.cntWait < 11 THEN 12 - (div.cntWait + 1) ELSE 0
    BY <2>1 DEF Left, Wait
  <2>5. Left' + 1 = Left
    <3>1. PICK w \in 0 .. 12 : w = div.cntWait
      BY <2>1
    <3>2. (w < 11 => (12 - (w + 1)) + 1 = 12 - w) /\ (~(w < 11) => w = 11 /\ 0 + 1 = 12 - w)
      BY <2>1, <3>1
    <3> QED
      BY <2>3, <2>4, <3>1, <3>2
  <2> HIDE DEF Current
  <2>6. PICK y \in Nat, l \in Nat, h \in Nat : y = f[Current] /\ l = Left /\ h = Left'
    BY <1>2, <1>4, <1>5
  <2>7. h + y + 1 = l + y
    <3>1. h + 1 = l
      BY <2>5, <2>6
    <3>2. \A p, q, t \in Nat : p + 1 = q => p + t + 1 = q + t
      OBVIOUS
    <3> QED
      BY <2>6, <3>1, <3>2
  <2> QED
    BY <2>2, <2>6, <2>7
<1>12. ~Rests => Left' + f[Current] + 1 = Left + f[Current']
  <2>1. Pads \/ Padded \/ Reads \/ Sends => Busy /\ Busy'
    BY DEF Pads, Padded, Reads, Sends, Busy
  <2> QED
    BY <1>8, <1>9, <1>10, <1>11, <2>1 DEF Moves
<1> QED
  BY <1>4, <1>5, <1>7, <1>12

(* The source leaves the machine time for what it has accepted. *)
LEMMA RateStep ==
  ASSUME TypeInv, SourceInv, NEW start \in BOOLEAN, Source(start), FifoSound,
         NEW f, NEW g, NEW f2, NEW g2, NEW a, Sums(f, g), Sums(f2, g2)', WordsInv(g, a),
         DivInv(g, a), RateInv(f), Extends(f, f2),
         Current \in 0 .. Len(sent), Current' \in 0 .. Len(sent), f2[Current'] = f[Current'],
         Left \in Nat, Left' \in Nat,
         Rests => Left = 0 /\ Left' = 0 /\ Current' = Current,
         ~Rests => Left' + f[Current] + 1 = Left + f[Current']
  PROVE  RateInv(f2)'
<1> DEFINE n == Len(sent)
           c == Current
           d == Current'
<1>1. /\ n \in Nat /\ n \in 0 .. n /\ c \in 0 .. n /\ d \in 0 .. n
      /\ \A k \in 0 .. n : f[k] \in Nat /\ g[k] \in Nat
      /\ \A j, k \in 0 .. n : j <= k => g[j] <= g[k]
      /\ \A k \in 1 .. n :
           f[k] = f[k - 1] + Service(sent[k]) /\ g[k] = g[k - 1] + WordsOf(sent[k])
  BY SumsOk
<1>2. due \in Nat /\ f[n] + Left <= f[c] + due + 1
  BY DEF TypeInv, RateInv
<1>3. f2[d] = f[d] /\ f2[n] = f[n]
  BY <1>1 DEF Extends
<1>4. ASSUME start
      PROVE  /\ Len(sent') = n + 1 /\ Service(packet') \in Nat
             /\ f2[n + 1] = f[n] + Service(packet') /\ due' = due + Service(packet')
  <2>1. packet' \in Payloads /\ sent' = Append(sent, packet') /\ due' = due + Service(packet')
    BY <1>4, SourceStep
  <2>2. PICK y \in Payloads : y = packet'
    BY <2>1
  <2>3. Service(y) = 22 + Len(y) /\ Len(y) \in Nat
    BY PayloadOk
  <2>4. Len(sent') = n + 1 /\ sent'[n + 1] = y
    BY <2>1, <2>2 DEF TypeInv
  <2>5. \A k \in 1 .. Len(sent') : f2[k] = f2[k - 1] + Service(sent'[k])
    BY DEF Sums
  <2>6. n + 1 \in 1 .. n + 1 /\ (n + 1) - 1 = n
    BY <1>1
  <2>7. f2[n + 1] = f2[n] + Service(y)
    BY <2>4, <2>5, <2>6
  <2> QED
    BY <1>3, <2>1, <2>2, <2>3, <2>4, <2>7
<1>5. ~start => sent' = sent /\ due' = IF due > 0 THEN due - 1 ELSE 0
  BY SourceStep
<1>6. SUFFICES f2[Len(sent')] + Left' <= f2[d] + due' + 1
  BY DEF RateInv
<1>7. PICK p \in Nat, q \in Nat, r \in Nat, l \in Nat, h \in Nat, u \in Nat :
        /\ p = f[n] /\ q = f[c] /\ r = f[d] /\ l = Left /\ h = Left' /\ u = due
  BY <1>1, <1>2
<1>8. p + l <= q + u + 1
  BY <1>2, <1>7
<1>9. Rests => l = 0 /\ h = 0 /\ d = c
  BY <1>7
<1>10. ~Rests => h + q + 1 = l + r
  BY <1>7
<1>11. Rests => q = r
  BY <1>7, <1>9
<1>12. ASSUME Rests PROVE p <= q + u
  <2>1. fifo = << >> /\ Len(fifo) = 0 /\ div.state = "IDLE"
    BY <1>12 DEF Rests
  <2>2. a = g[c] /\ a + Len(fifo) + Rest = g[n] /\ a \in Nat
    BY <2>1 DEF DivInv, WordsInv
  <2>3. g[n] = g[c] + Rest /\ Rest \in Nat /\ g[c] \in Nat /\ g[n] \in Nat
    BY <1>1, <2>1, <2>2, ComingOk
  <2> HIDE DEF c, n
  <2>4. CASE c = n
    BY <1>7, <2>4
  <2>5. CASE c # n
    <3>1. c + 1 \in 1 .. n /\ c + 1 \in 0 .. n /\ n - 1 \in 0 .. n /\ n \in 1 .. n
          /\ (c + 1) - 1 = c /\ c <= n - 1 /\ c + 1 <= n
      BY <1>1, <2>5
    <3>2. sent[c + 1] \in Payloads /\ sent[n] \in Payloads
      BY <3>1 DEF TypeInv, n
    <3>3. g[c + 1] = g[c] + WordsOf(sent[c + 1]) /\ g[c + 1] <= g[n]
      BY <1>1, <3>1
    <3>4. WordsOf(sent[c + 1]) >= 2 /\ WordsOf(sent[c + 1]) \in Nat
      BY <3>2, PayloadOk
    <3>5. PICK x \in Nat, w \in Nat : x = g[c] /\ w = WordsOf(sent[c + 1])
      BY <2>3, <3>4
    <3>6. Rest >= w
      BY ONLY <2>3, <3>3, <3>5
    <3>7. PktValid /\ packet = sent[n] /\ pos \in 1 .. WordsOf(packet)
          /\ Rest = WordsOf(packet) - pos + 1 /\ WordsOf(packet) \in Nat
      <4>1. Rest # 0
        BY ONLY <2>3, <3>4, <3>5, <3>6
      <4> QED
        BY <4>1, ComingOk DEF n
    <3>8. g[n] = g[n - 1] + WordsOf(packet) /\ g[n - 1] \in Nat /\ g[c] <= g[n - 1]
      BY <1>1, <3>1, <3>7
    <3>9. pos = 1 /\ g[n - 1] = g[c]
      <4>1. PICK y \in Nat, v \in Nat : y = g[n - 1] /\ v = WordsOf(packet)
        BY <3>7, <3>8
      <4>2. y + v = x + (v - pos + 1) /\ x <= y /\ pos \in 1 .. v
        BY ONLY <2>3, <3>5, <3>7, <3>8, <4>1
      <4>3. pos = 1 /\ y = x
        BY ONLY <4>1, <4>2, <3>5, y \in Nat, v \in Nat, x \in Nat
      <4> QED
        BY <3>5, <4>1, <4>3
    <3>10. c = n - 1
      <4>1. SUFFICES ASSUME c # n - 1 PROVE FALSE
        OBVIOUS
      <4>2. c + 1 <= n - 1
        BY <1>1, <3>1, <4>1
      <4>3. g[c + 1] <= g[n - 1]
        BY <1>1, <3>1, <4>2
      <4> QED
        BY ONLY <2>3, <3>3, <3>4, <3>5, <3>9, <4>3
    <3>11. u >= Service(packet)
      BY <1>7, <3>1, <3>7, <3>9 DEF SourceInv
    <3>12. f[n] = f[c] + Service(packet)
      BY <1>1, <3>1, <3>7, <3>10
    <3>13. Service(packet) \in Nat
      <4>1. PICK y \in Payloads : y = packet
        BY <3>2, <3>7
      <4> QED
        BY <4>1, PayloadOk
    <3>14. p = q + Service(packet)
      BY <1>7, <3>12
    <3> QED
      BY ONLY <3>11, <3>13, <3>14, u \in Nat, q \in Nat
  <2> QED
    BY <2>4, <2>5
<1>13. ~Rests => p + h <= r + u
  BY ONLY <1>8, <1>10, p \in Nat, q \in Nat, r \in Nat, l \in Nat, h \in Nat, u \in Nat
<1>14. p + h <= r + u
  BY ONLY <1>9, <1>11, <1>12, <1>13, p \in Nat, q \in Nat, r \in Nat, l \in Nat, h \in Nat, u \in Nat
<1>15. CASE start
  <2>1. PICK s \in Nat : s = Service(packet')
    BY <1>4, <1>15
  <2>2. f2[Len(sent')] = p + s /\ due' = u + s /\ f2[d] = r /\ Left' = h
    BY <1>3, <1>4, <1>7, <1>15, <2>1
  <2>3. (p + s) + h <= r + (u + s) + 1
    BY ONLY <1>14, p \in Nat, r \in Nat, h \in Nat, u \in Nat, s \in Nat
  <2> QED
    BY <2>2, <2>3
<1>16. CASE ~start
  <2>1. PICK t \in Nat : t = due' /\ u <= t + 1
    BY <1>5, <1>7, <1>16
  <2>2. f2[Len(sent')] = p /\ f2[d] = r /\ Left' = h /\ due' = t
    BY <1>3, <1>5, <1>7, <1>16, <2>1
  <2>3. u <= t + 1
    BY <2>1
  <2>4. p + h <= r + t + 1
    BY ONLY <1>14, <2>3, p \in Nat, r \in Nat, h \in Nat, u \in Nat, t \in Nat
  <2> QED
    BY <2>2, <2>4
<1> QED
  BY <1>15, <1>16

(* The words that wait when the source starts fit the burst. *)
LEMMA Few ==
  ASSUME NEW v \in Nat, v >= 1, W * (v - 1) + 14 <= Burst + 1
  PROVE  v <= Waiting
<1>1. W \in Nat /\ W >= 2 /\ Burst \in Nat
  BY Sizes DEF Pre, Wait
<1>2. PICK k \in Nat : k = v - 1
  OBVIOUS
<1>3. W * k \in Nat /\ W * k + 14 <= Burst + 1
  BY <1>1, <1>2
<1>4. Waiting = (Burst - 13) \div W + 1 /\ Burst - 13 \in Nat
  <2>1. PICK y \in Nat : y = W * k
    BY <1>3
  <2>2. Burst >= 13
    BY ONLY <1>1, <1>3, <2>1, y \in Nat
  <2>3. Burst - 12 - 1 = Burst - 13 /\ Burst - 13 \in Nat /\ ~(Burst <= 12)
    BY ONLY <1>1, <2>2
  <2> QED
    BY <2>3 DEF Waiting, Wait
<1>5. PICK m \in Nat : m = Burst - 13
  BY <1>4
<1>6. W * k <= m
  <2>1. PICK y \in Nat : y = W * k
    BY <1>3
  <2> QED
    BY ONLY <1>1, <1>3, <1>5, <2>1, y \in Nat, m \in Nat
<1>7. k <= m \div W
  <2>1. m \div W \in Nat /\ m < W * (m \div W) + W
    BY <1>1, <1>5
  <2>2. PICK q \in Nat : q = m \div W
    BY <2>1
  <2>3. W * (q + 1) = W * q + W
    BY <1>1, <2>2
  <2>4. W * k < W * (q + 1)
    <3>1. W * q \in Nat
      BY <1>1, <2>2
    <3> QED
      BY <1>1, <1>3, <1>5, <1>6, <2>1, <2>2, <2>3, <3>1
  <2>5. ~(q + 1 <= k)
    <3>1. SUFFICES ASSUME q + 1 <= k PROVE FALSE
      OBVIOUS
    <3>2. W * (q + 1) <= W * k
      BY <3>1, TimesW
    <3>3. W * (q + 1) \in Nat
      BY <1>1, <2>2
    <3> QED
      BY ONLY <1>3, <2>4, <3>2, <3>3
  <2> QED
    BY <1>2, <2>2, <2>5
<1>8. PICK q \in Nat : q = m \div W
  BY <1>1, <1>5
<1> QED
  BY <1>2, <1>4, <1>5, <1>7, <1>8

(* The words that wait are bytes, for each of which there is a clock.       *)
LEMMA WaitingOk ==
  ASSUME TypeInv, NEW f, NEW g, NEW a, Sums(f, g), WordsInv(g, a), DivInv(g, a), LeftGood,
         NEW b, b = IF div.rden THEN a + 1 ELSE a, b < g[Len(sent)]
  PROVE  W * (g[Len(sent)] - b - 1) + 14 + f[Current] <= f[Len(sent)] + Left
<1> DEFINE n == Len(sent)
           c == Current
<1>1. /\ n \in Nat /\ n \in 0 .. n /\ c \in 0 .. n /\ W \in Nat /\ W >= 2 /\ W <= 23
      /\ \A k \in 0 .. n : f[k] \in Nat /\ g[k] \in Nat
      /\ \A j, k \in 0 .. n : j <= k => g[j] <= g[k] /\ W * g[k] + f[j] <= f[k] + W * g[j]
      /\ \A k \in 1 .. n :
           f[k] = f[k - 1] + Service(sent[k]) /\ g[k] = g[k - 1] + WordsOf(sent[k])
      /\ a \in Nat /\ (div.rden <=> div.state = "READ_PKT")
  BY SumsOk, Sizes DEF DivInv, WordsInv, Pre, Wait
<1>2. b \in Nat /\ (b = a \/ (b = a + 1 /\ div.state = "READ_PKT"))
      /\ (div.state = "READ_PKT" => b = a + 1)
  BY <1>1
<1> HIDE DEF c, n
<1>3. PICK G \in Nat, p \in Nat, q \in Nat, x \in Nat :
        G = g[n] /\ p = f[n] /\ q = f[c] /\ x = g[c]
  BY <1>1
<1>4. b < G
  BY <1>3 DEF n
<1> SUFFICES W * (G - b - 1) + 14 + q <= p + Left
  BY <1>3 DEF n, c
<1>7. W \in Nat /\ \A i, j \in Nat : W * i \in Nat /\ W * (i + j) = W * i + W * j
      /\ W * (i + 1) = W * i + W
  <2>1. W \in Nat
    BY <1>1
  <2> QED
    BY ONLY <2>1
<1>5. CASE ~Busy
  <2>1. b = x
    <3>1. div.state \in {"IDLE", "WAIT"}
      BY <1>5 DEF TypeInv, Busy
    <3>2. a = g[c]
      BY <3>1 DEF DivInv, c
    <3> QED
      BY <1>2, <1>3, <3>1, <3>2
  <2>2. c # n
    BY <1>3, <1>4, <2>1
  <2>3. c + 1 \in 1 .. n /\ c + 1 \in 0 .. n /\ (c + 1) - 1 = c /\ c + 1 <= n
    BY <1>1, <2>2
  <2>4. sent[c + 1] \in Payloads
    BY <2>3 DEF TypeInv, n
  <2>5. PICK y \in Payloads : y = sent[c + 1]
    BY <2>4
  <2>6. PICK w \in Nat, l \in Nat : w = WordsOf(y) /\ l = Len(y) /\ w >= 2
    BY PayloadOk
  <2>7. Service(y) = 22 + l /\ W * w < l + W
    BY <2>6, PayloadOk
  <2>8. g[c + 1] = x + w /\ f[c + 1] = q + (22 + l)
    BY <1>1, <1>3, <2>3, <2>5, <2>6, <2>7
  <2>9. x + w <= G /\ W * G + (q + (22 + l)) <= p + W * (x + w)
    BY <1>1, <1>3, <2>3, <2>8
  <2>10. W * (x + w) = W * x + W * w /\ W * (G - x - 1) = W * G - W * x - W
    <3>1. W * (x + w) = W * x + W * w
      BY <1>1, <1>3, <2>6
    <3>2. PICK k \in Nat : k = G - x - 1
      BY <1>3, <1>4, <2>1
    <3>3. G = (x + k) + 1
      BY <1>3, <3>2
    <3>4. W * G = W * x + W * k + W /\ W * k \in Nat /\ W * x \in Nat
      <4>1. W * ((x + k) + 1) = W * (x + k) + W /\ W * (x + k) = W * x + W * k
        BY ONLY <1>7, x \in Nat, k \in Nat
      <4>2. W * k \in Nat /\ W * x \in Nat
        BY ONLY <1>7, x \in Nat, k \in Nat
      <4> QED
        BY <3>3, <4>1, <4>2
    <3>5. PICK i \in Nat, j \in Nat : i = W * k /\ j = W * x
      BY <3>4
    <3>6. i = (j + i + W) - j - W
      BY ONLY <1>1, i \in Nat, j \in Nat
    <3> QED
      BY <3>1, <3>2, <3>4, <3>5, <3>6
  <2>11. PICK i \in Nat, j \in Nat, k \in Nat : i = W * G /\ j = W * x /\ k = W * w
    <3>1. W * G \in Nat /\ W * x \in Nat /\ W * w \in Nat
      BY ONLY <1>7, G \in Nat, x \in Nat, w \in Nat
    <3> QED
      BY <3>1
  <2>12. Left \in Nat
    BY DEF LeftGood
  <2>13. k < l + W /\ i + (q + (22 + l)) <= p + (j + k)
    BY <2>7, <2>9, <2>10, <2>11
  <2>14. (i - j - W) + 14 + q <= p
    BY ONLY <1>1, <2>13, i \in Nat, j \in Nat, k \in Nat, p \in Nat, q \in Nat, l \in Nat
  <2>15. PICK L \in Nat : L = Left
    BY <2>12
  <2>16. (i - j - W) + 14 + q <= p + L
    BY ONLY <1>1, <2>14, i \in Nat, j \in Nat, p \in Nat, q \in Nat, L \in Nat
  <2> QED
    BY <2>1, <2>10, <2>11, <2>15, <2>16
<1>6. CASE Busy
  <2>1. /\ c >= 1 /\ c \in 1 .. n /\ Bytes \in Payloads /\ Bytes = sent[c]
        /\ Left = 8 + Len(Bytes) - Emitted + 13 /\ Emitted \in Nat /\ Emitted <= 8 + Len(Bytes)
    BY <1>6, CurrentOk DEF DivInv, LeftGood, c, n, Bytes, Pre
  <2>2. PICK w \in Nat, l \in Nat : w = WordsOf(Bytes) /\ l = Len(Bytes) /\ w >= 2
    BY <2>1, PayloadOk
  <2>3. W * w < l + W
    BY <2>1, <2>2, PayloadOk
  <2>4. PICK z \in Nat, e \in Nat : z = g[c - 1] /\ e = Emitted
    <3>1. c - 1 \in 0 .. n
      BY <1>1, <2>1
    <3> QED
      BY <1>1, <2>1, <3>1
  <2>5. x = z + w /\ x <= G /\ W * G + q <= p + W * x
    <3>1. g[c] = g[c - 1] + WordsOf(sent[c])
      BY <1>1, <2>1
    <3>2. c <= n
      BY <1>1
    <3> QED
      BY <1>1, <1>3, <2>1, <2>2, <2>4, <3>1, <3>2
  <2>6. /\ div.state = "PAD_PKT_TAG" => a = z /\ e = div.cntHead
        /\ div.state = "READ_PKT" => z <= a /\ a < x /\ e = 8 + W * (a - z)
        /\ div.state = "TRANS_PKT" => z < a /\ a <= x /\ e = 8 + W * (a - 1 - z) + div.cntGmii + 1
    BY <1>3, <2>4 DEF DivInv, Emitted, c, Pre
  <2>7. div.cntHead \in 0 .. 7 /\ div.cntGmii \in 0 .. W - 1
    BY DEF TypeInv
  (* k words are out of the FIFO, or one less. *)
  <2>8. \E k \in Nat : b = z + k /\ k <= w /\ e <= 8 + W * k
    <3>1. CASE div.state = "PAD_PKT_TAG"
      <4>1. W * 0 = 0
        BY <1>1
      <4>2. b = z + 0 /\ 0 <= w
        BY <1>2, <2>2, <2>4, <2>6, <3>1
      <4>3. e <= 8 + W * 0
        BY <2>6, <2>7, <3>1, <4>1
      <4> QED
        BY <4>2, <4>3
    <3>2. CASE div.state = "READ_PKT"
      <4>1. z <= a /\ a < z + w /\ e = 8 + W * (a - z) /\ b = a + 1
        BY <1>2, <2>5, <2>6, <3>2
      <4>2. PICK j \in Nat : j = a - z
        BY <1>1, <2>4, <4>1
      <4>3. b = z + (j + 1) /\ j + 1 <= w
        BY ONLY <1>1, <4>1, <4>2, z \in Nat, w \in Nat, j \in Nat
      <4>4. W * (j + 1) = W * j + W /\ W * j \in Nat /\ e = 8 + W * j
        BY <1>1, <4>1, <4>2
      <4>5. e <= 8 + W * (j + 1)
        BY ONLY <1>1, <4>4
      <4>6. j + 1 \in Nat
        BY <4>2
      <4> QED
        BY <4>3, <4>5, <4>6
    <3>3. CASE div.state = "TRANS_PKT"
      <4>1. z < a /\ a <= z + w /\ e = 8 + W * (a - 1 - z) + div.cntGmii + 1 /\ b = a
        BY <1>2, <2>5, <2>6, <3>3
      <4>2. PICK j \in Nat : j = a - 1 - z
        BY <1>1, <2>4, <4>1
      <4>3. b = z + (j + 1) /\ j + 1 <= w
        BY ONLY <1>1, <4>1, <4>2, z \in Nat, w \in Nat, j \in Nat
      <4>4. W * (j + 1) = W * j + W /\ W * j \in Nat /\ e = 8 + W * j + div.cntGmii + 1
        BY <1>1, <4>1, <4>2
      <4>5. e <= 8 + W * (j + 1)
        BY ONLY <1>1, <2>7, <4>4
      <4>6. j + 1 \in Nat
        BY <4>2
      <4> QED
        BY <4>3, <4>5, <4>6
    <3> QED
      BY <1>6, <3>1, <3>2, <3>3 DEF Busy
  <2>9. PICK k \in Nat : b = z + k /\ k <= w /\ e <= 8 + W * k
    BY <2>8
  (* Arithmetic: W * (G - b - 1) = W * G - W * x + W * (w - k) - W. *)
  <2>10. PICK s \in Nat, t \in Nat : G = x + s /\ w = k + t
    <3>1. G - x \in Nat /\ G = x + (G - x) /\ w - k \in Nat /\ w = k + (w - k)
      BY ONLY <2>5, <2>9, G \in Nat, x \in Nat, w \in Nat, k \in Nat
    <3> QED
      BY <3>1
  <2>11. G = b + (s + t) /\ s + t >= 1
    BY ONLY <1>4, <2>5, <2>9, <2>10, G \in Nat, x \in Nat, w \in Nat, k \in Nat, z \in Nat,
            s \in Nat, t \in Nat
  <2>12. PICK v \in Nat : s + t = v + 1 /\ G - b - 1 = v
    <3>1. (s + t) - 1 \in Nat /\ s + t = ((s + t) - 1) + 1 /\ G - b - 1 = (s + t) - 1
      BY ONLY <1>2, <2>11, s \in Nat, t \in Nat
    <3> QED
      BY <3>1
  <2>13. PICK sw \in Nat, tw \in Nat, kw \in Nat, xw \in Nat, vw \in Nat :
           sw = W * s /\ tw = W * t /\ kw = W * k /\ xw = W * x /\ vw = W * v
    BY <1>1
  <2>14. W * G = xw + sw /\ W * w = kw + tw /\ sw + tw = vw + W
    <3>1. W * (x + s) = W * x + W * s /\ W * (k + t) = W * k + W * t
          /\ W * (s + t) = W * s + W * t /\ W * (v + 1) = W * v + W
      BY <1>1
    <3> QED
      BY <2>10, <2>12, <2>13, <3>1
  <2>15. sw + q <= p
    <3>1. xw + sw + q <= p + xw
      BY <2>5, <2>13, <2>14
    <3> QED
      BY ONLY <3>1, sw \in Nat, xw \in Nat, p \in Nat, q \in Nat
  <2>16. kw + tw < l + W /\ e <= 8 + kw
    BY <2>3, <2>9, <2>13, <2>14
  <2>17. PICK L \in Nat : L = Left /\ L = 8 + l - e + 13
    <3>1. 8 + l - e + 13 \in Nat
      BY <2>1, <2>2, <2>4
    <3> QED
      BY <2>1, <2>2, <2>4, <3>1
  <2>18. vw + 14 + q <= p + L
    <3>1. L = 8 + l - e + 13
      BY <2>17
    <3>2. vw + W = sw + tw
      BY <2>14
    <3> QED
      BY ONLY <1>1, <2>15, <2>16, <3>1, <3>2, sw \in Nat, tw \in Nat, kw \in Nat, vw \in Nat,
              p \in Nat, q \in Nat, l \in Nat, e \in Nat, L \in Nat
  <2> QED
    BY <2>12, <2>13, <2>17, <2>18
<1> QED
  BY <1>5, <1>6

(* There is room for a packet when it comes, and for each word of it.       *)
LEMMA RoomStep ==
  ASSUME TypeInv, SourceInv, NEW start \in BOOLEAN, Source(start),
         NEW f, NEW g, NEW g2, NEW a, Sums(f, g), WordsInv(g, a), DivInv(g, a), LeftGood,
         RateInv(f), RoomInv(g, a), Extends(g, g2),
         NEW b, b = IF div.rden THEN a + 1 ELSE a
  PROVE  RoomInv(g2, b)'
<1> DEFINE n == Len(sent)
<1>1. /\ n \in Nat /\ n \in 0 .. n /\ \A k \in 0 .. n : g[k] \in Nat /\ f[k] \in Nat
      /\ a \in Nat /\ Current \in 0 .. n /\ div.rden \in BOOLEAN
      /\ due \in Nat /\ Burst \in Nat /\ Waiting \in Nat /\ W \in Nat
  <2>1. Burst \in Nat /\ W \in Nat /\ W >= 2
    BY Sizes DEF Pre, Wait
  <2>2. Waiting \in Nat
    BY ONLY <2>1 DEF Waiting, Wait
  <2>3. div.rden \in BOOLEAN /\ due \in Nat
    BY DEF TypeInv
  <2>4. a \in Nat /\ Current \in 0 .. n
    BY DEF WordsInv, DivInv
  <2> QED
    BY <2>1, <2>2, <2>3, <2>4, SumsOk
<1>2. b \in Nat /\ a <= b
  BY <1>1
<1>3. \A k \in 0 .. n : g2[k] = g[k]
  BY DEF Extends
<1>4. SUFFICES ASSUME PktValid' PROVE g2[Len(sent') - 1] <= b + Waiting
  BY DEF RoomInv
<1>5. CASE ~start
  <2>1. sent' = sent /\ packet' = packet /\ pos' = IF PktValid THEN pos + 1 ELSE pos
    BY <1>5, SourceStep
  <2>2. PktValid
    BY <1>4, <2>1 DEF PktValid, WordsOf
  <2>3. g[n - 1] <= a + Waiting
    BY <2>2 DEF RoomInv
  <2>4. n - 1 \in 0 .. n
    BY <1>1, <2>2, ComingOk
  <2>5. PICK x \in Nat : x = g[n - 1]
    BY <1>1, <2>4
  <2>6. x <= b + Waiting
    <3>1. x <= a + Waiting
      BY <2>3, <2>5
    <3> QED
      BY ONLY <1>1, <1>2, <3>1, x \in Nat
  <2> QED
    BY <1>3, <2>1, <2>4, <2>5, <2>6
<1>6. CASE start
  <2>1. due <= Burst /\ packet' \in Payloads /\ sent' = Append(sent, packet')
    BY <1>6, SourceStep
  <2>2. Len(sent') = n + 1 /\ Len(sent') - 1 = n
    <3>1. PICK y \in Payloads : y = packet'
      BY <2>1
    <3>2. Len(sent') = n + 1
      BY <2>1, <3>1 DEF TypeInv
    <3> QED
      BY <1>1, <3>2
  <2>3. f[n] + Left <= f[Current] + due + 1 /\ Left \in Nat
    BY DEF RateInv, LeftGood
  <2>4. PICK G \in Nat, p \in Nat, q \in Nat, l \in Nat :
          G = g[n] /\ p = f[n] /\ q = f[Current] /\ l = Left
    BY <1>1, <2>3
  <2>5. CASE G <= b
    <3>1. G <= b + Waiting
      BY ONLY <1>1, <1>2, <2>5, G \in Nat
    <3> QED
      BY <1>1, <1>3, <2>2, <2>4, <3>1
  <2>6. CASE ~(G <= b)
    <3>1. PICK v \in Nat : G = b + v /\ v >= 1 /\ G - b - 1 = v - 1
      <4>1. G - b \in Nat /\ G = b + (G - b) /\ G - b >= 1
        BY ONLY <1>2, <2>6, G \in Nat
      <4> QED
        BY <4>1
    <3>2. W * (v - 1) + 14 + q <= p + l
      <4>1. b < g[Len(sent)]
        BY <1>2, <2>4, <2>6
      <4>2. W * (g[n] - b - 1) + 14 + f[Current] <= f[n] + Left
        BY <4>1, WaitingOk
      <4> QED
        BY <2>4, <3>1, <4>2
    <3>3. p + l <= q + due + 1
      BY <2>3, <2>4
    <3>4. PICK j \in Nat, vw \in Nat : j = v - 1 /\ vw = W * (v - 1)
      <4>1. v - 1 \in Nat
        BY <3>1
      <4>2. W * (v - 1) \in Nat
        BY <1>1, <4>1
      <4> QED
        BY <4>1, <4>2
    <3>5. vw + 14 + q <= p + l
      BY <3>2, <3>4
    <3>6. vw + 14 <= Burst + 1
      BY ONLY <1>1, <2>1, <3>3, <3>5, vw \in Nat, p \in Nat, q \in Nat, l \in Nat
    <3>7. v <= Waiting
      BY <3>1, <3>4, <3>6, Few
    <3>8. G <= b + Waiting
      BY ONLY <1>1, <1>2, <3>1, <3>7, v \in Nat, G \in Nat
    <3> QED
      BY <1>1, <1>3, <2>2, <2>4, <3>8
  <2> QED
    BY <2>5, <2>6
<1> QED
  BY <1>5, <1>6

(* A packet comes no slower than it is divided. *)
LEMMA AheadStep ==
  ASSUME TypeInv, SourceInv, NEW start \in BOOLEAN, Source(start), FifoSound, Moves,
         NEW f, NEW g, NEW f2, NEW g2, NEW a, Sums(f, g), WordsInv(g, a), DivInv(g, a),
         AheadInv(g, a), Extends(f, f2), Extends(g, g2),
         Len(sent') \in Nat, Len(sent) <= Len(sent'),
         \A k \in 1 .. Len(sent) : sent'[k] = sent[k],
         Current' = IF div.state = "IDLE" /\ fifo # << >> THEN Current + 1 ELSE Current,
         NEW b, b = IF div.rden THEN a + 1 ELSE a
  PROVE  AheadInv(g2, b)'
<1>1. /\ Current \in 0 .. Len(sent) /\ Current' \in 0 .. Len(sent) /\ Len(sent) \in Nat
      /\ Takes => Current' = Current + 1
      /\ ~Takes => Current' = Current
      /\ Current' >= 1 => g2[Current' - 1] = g[Current' - 1] /\ g[Current' - 1] \in Nat
  BY CurrentMoves
<1>2. a \in Nat /\ pos \in Nat /\ (div.rden <=> div.state = "READ_PKT")
  BY DEF WordsInv, DivInv, TypeInv
<1>3. SUFFICES ASSUME PktValid', Current' = Len(sent')
               PROVE  /\ div'.state = "READ_PKT" => b + 2 <= g2[Current' - 1] + pos'
                      /\ div'.state = "TRANS_PKT" => b + 1 <= g2[Current' - 1] + pos'
  BY DEF AheadInv
<1>4. ~start
  <2>1. start => sent' = Append(sent, packet') /\ packet' \in Payloads
    BY SourceStep
  <2>2. start => Len(sent') = Len(sent) + 1
    <3>1. SUFFICES ASSUME start PROVE Len(sent') = Len(sent) + 1
      OBVIOUS
    <3>2. PICK y \in Payloads : y = packet'
      BY <2>1, <3>1
    <3> QED
      BY <2>1, <3>1, <3>2 DEF TypeInv
  <2> HIDE DEF Current
  <2> QED
    BY <1>1, <1>3, <2>2
<1>5. PktValid /\ sent' = sent /\ pos' = pos + 1 /\ pos >= 1
  <2>1. sent' = sent /\ packet' = packet /\ pos' = IF PktValid THEN pos + 1 ELSE pos
    BY <1>4, SourceStep
  <2>2. PktValid
    BY <1>3, <2>1 DEF PktValid, WordsOf
  <2>3. pos \in 1 .. WordsOf(packet) /\ WordsOf(packet) \in Nat
    BY <2>2, ComingOk
  <2> QED
    BY <2>1, <2>2, <2>3
<1>6. CASE Padded
  <2>1. div'.state = "READ_PKT" /\ div.state = "PAD_PKT_TAG" /\ ~Takes
    BY <1>6 DEF Padded, Takes
  <2>2. Current >= 1 /\ a = g[Current - 1] /\ b = a /\ Current' = Current
    BY <1>1, <1>2, <2>1 DEF DivInv, Busy
  <2>3. PICK x \in Nat : x = g[Current - 1] /\ x = g2[Current' - 1]
    BY <1>1, <2>2
  <2>4. b = x /\ pos' = pos + 1 /\ pos >= 1
    BY <1>5, <2>2, <2>3
  <2>5. b + 2 <= x + pos'
    BY ONLY <1>2, <2>4, x \in Nat
  <2> QED
    BY <2>1, <2>3, <2>5
<1>7. CASE Reads \/ Sends
  <2>1. /\ ~Takes /\ div.state \in {"READ_PKT", "TRANS_PKT"}
        /\ div'.state = "READ_PKT" => div.state = "TRANS_PKT"
        /\ div'.state = "TRANS_PKT" =>
             div.state \in {"READ_PKT", "TRANS_PKT"}
    BY <1>7 DEF Reads, Sends, Takes
  <2>2. Current >= 1 /\ Current' = Current /\ Current = Len(sent)
    BY <1>1, <1>3, <1>5, <2>1 DEF DivInv, Busy
  <2>3. PICK x \in Nat : x = g[Current - 1] /\ x = g2[Current' - 1]
    BY <1>1, <2>2
  <2>4. /\ div.state = "READ_PKT" => a + 2 <= x + pos /\ b = a + 1
        /\ div.state = "TRANS_PKT" => a + 1 <= x + pos /\ b = a
    BY <1>2, <1>5, <2>2, <2>3 DEF AheadInv
  <2>5. /\ div.state = "READ_PKT" => b + 1 <= x + (pos + 1)
        /\ div.state = "TRANS_PKT" => b + 2 <= x + (pos + 1) /\ b + 1 <= x + (pos + 1)
    BY ONLY <1>2, <2>4, x \in Nat
  <2> QED
    BY <1>5, <2>1, <2>3, <2>5
<1>8. CASE Rests \/ Takes \/ Pads \/ Ends \/ Waits \/ Waited
  BY <1>8 DEF Rests, Takes, Pads, Ends, Waits, Waited
<1> QED
  BY <1>6, <1>7, <1>8 DEF Moves

(* The bytes of a packet come into gmii_data behind the preamble. *)
LEMMA DataStep ==
  ASSUME TypeInv, SourceInv, FifoSound, Moves, NEW f, NEW g, NEW a, Sums(f, g), WordsInv(g, a),
         DivInv(g, a), Busy => Emitted \in Nat, Busy, Busy'
  PROVE  valid' /\ data' = FrameByte(Bytes, Emitted + 1)
<1> DEFINE c == Current
<1>1. Pads \/ Padded \/ Reads \/ Sends
  BY DEF Moves, Busy, Rests, Takes, Ends, Waits, Waited
<1>2. /\ c \in 1 .. Len(sent) /\ Bytes \in Payloads /\ Bytes = sent[c] /\ Len(sent) \in Nat
  BY CurrentOk DEF DivInv, Bytes
<1>3. PICK x \in Nat, u \in Nat : x = g[c - 1] /\ u = WordsOf(Bytes) /\ g[c] = x + u
  <2>1. /\ \A k \in 0 .. Len(sent) : g[k] \in Nat
        /\ \A k \in 1 .. Len(sent) : g[k] = g[k - 1] + WordsOf(sent[k])
    BY SumsOk
  <2>2. c - 1 \in 0 .. Len(sent)
    BY <1>2
  <2>3. WordsOf(Bytes) \in Nat
    BY <1>2, PayloadOk
  <2> QED
    BY <1>2, <2>1, <2>2, <2>3
<1>4. W \in Nat /\ W >= 2 /\ a \in Nat
  BY Sizes DEF WordsInv, Pre, Wait
<1>5. ASSUME Pads PROVE valid' /\ data' = FrameByte(Bytes, Emitted + 1)
  <2>1. valid' /\ data' = X55 /\ Emitted = div.cntHead /\ div.cntHead \in 0 .. 7 /\ div.cntHead < 7
    BY <1>5 DEF Pads, Emitted, TypeInv
  <2>2. Emitted + 1 < 8
    BY <2>1
  <2> HIDE DEF Emitted
  <2> QED
    BY <2>1, <2>2 DEF FrameByte, Pre
<1>6. ASSUME Padded PROVE valid' /\ data' = FrameByte(Bytes, Emitted + 1)
  <2>1. valid' /\ data' = XD5 /\ Emitted = 7
    BY <1>6 DEF Padded, Emitted
  <2> HIDE DEF Emitted
  <2> QED
    BY <2>1 DEF FrameByte, Pre
<1>7. ASSUME NEW k \in 1 .. u, NEW i \in Nat,
             Emitted = 8 + W * (k - 1) + i, i <= Word(Bytes, k).valid
      PROVE  FrameByte(Bytes, Emitted + 1) = Word(Bytes, k).bytes[i]
  <2>1. k \in 1 .. WordsOf(Bytes) /\ k - 1 \in Nat
    BY <1>3
  <2>2. Word(Bytes, k).valid \in 0 .. W - 1
    <3>1. Word(Bytes, k) \in WordRec
      BY <1>2, <2>1, WordOk
    <3> QED
      BY <3>1 DEF WordRec
  <2>3. i \in 0 .. Word(Bytes, k).valid
    BY <1>4, <1>7, <2>2
  <2>4. Word(Bytes, k).bytes[i] = Bytes[W * (k - 1) + i + 1]
    BY <1>2, <2>1, <2>3, WordOk
  <2>5. PICK y \in Nat : y = W * (k - 1)
    BY <1>4, <2>1
  <2>6. Emitted + 1 = 8 + y + i + 1
    BY <1>7, <2>5
  <2>7. PICK e \in Nat : e = Emitted + 1 /\ e = 8 + y + i + 1
    BY <2>6
  <2>8. ~(e < 8) /\ e # 8 /\ e - 8 = y + i + 1
    BY <2>7
  <2>9. FrameByte(Bytes, e) = Bytes[y + i + 1]
    BY <2>8 DEF FrameByte, Pre
  <2> QED
    BY <2>4, <2>5, <2>7, <2>9
<1>8. ASSUME Reads PROVE valid' /\ data' = FrameByte(Bytes, Emitted + 1)
  <2>1. valid' /\ data' = Dout.bytes[0] /\ div.state = "READ_PKT"
    BY <1>8 DEF Reads
  <2>2. x <= a /\ a < x + u /\ Emitted = 8 + W * (a - x)
    BY <1>3, <2>1 DEF DivInv, Pre
  <2>3. PICK k \in 1 .. u : k = a - x + 1
    <3>1. a - x + 1 \in 1 .. u
      BY ONLY <1>4, <2>2, x \in Nat, u \in Nat
    <3> QED
      BY <3>1
  <2>4. k - 1 = a - x /\ k \in Nat /\ a + 1 = x + k /\ k - 1 \in Nat /\ a + 1 - x = k
    <3>1. k \in Nat /\ k >= 1
      BY ONLY k \in 1 .. u, u \in Nat
    <3> QED
      BY ONLY <1>4, <2>2, <2>3, <3>1, x \in Nat
  <2>5. Dout = Word(Bytes, k)
    <3>1. fifo # << >> /\ fifo \in Seq(WordRec)
      BY <2>1 DEF FifoSound, TypeInv
    <3>2. Dout = fifo[1] /\ 1 \in 1 .. Len(fifo)
      BY <3>1 DEF Dout
    <3>3. g[c - 1] < a + 1 /\ a + 1 <= g[c]
      <4>1. x < a + 1 /\ a + 1 <= x + u
        BY ONLY <1>4, <2>2, x \in Nat, u \in Nat
      <4> QED
        BY <1>3, <4>1
    <3>4. fifo[1] = Word(sent[c], a + 1 - g[c - 1])
      BY <1>2, <3>2, <3>3 DEF WordsInv
    <3>5. a + 1 - g[c - 1] = k
      BY <1>3, <2>4
    <3> QED
      BY <1>2, <3>2, <3>4, <3>5
  <2>6. Emitted = 8 + W * (k - 1) + 0
    <3>1. PICK y \in Nat : y = W * (k - 1)
      BY <1>4, <2>4
    <3> QED
      BY <2>2, <2>4, <3>1
  <2>7. 0 <= Word(Bytes, k).valid
    <3>1. k \in 1 .. WordsOf(Bytes)
      BY <1>3
    <3>2. Word(Bytes, k) \in WordRec
      BY <1>2, <3>1, WordOk
    <3> QED
      BY <1>4, <3>2 DEF WordRec
  <2>8. FrameByte(Bytes, Emitted + 1) = Word(Bytes, k).bytes[0]
    BY <1>7, <2>6, <2>7
  <2> QED
    BY <2>1, <2>5, <2>8
<1>9. ASSUME Sends PROVE valid' /\ data' = FrameByte(Bytes, Emitted + 1)
  <2>1. /\ valid' /\ data' = div.word.bytes[div.cntGmii + 1] /\ div.state = "TRANS_PKT"
        /\ div.cntValid >= 1
    BY <1>9 DEF Sends
  <2>2. /\ x < a /\ a <= x + u /\ Emitted = 8 + W * (a - 1 - x) + div.cntGmii + 1
        /\ div.word = Word(Bytes, a - x) /\ div.cntValid + div.cntGmii = div.word.valid
    BY <1>3, <2>1 DEF DivInv, Pre
  <2>3. div.cntGmii \in 0 .. W - 1 /\ div.cntValid \in 0 .. W - 1
    BY DEF TypeInv
  <2>4. PICK k \in 1 .. u : k = a - x
    <3>1. a - x \in 1 .. u
      BY ONLY <1>4, <2>2, x \in Nat, u \in Nat
    <3> QED
      BY <3>1
  <2>5. k - 1 = a - 1 - x /\ k - 1 \in Nat
    <3>1. k \in Nat /\ k >= 1
      BY ONLY k \in 1 .. u, u \in Nat
    <3> QED
      BY ONLY <1>4, <2>4, <3>1, x \in Nat
  <2>6. PICK i \in Nat, v \in Nat, y \in Nat : i = div.cntGmii /\ v = div.cntValid /\ y = W * (k - 1)
    <3>1. W * (k - 1) \in Nat
      BY <1>4, <2>5
    <3> QED
      BY <1>4, <2>3, <3>1
  <2>7. Emitted = 8 + W * (k - 1) + (i + 1)
    <3>1. Emitted = 8 + y + i + 1
      BY <2>2, <2>5, <2>6
    <3>2. Emitted = 8 + y + (i + 1)
      BY ONLY <3>1, y \in Nat, i \in Nat
    <3> QED
      BY <2>6, <3>2
  <2>8. i + 1 <= Word(Bytes, k).valid
    BY <2>1, <2>2, <2>4, <2>6
  <2>9. FrameByte(Bytes, Emitted + 1) = Word(Bytes, k).bytes[i + 1]
    <3>1. i + 1 \in Nat
      BY <2>6
    <3> QED
      BY <1>7, <2>7, <2>8, <3>1
  <2> QED
    BY <2>1, <2>2, <2>4, <2>6, <2>9
<1> QED
  BY <1>1, <1>5, <1>6, <1>8, <1>9

(* The registers around ctrl_state. *)
CrcRec == [state : {"IDLE", "RCV", "CRC", "OUT"}, dv : BOOLEAN, cnt : 0 .. 3,
           next : SUBSET (0 .. 31), en : BOOLEAN, data : Byte]

(* A clock keeps them, and the register of the receiver, in range. *)
LEMMA CrcType ==
  ASSUME TypeInv, Crc, Record
  PROVE  crc' \in CrcRec /\ remainder' \in SUBSET (0 .. 31)
<1>1. crc \in CrcRec /\ data \in Byte /\ valid \in BOOLEAN /\ remainder \in SUBSET (0 .. 31)
  BY DEF TypeInv, CrcRec
<1>2. \A k : LastCrc(k) \in Byte
  BY DEF LastCrc, Byte
<1>3. \A p, q : NextCrc(p, q) \in SUBSET (0 .. 31)
  BY DEF NextCrc
<1>4. \A p, q : Divided(p, q) \in SUBSET (0 .. 31)
  BY DEF Divided
<1>5. remainder' \in SUBSET (0 .. 31)
  BY <1>1, <1>4 DEF Record
<1>6. CASE CrcIdle
  BY <1>1, <1>5, <1>6 DEF CrcIdle, CrcRec
<1>7. CASE CrcReceive
  BY <1>1, <1>5, <1>7 DEF CrcReceive, CrcRec
<1>8. CASE CrcSum
  <2>1. PICK z \in SUBSET (0 .. 31), y \in Byte : z = NextCrc(crc.next, data) /\ y = LastCrc(0)
    BY <1>2, <1>3
  <2>2. crc' = IF crc.dv /\ ~valid
               THEN [crc EXCEPT !.dv = valid, !.en = TRUE, !.data = y, !.state = "OUT"]
               ELSE [crc EXCEPT !.dv = valid, !.en = valid, !.data = data, !.next = z]
    BY <1>1, <1>8, <2>1 DEF CrcSum, CrcRec
  <2> QED
    BY <1>1, <1>5, <2>2 DEF CrcRec
<1>9. CASE CrcOut
  <2>1. PICK y \in Byte : y = LastCrc(crc.cnt + 1)
    BY <1>2
  <2>2. {} \in Byte /\ crc.cnt \in 0 .. 3 /\ 0 .. 31 \in SUBSET (0 .. 31)
    BY <1>1 DEF Byte, CrcRec
  <2>3. CASE crc.cnt < 3
    <3>1. crc' = [crc EXCEPT !.dv = valid, !.en = TRUE, !.data = y, !.cnt = crc.cnt + 1]
      BY <1>1, <1>9, <2>1, <2>3 DEF CrcOut, CrcRec
    <3>2. PICK m \in 0 .. 3 : m = crc.cnt + 1
      BY <2>2, <2>3
    <3> QED
      BY <1>1, <1>5, <3>1, <3>2 DEF CrcRec
  <2>4. CASE ~(crc.cnt < 3)
    <3>1. PICK z \in Byte, x \in SUBSET (0 .. 31), c \in 0 .. 3 : z = {} /\ x = 0 .. 31 /\ c = 0
      <4>1. {} \in Byte /\ 0 \in 0 .. 3
        BY DEF Byte
      <4>2. \E x \in SUBSET (0 .. 31) : x = 0 .. 31
        OBVIOUS
      <4>3. \E c \in 0 .. 3 : c = 0
        BY <4>1
      <4>4. \E z \in Byte : z = {}
        BY <4>1
      <4> QED
        BY ONLY <4>2, <4>3, <4>4, Zenon
    <3>2. crc' = [crc EXCEPT !.dv = valid, !.en = FALSE, !.data = z, !.cnt = c,
                             !.next = x, !.state = "IDLE"]
      BY <1>9, <2>4, <3>1 DEF CrcOut
    <3>3. crc \in CrcRec /\ valid \in BOOLEAN
      BY <1>1
    <3>4. crc' \in CrcRec
      BY ONLY <3>2, <3>3, z \in Byte, x \in SUBSET (0 .. 31), c \in 0 .. 3 DEF CrcRec
    <3> QED
      BY <1>5, <3>4
  <2> QED
    BY <2>3, <2>4
<1> QED
  BY <1>6, <1>7, <1>8, <1>9 DEF Crc

(* One byte more is on the wire. *)
LEMMA ShowStep ==
  ASSUME TypeInv, Record, crc.en, Bytes' = Bytes, Len(Bytes) \in Nat, NEW m \in Nat,
         (m = 0 /\ quiet = Ifg) \/ (m >= 1 /\ Shows(m) /\ quiet = 0),
         m + 1 <= Pre + Len(Bytes) => crc.data = FrameByte(Bytes, m + 1)
  PROVE  /\ Shows(m + 1)' /\ quiet' = 0
         /\ remainder' = IF m < 8 THEN 0 .. 31 ELSE Divided(remainder, crc.data)
<1>1. quiet # Ifg => wire # << >>
  BY DEF Shows, Ifg
<1>2. quiet' = 0
  BY DEF Record
<1>3. CASE m = 0 /\ quiet = Ifg
  <2>1. wire' # << >> /\ Len(Last(wire')) = 1 /\ Last(wire')[1] = crc.data
    BY <1>3, <1>1, WireStep
  <2>2. \A k \in 1 .. 1 : k <= Pre + Len(Bytes) => Last(wire')[k] = FrameByte(Bytes, k)
    BY <1>3, <2>1
  <2>3. Shows(0 + 1)'
    BY <2>1, <2>2 DEF Shows, FrameByte, Pre
  <2> QED
    BY <1>2, <1>3, <2>3 DEF Record
<1>4. CASE m >= 1 /\ Shows(m) /\ quiet = 0
  <2>1. wire # << >> /\ Len(Last(wire)) = m
        /\ \A k \in 1 .. m : k <= Pre + Len(Bytes) => Last(wire)[k] = FrameByte(Bytes, k)
    BY <1>4 DEF Shows
  <2>2. /\ wire' # << >> /\ Len(Last(wire')) = m + 1
        /\ Last(wire')[m + 1] = crc.data
        /\ \A k \in 1 .. m : Last(wire')[k] = Last(wire)[k]
    BY <1>4, <2>1, WireStep DEF Ifg
  <2>3. ASSUME NEW k \in 1 .. m + 1, k <= Pre + Len(Bytes)
        PROVE  Last(wire')[k] = FrameByte(Bytes, k)
    <3>1. k \in 1 .. m \/ k = m + 1
      OBVIOUS
    <3> QED
      BY <2>1, <2>2, <2>3, <3>1
  <2>4. Shows(m + 1)'
    BY <2>2, <2>3 DEF Shows, FrameByte, Pre
  <2> QED
    BY <1>2, <1>4, <2>1, <2>4 DEF Record, Ifg, Pre
<1> QED
  BY <1>3, <1>4

(* The CRC while a packet is divided. *)
LEMMA RunStep ==
  ASSUME TypeInv, Record, Crc, Bytes' = Bytes, Len(Bytes) \in Nat, NEW n \in Nat, n >= 2,
         n <= Pre + Len(Bytes), CrcRuns(n - 1), valid, data = FrameByte(Bytes, n),
         n = 2 => quiet = Ifg, n >= 3 => Shows(n - 2) /\ quiet = 0,
         n \in 3 .. 10 => remainder = 0 .. 31
  PROVE  /\ CrcRuns(n)' /\ Shows(n - 1)' /\ quiet' = 0
         /\ n <= 9 => remainder' = 0 .. 31
<1>1. /\ crc \in CrcRec /\ data \in Byte /\ valid \in BOOLEAN /\ remainder \in SUBSET (0 .. 31)
  BY DEF TypeInv, CrcRec
<1>2. PICK m \in Nat : m = n - 2 /\ n = m + 2 /\ n - 1 = m + 1
  OBVIOUS
<1>3. /\ crc.dv /\ crc.en /\ crc.cnt = 0 /\ crc.data = FrameByte(Bytes, m + 1)
      /\ crc.state = (IF m + 1 < 8 THEN "RCV" ELSE "CRC")
      /\ crc.next = IF m + 1 <= 8 THEN 0 .. 31 ELSE NextCrc(remainder, crc.data)
  BY <1>2 DEF CrcRuns, Pre
<1>4. (m = 0 /\ quiet = Ifg) \/ (m >= 1 /\ Shows(m) /\ quiet = 0)
  BY <1>2
<1>5. /\ Shows(m + 1)' /\ quiet' = 0
      /\ remainder' = IF m < 8 THEN 0 .. 31 ELSE Divided(remainder, crc.data)
  BY <1>3, <1>4, ShowStep
<1>6. FrameByte(Bytes, n) = XD5 <=> n = 8 \/ (n > 8 /\ Bytes[n - 8] = XD5)
  <2>1. X55 # XD5
    <3>1. 7 \in XD5 /\ 7 \notin X55
      BY DEF X55, XD5
    <3> QED
      BY <3>1
  <2>2. FrameByte(Bytes, n) = IF n < 8 THEN X55 ELSE IF n = 8 THEN XD5 ELSE Bytes[n - 8]
    BY DEF FrameByte, Pre
  <2>3. n \in Nat
    OBVIOUS
  <2> QED
    BY ONLY <2>1, <2>2, <2>3
<1>7. m >= 8 => remainder' = crc.next
  <2>1. SUFFICES ASSUME m >= 8 PROVE remainder' = crc.next
    OBVIOUS
  <2>2. crc.data \in Byte
    BY <1>1 DEF CrcRec
  <2>3. NextCrc(remainder, crc.data) = Divided(remainder, crc.data)
    BY <2>2, CrcIsTheDivision
  <2>4. ~(m + 1 <= 8) /\ ~(m < 8)
    BY <2>1
  <2> QED
    BY <1>3, <1>5, <2>3, <2>4
<1>8. CASE m + 1 < 8
  <2>1. crc' = [crc EXCEPT !.dv = valid, !.en = valid, !.data = data,
                        !.state = IF valid /\ data = XD5 THEN "CRC" ELSE @]
    BY <1>3, <1>8 DEF Crc, CrcIdle, CrcReceive, CrcSum, CrcOut
  <2>2. n <= 8
    BY <1>2, <1>8
  <2>3. data = XD5 <=> n = 8
    BY <1>6, <2>2
  <2>4. /\ crc'.dv /\ crc'.en /\ crc'.cnt = 0 /\ crc'.data = FrameByte(Bytes, n)
        /\ crc'.state = (IF n < 8 THEN "RCV" ELSE "CRC") /\ crc'.next = 0 .. 31
    BY <1>1, <1>3, <1>8, <2>1, <2>2, <2>3 DEF CrcRec
  <2>5. CrcRuns(n)'
    BY <2>2, <2>4 DEF CrcRuns, Pre, FrameByte
  <2> QED
    BY <1>2, <1>5, <1>8, <2>5
<1>9. CASE ~(m + 1 < 8)
  <2>1. crc' = [crc EXCEPT !.dv = valid, !.en = valid, !.data = data, !.next = NextCrc(@, data)]
    BY <1>3, <1>9 DEF Crc, CrcIdle, CrcReceive, CrcSum, CrcOut
  <2>2. /\ crc'.dv /\ crc'.en /\ crc'.cnt = 0 /\ crc'.data = FrameByte(Bytes, n)
        /\ crc'.state = "CRC" /\ crc'.next = NextCrc(crc.next, crc'.data)
    <3>1. PICK z \in SUBSET (0 .. 31) : z = NextCrc(crc.next, data)
      BY DEF NextCrc
    <3>2. crc' = [crc EXCEPT !.dv = valid, !.en = valid, !.data = data, !.next = z]
      BY <1>1, <2>1, <3>1 DEF CrcRec
    <3>3. crc'.data = data /\ crc'.next = z /\ crc'.dv = valid /\ crc'.en = valid /\ crc'.cnt = 0
          /\ crc'.state = "CRC"
      BY <1>1, <1>3, <1>9, <3>2 DEF CrcRec
    <3> QED
      BY <3>1, <3>3
  <2>3. remainder' = crc.next
    <3>1. m < 8 => crc.next = 0 .. 31 /\ remainder' = 0 .. 31
      BY <1>3, <1>5, <1>9
    <3>2. m < 8 \/ m >= 8
      BY <1>2
    <3>3. CASE m < 8
      BY <3>1, <3>3
    <3>4. CASE m >= 8
      BY <1>7, <3>4
    <3> QED
      BY <3>2, <3>3, <3>4
  <2>4. ~(n < 8) /\ ~(n <= 8)
    BY <1>2, <1>9
  <2>5. CrcRuns(n)'
    BY <2>2, <2>3, <2>4 DEF CrcRuns, Pre, FrameByte
  <2>6. n <= 9 => remainder' = 0 .. 31
    BY <1>2, <1>5
  <2> QED
    BY <1>2, <1>5, <2>5, <2>6
<1> QED
  BY <1>8, <1>9

(* The CRC machine at rest, and as it begins. *)
LEMMA ResetStep ==
  ASSUME TypeInv, Crc, Record, CrcReset
  PROVE  /\ wire' = wire /\ remainder' = remainder
         /\ quiet' = IF quiet < 10 THEN quiet + 1 ELSE quiet
         /\ ~valid => CrcReset'
         /\ valid => /\ crc'.dv /\ crc'.en /\ crc'.cnt = 0 /\ crc'.data = data
                     /\ crc'.state = "RCV" /\ crc'.next = 0 .. 31
<1>1. crc \in CrcRec /\ valid \in BOOLEAN
  BY DEF TypeInv, CrcRec
<1>2. crc.state = "IDLE" /\ ~crc.dv /\ ~crc.en /\ crc.cnt = 0 /\ crc.next = 0 .. 31
  BY DEF CrcReset
<1>3. crc' = IF valid
             THEN [crc EXCEPT !.dv = valid, !.en = TRUE, !.data = data, !.state = "RCV"]
             ELSE [crc EXCEPT !.dv = valid]
  BY <1>2 DEF Crc, CrcIdle, CrcReceive, CrcSum, CrcOut
<1>4. wire' = wire /\ remainder' = remainder /\ quiet' = IF quiet < 10 THEN quiet + 1 ELSE quiet
  BY <1>2 DEF Record, Ifg
<1>5. CASE valid
  BY <1>1, <1>2, <1>3, <1>4, <1>5 DEF CrcRec
<1>6. CASE ~valid
  BY <1>1, <1>2, <1>3, <1>4, <1>6 DEF CrcRec, CrcReset
<1> QED
  BY <1>5, <1>6

(* What is on its way to the wire while a packet is divided, after a clock. *)
LEMMA BusyStep ==
  ASSUME TypeInv, BusyInv, IdleInv, Moves, Crc, Record,
         Busy => Emitted \in Nat /\ Len(Bytes) \in Nat,
         Takes => Emitted' = 0,
         Busy /\ Busy' => /\ Emitted' = Emitted + 1 /\ Bytes' = Bytes
                          /\ valid' /\ data' = FrameByte(Bytes, Emitted + 1),
         Busy => Emitted <= Pre + Len(Bytes)
  PROVE  BusyInv'
<1>1. SUFFICES ASSUME Busy' PROVE BusyInv'
  BY DEF BusyInv
<1>2. quiet \in 0 .. 10
  BY DEF TypeInv, Ifg
<1>3. CASE Takes
  <2>1. div.state = "IDLE" /\ valid' = valid /\ Emitted' = 0
    BY <1>3 DEF Takes
  <2>2. ~valid /\ CrcReset /\ quiet >= 7
    BY <2>1 DEF IdleInv
  <2>3. CrcReset' /\ quiet' = IF quiet < 10 THEN quiet + 1 ELSE quiet
    BY <2>2, ResetStep
  <2>4. quiet' >= 8
    BY <1>2, <2>2, <2>3
  <2>5. PICK e : e = Emitted' /\ e = 0
    BY <2>1
  <2> QED
    BY <2>1, <2>2, <2>3, <2>4, <2>5 DEF BusyInv, Ifg
<1>4. CASE Busy
  <2>1. PICK n \in Nat : n = Emitted
    BY <1>4
  <2>2. /\ n \in Nat /\ Len(Bytes) \in Nat /\ n <= Pre + Len(Bytes)
        /\ Emitted' = n + 1 /\ Bytes' = Bytes
        /\ valid' /\ data' = FrameByte(Bytes, n + 1)
    BY <1>1, <1>4, <2>1
  <2>3. /\ valid <=> n >= 1
        /\ n >= 1 => data = FrameByte(Bytes, n)
        /\ n <= 1 => CrcReset
        /\ n <= 2 => quiet >= 10 + n - 2
        /\ n >= 2 => CrcRuns(n - 1)
        /\ n >= 3 => Shows(n - 2) /\ quiet = 0
        /\ n \in 3 .. 10 => remainder = 0 .. 31
    BY <1>4, <2>1 DEF BusyInv, Ifg, Pre
  <2>4. SUFFICES
          /\ n + 1 <= 1 => CrcReset'
          /\ n + 1 <= 2 => quiet' >= 10 + (n + 1) - 2
          /\ n + 1 >= 2 => CrcRuns(n)'
          /\ n + 1 >= 3 => Shows(n - 1)' /\ quiet' = 0
          /\ n + 1 \in 3 .. 10 => remainder' = 0 .. 31
    <3>1. (n + 1) - 1 = n /\ (n + 1) - 2 = n - 1 /\ n + 1 >= 1
      BY <2>2
    <3>2. PICK e : e = Emitted' /\ e = n + 1
      BY <2>2
    <3>3. e - 1 = n /\ e - 2 = n - 1
      BY <3>1, <3>2
    <3>4. Emitted' - 1 = n /\ Emitted' - 2 = n - 1
      BY <3>2, <3>3
    <3>5. data' = FrameByte(Bytes', Emitted')
      BY <2>2
    <3> HIDE DEF Emitted, FrameByte
    <3>6. /\ Emitted' >= 2 => CrcRuns(Emitted - 1)'
          /\ Emitted' >= 3 => Shows(Emitted - 2)'
      <4>1. CrcRuns(n)' => CrcRuns(Emitted - 1)'
        BY <3>4 DEF CrcRuns, FrameByte
      <4>2. Shows(n - 1)' => Shows(Emitted - 2)'
        BY <3>4 DEF Shows, FrameByte
      <4> QED
        BY <2>2, <2>4, <4>1, <4>2
    <3>7. (data = FrameByte(Bytes, Emitted))'
      BY <3>5 DEF FrameByte
    <3> QED
      BY <2>2, <2>4, <3>1, <3>6, <3>7 DEF BusyInv, Ifg, Pre
  <2>5. CASE n = 0
    <3>1. ~valid /\ CrcReset /\ quiet >= 8
      BY <2>3, <2>5
    <3>2. CrcReset' /\ quiet' = IF quiet < 10 THEN quiet + 1 ELSE quiet
      BY <3>1, ResetStep
    <3>3. quiet' >= 9
      BY <1>2, <3>1, <3>2
    <3> QED
      BY <2>5, <3>2, <3>3
  <2>6. CASE n = 1
    <3>1. valid /\ CrcReset /\ quiet >= 9 /\ data = FrameByte(Bytes, 1)
      BY <2>3, <2>6
    <3>2. /\ quiet' = IF quiet < 10 THEN quiet + 1 ELSE quiet
          /\ crc'.dv /\ crc'.en /\ crc'.cnt = 0 /\ crc'.data = data
          /\ crc'.state = "RCV" /\ crc'.next = 0 .. 31
      BY <3>1, ResetStep
    <3>3. quiet' >= 10
      BY <1>2, <3>1, <3>2
    <3>4. CrcRuns(1)'
      BY <2>2, <3>1, <3>2 DEF CrcRuns, FrameByte, Pre
    <3> QED
      BY <2>6, <3>3, <3>4
  <2>7. CASE n >= 2
    <3>1. valid /\ data = FrameByte(Bytes, n) /\ CrcRuns(n - 1)
      BY <2>2, <2>3, <2>7
    <3>2. n = 2 => quiet = 10
      BY <1>2, <2>3
    <3>3. n >= 3 => Shows(n - 2) /\ quiet = 0
      BY <2>3
    <3>4. n \in 3 .. 10 => remainder = 0 .. 31
      BY <2>3
    <3>5. /\ CrcRuns(n)' /\ Shows(n - 1)' /\ quiet' = 0
          /\ n <= 9 => remainder' = 0 .. 31
      BY <2>2, <2>7, <3>1, <3>2, <3>3, <3>4, RunStep DEF Ifg
    <3> QED
      BY <2>2, <2>7, <3>5
  <2> QED
    BY <2>2, <2>5, <2>6, <2>7
<1> QED
  BY <1>1, <1>3, <1>4 DEF Moves, Busy, Rests, Pads, Padded, Reads, Sends, Ends, Waits, Waited

(* The four bytes of the CRC, and the register of the receiver. *)
LEMMA BehindStep ==
  ASSUME crc.next \in SUBSET (0 .. 31)
  PROVE  /\ Behind(0) = crc.next
         /\ Divided(Behind(0), LastCrc(0)) = Behind(1)
         /\ Divided(Behind(1), LastCrc(1)) = Behind(2)
         /\ Divided(Behind(2), LastCrc(2)) = Behind(3)
         /\ Divided(Behind(3), LastCrc(3)) = Remainder
<1> DEFINE next == crc.next
<1>1. \A k : LastCrc(k) = Inverted(next, k)
  BY DEF LastCrc, Inverted
<1>2. Behind(0) = {i \in 0 .. 31 : (i \in {}) # (i - 8 * 0 \in next)}
  BY DEF Behind
<1>3. {i \in 0 .. 31 : (i \in {}) # (i - 8 * 0 \in next)} = next
  <2> HIDE DEF next
  <2>1. next \in SUBSET (0 .. 31)
    BY DEF next
  <2>2. ASSUME NEW i \in 0 .. 31 PROVE (i \in {}) # (i - 8 * 0 \in next) <=> i \in next
    <3>1. i - 8 * 0 = i
      OBVIOUS
    <3> QED
      BY <3>1
  <2> QED
    BY <2>1, <2>2
<1>4. Behind(1) = {i \in 0 .. 31 : (i \in Left1) # (i - 8 \in next)}
  BY DEF Behind
<1>5. Behind(2) = {i \in 0 .. 31 : (i \in Left2) # (i - 16 \in next)}
  BY DEF Behind
<1>6. Behind(3) = {i \in 0 .. 31 : (i \in Left3) # (i - 24 \in next)}
  BY DEF Behind
<1>7. PICK y \in SUBSET (0 .. 31) : y = next
  OBVIOUS
<1>8. \A k : LastCrc(k) = Inverted(y, k)
  BY <1>1, <1>7
<1>9. Behind(0) = y
  BY <1>2, <1>3, <1>7
<1>10. Divided(y, LastCrc(0)) = Behind(1)
  BY <1>4, <1>7, <1>8, CrcByte0
<1>11. Divided(Behind(1), LastCrc(1)) = Behind(2)
  BY <1>4, <1>5, <1>7, <1>8, CrcByte1
<1>12. Divided(Behind(2), LastCrc(2)) = Behind(3)
  BY <1>5, <1>6, <1>7, <1>8, CrcByte2
<1>13. Divided(Behind(3), LastCrc(3)) = Remainder
  BY <1>6, <1>7, <1>8, CrcByte3
<1> QED
  BY <1>7, <1>9, <1>10, <1>11, <1>12, <1>13

(* What is on its way during WAIT_S, when the CRC leaves, after a clock. *)
LEMMA WaitStep ==
  ASSUME TypeInv, BusyInv, WaitInv, Moves, Crc, Record,
         Ends => Emitted = Pre + Len(Bytes),
         Busy \/ div.state = "WAIT" => Len(Bytes) \in Nat /\ Len(Bytes) >= 2,
         (Busy \/ div.state = "WAIT") /\ div'.state = "WAIT" => Bytes' = Bytes
  PROVE  WaitInv'
<1>1. SUFFICES ASSUME div'.state = "WAIT" PROVE WaitInv'
  BY DEF WaitInv
<1>2. /\ crc \in CrcRec /\ data \in Byte /\ valid \in BOOLEAN /\ quiet \in 0 .. 10
      /\ crc.next \in SUBSET (0 .. 31) /\ crc.data \in Byte
  BY DEF TypeInv, CrcRec, Ifg
<1>3. CASE Ends
  <2>1. div.state = "TRANS_PKT" /\ Busy /\ div'.cntWait = 0 /\ ~valid'
    BY <1>3 DEF Ends, Busy
  <2>2. PICK n \in Nat : n = Pre + Len(Bytes) /\ n = Emitted /\ n >= 10
    BY <1>3, <2>1 DEF Pre
  <2>3. Bytes' = Bytes /\ Len(Bytes) \in Nat /\ n <= Pre + Len(Bytes)
    BY <1>1, <2>1, <2>2
  <2>4. valid /\ data = FrameByte(Bytes, n) /\ CrcRuns(n - 1) /\ Shows(n - 2) /\ quiet = 0
        /\ (n \in 3 .. 10 => remainder = 0 .. 31)
    <3>1. Emitted >= 1 /\ Emitted >= 2 /\ Emitted >= 3
      BY <2>2
    <3>2. /\ valid /\ data = FrameByte(Bytes, Emitted) /\ CrcRuns(Emitted - 1)
          /\ Shows(Emitted - 2) /\ quiet = 0
          /\ Emitted \in 3 .. 10 => remainder = 0 .. 31
      BY <2>1, <3>1 DEF BusyInv, Pre
    <3> QED
      BY <2>2, <3>2
  <2>5. CrcRuns(n)' /\ Shows(n - 1)' /\ quiet' = 0
    BY <2>2, <2>3, <2>4, RunStep
  <2>6. PICK w : w = div'.cntWait /\ w = 0
    BY <2>1
  <2>7. n = Pre + Len(Bytes')
    BY <2>2, <2>3
  <2>8. CrcRuns(Pre + Len(Bytes))' /\ Shows((Pre + Len(Bytes)) - 1)'
    <3>1. CrcRuns(Pre + Len(Bytes))'
      BY <2>5, <2>7 DEF CrcRuns, FrameByte
    <3>2. Shows((Pre + Len(Bytes)) - 1)'
      <4>1. (Pre + Len(Bytes')) - 1 = n - 1
        BY <2>7
      <4> QED
        BY <2>5, <4>1 DEF Shows, FrameByte
    <3> QED
      BY <3>1, <3>2
  <2>9. ~(div'.cntWait \in 1 .. 4) /\ ~(div'.cntWait >= 5)
    BY <2>6
  <2> QED
    BY <2>1, <2>5, <2>8, <2>9 DEF WaitInv
<1>4. CASE Waits
  <2>1. div.state = "WAIT" /\ div'.cntWait = div.cntWait + 1 /\ div.cntWait < 11 /\ valid' = valid
    BY <1>4 DEF Waits
  <2>2. PICK n \in Nat : n = Pre + Len(Bytes) /\ n >= 10
    BY <2>1 DEF Pre
  <2>3. Bytes' = Bytes /\ Len(Bytes) \in Nat
    BY <1>1, <2>1
  <2>4. PICK w \in 0 .. 10 : w = div.cntWait
    <3>1. div.cntWait \in 0 .. 12
      BY DEF TypeInv, Wait
    <3> QED
      BY <2>1, <3>1
  <2>5. /\ ~valid
        /\ w = 0 => CrcRuns(n) /\ Shows(n - 1) /\ quiet = 0
        /\ w \in 1 .. 4 =>
             /\ crc.state = "OUT" /\ ~crc.dv /\ crc.en /\ crc.cnt = w - 1
             /\ crc.data = LastCrc(w - 1) /\ remainder = Behind(w - 1)
             /\ Shows(n + w - 1) /\ quiet = 0
        /\ w >= 5 => CrcReset /\ Shows(n + 4) /\ quiet = w - 5 /\ remainder = Remainder
    BY <2>1, <2>2, <2>4 DEF WaitInv
  <2>6. SUFFICES
          /\ w + 1 \in 1 .. 4 =>
               /\ crc'.state = "OUT" /\ ~crc'.dv /\ crc'.en /\ crc'.cnt = w
               /\ crc'.data = LastCrc(w)' /\ remainder' = Behind(w)'
               /\ Shows(n + w)' /\ quiet' = 0
          /\ w + 1 >= 5 => CrcReset' /\ Shows(n + 4)' /\ quiet' = w - 4 /\ remainder' = Remainder
    <3>1. PICK v : v = div'.cntWait /\ v = w + 1
      BY <2>1, <2>4
    <3>2. n = Pre + Len(Bytes') /\ v - 1 = w /\ n + v - 1 = n + w /\ v - 5 = w - 4 /\ v # 0
      <4>1. w \in Nat
        BY <2>4
      <4>2. v - 1 = w /\ v - 5 = w - 4 /\ v # 0
        BY ONLY <3>1, <4>1
      <4> QED
        BY <2>2, <2>3, <4>2
    <3>3. LastCrc(div.cntWait - 1)' = LastCrc(w)' /\ Behind(div.cntWait - 1)' = Behind(w)'
      BY <3>1, <3>2 DEF LastCrc, Behind
    <3>4. /\ Shows(n + w)' => Shows(Pre + Len(Bytes) + div.cntWait - 1)'
          /\ Shows(n + 4)' => Shows(Pre + Len(Bytes) + 4)'
      BY <3>1, <3>2 DEF Shows, FrameByte
    <3>5. ~valid'
      BY <2>1, <2>5
    <3> QED
      BY <2>6, <3>1, <3>2, <3>3, <3>4, <3>5 DEF WaitInv
  <2>7. CASE w = 0
    <3>1. /\ CrcRuns(n) /\ Shows(n - 1) /\ quiet = 0 /\ ~valid
      BY <2>5, <2>7
    <3>2. /\ crc.dv /\ crc.en /\ crc.cnt = 0 /\ crc.data = FrameByte(Bytes, n)
          /\ crc.state = "CRC" /\ crc.next = NextCrc(remainder, crc.data)
      BY <2>2, <3>1 DEF CrcRuns, Pre
    <3>3. crc' = [crc EXCEPT !.dv = valid, !.en = TRUE, !.data = LastCrc(0), !.state = "OUT"]
      BY <3>1, <3>2 DEF Crc, CrcIdle, CrcReceive, CrcSum, CrcOut
    <3>4. /\ crc'.dv = valid /\ crc'.en /\ crc'.cnt = 0 /\ crc'.data = LastCrc(0)
          /\ crc'.state = "OUT" /\ crc'.next = crc.next
      BY <1>2, <3>2, <3>3 DEF CrcRec
    <3>5. PICK m \in Nat : m = n - 1 /\ m >= 9 /\ n = m + 1
      BY <2>2
    <3>6. m + 1 <= Pre + Len(Bytes) => crc.data = FrameByte(Bytes, m + 1)
      BY <3>2, <3>5
    <3>7. /\ Shows(m + 1)' /\ quiet' = 0
          /\ remainder' = IF m < 8 THEN 0 .. 31 ELSE Divided(remainder, crc.data)
      BY <2>3, <3>1, <3>2, <3>5, <3>6, ShowStep
    <3>8. remainder' = crc.next
      <4>1. ~(m < 8)
        BY <3>5
      <4> QED
        BY <1>2, <3>2, <3>7, <4>1, CrcIsTheDivision
    <3>9. LastCrc(0)' = LastCrc(0)
      BY <3>4 DEF LastCrc
    <3>10. Behind(0)' = Behind(0) /\ Behind(0) = crc.next
      <4>1. Behind(0) = crc.next
        BY <1>2, BehindStep
      <4>2. Behind(0)' = Behind(0)
        BY <3>4 DEF Behind
      <4> QED
        BY <4>1, <4>2
    <3>11. n + w = m + 1
      BY <2>2, <2>7, <3>5
    <3> QED
      BY <2>7, <3>1, <3>4, <3>5, <3>7, <3>8, <3>9, <3>10, <3>11
  <2>8. CASE w \in 1 .. 4
    <3>1. /\ crc.state = "OUT" /\ ~crc.dv /\ crc.en /\ crc.cnt = w - 1 /\ ~valid
          /\ crc.data = LastCrc(w - 1) /\ remainder = Behind(w - 1)
          /\ Shows(n + w - 1) /\ quiet = 0
      BY <2>5, <2>8
    <3>2. PICK m \in Nat : m = n + w - 1 /\ m >= 10 /\ ~(m + 1 <= Pre + Len(Bytes)) /\ n + w = m + 1
      BY <2>2, <2>3, <2>8
    <3>3. /\ Shows(m + 1)' /\ quiet' = 0
          /\ remainder' = IF m < 8 THEN 0 .. 31 ELSE Divided(remainder, crc.data)
      BY <2>3, <3>1, <3>2, ShowStep
    <3>4. remainder' = Divided(Behind(w - 1), LastCrc(w - 1))
      BY <3>1, <3>2, <3>3
    <3>5. CASE w < 4
      <4>1. w \in {1, 2, 3} /\ crc.cnt < 3 /\ crc.cnt + 1 = w
        BY <2>8, <3>1, <3>5
      <4>2. crc' = [crc EXCEPT !.dv = valid, !.en = TRUE, !.data = LastCrc(w), !.cnt = w]
        <5>1. crc' = [crc EXCEPT !.dv = valid, !.en = TRUE, !.data = LastCrc(crc.cnt + 1),
                                 !.cnt = crc.cnt + 1]
          BY <1>2, <3>1, <4>1 DEF Crc, CrcIdle, CrcReceive, CrcSum, CrcOut, CrcRec
        <5> QED
          BY <4>1, <5>1
      <4>3. /\ crc'.dv = valid /\ crc'.en /\ crc'.cnt = w /\ crc'.data = LastCrc(w)
            /\ crc'.state = "OUT" /\ crc'.next = crc.next
        BY <1>2, <3>1, <4>2 DEF CrcRec
      <4>4. LastCrc(w)' = LastCrc(w) /\ Behind(w)' = Behind(w)
        BY <4>3 DEF LastCrc, Behind
      <4>5. remainder' = Behind(w)
        <5>1. /\ Divided(Behind(0), LastCrc(0)) = Behind(1)
              /\ Divided(Behind(1), LastCrc(1)) = Behind(2)
              /\ Divided(Behind(2), LastCrc(2)) = Behind(3)
          BY <1>2, BehindStep
        <5>2. CASE w = 1
          BY <3>4, <5>1, <5>2
        <5>3. CASE w = 2
          BY <3>4, <5>1, <5>3
        <5>4. CASE w = 3
          BY <3>4, <5>1, <5>4
        <5> QED
          BY <4>1, <5>2, <5>3, <5>4
      <4> QED
        BY <3>1, <3>2, <3>3, <3>5, <4>3, <4>4, <4>5
    <3>6. CASE ~(w < 4)
      <4>1. w = 4 /\ ~(crc.cnt < 3)
        BY <2>8, <3>1, <3>6
      <4>2. crc' = [crc EXCEPT !.dv = valid, !.en = FALSE, !.data = {}, !.cnt = 0,
                               !.next = 0 .. 31, !.state = "IDLE"]
        BY <3>1, <4>1 DEF Crc, CrcIdle, CrcReceive, CrcSum, CrcOut
      <4>3. /\ crc'.dv = valid /\ ~crc'.en /\ crc'.cnt = 0 /\ crc'.next = 0 .. 31
            /\ crc'.state = "IDLE"
        BY <1>2, <4>2 DEF CrcRec
      <4>4. remainder' = Remainder
        BY <1>2, <3>4, <4>1, BehindStep
      <4>5. m + 1 = n + 4
        BY <3>2, <4>1
      <4> QED
        BY <3>1, <3>3, <4>1, <4>3, <4>4, <4>5 DEF CrcReset
    <3> QED
      BY <3>5, <3>6
  <2>9. CASE w >= 5
    <3>1. CrcReset /\ Shows(n + 4) /\ quiet = w - 5 /\ remainder = Remainder /\ ~valid
      BY <2>5, <2>9
    <3>2. /\ wire' = wire /\ remainder' = remainder /\ CrcReset'
          /\ quiet' = IF quiet < 10 THEN quiet + 1 ELSE quiet
      BY <3>1, ResetStep
    <3>3. quiet' = w - 4
      BY <2>4, <3>1, <3>2
    <3>4. Shows(n + 4)'
      BY <2>3, <3>1, <3>2 DEF Shows, FrameByte
    <3> QED
      BY <2>9, <3>1, <3>2, <3>3, <3>4
  <2> QED
    BY <2>7, <2>8, <2>9
<1> QED
  BY <1>1, <1>3, <1>4 DEF Moves, Rests, Takes, Pads, Padded, Reads, Sends, Waited

(* Nothing is on its way when WAIT_S is over. *)
LEMMA IdleStep ==
  ASSUME TypeInv, IdleInv, WaitInv, Moves, Crc, Record
  PROVE  IdleInv'
<1>1. SUFFICES ASSUME div'.state = "IDLE" PROVE ~valid' /\ CrcReset' /\ quiet' >= 7
  BY DEF IdleInv
<1>2. quiet \in 0 .. 10
  BY DEF TypeInv, Ifg
<1>3. valid' = valid /\ ~valid /\ CrcReset /\ quiet >= 6
  <2>1. CASE Rests
    <3>1. div.state = "IDLE" /\ valid' = valid
      BY <2>1 DEF Rests
    <3>2. ~valid /\ CrcReset /\ quiet >= 7
      BY <3>1 DEF IdleInv
    <3> QED
      BY <1>2, <3>1, <3>2
  <2>2. CASE Waited
    BY <2>2 DEF Waited, WaitInv
  <2> QED
    BY <1>1, <2>1, <2>2 DEF Moves, Takes, Pads, Padded, Reads, Sends, Ends, Waits
<1>4. CrcReset' /\ quiet' = IF quiet < 10 THEN quiet + 1 ELSE quiet
  BY <1>3, ResetStep
<1>5. quiet' >= 7
  BY <1>2, <1>3, <1>4
<1> QED
  BY <1>3, <1>4, <1>5

(* A clock keeps the invariant. *)
LEMMA ClockStep ==
  ASSUME IInv, NEW start \in BOOLEAN, Clock(start)
  PROVE  IInv'
<1>1. TypeInv /\ SourceInv /\ BusyInv /\ WaitInv /\ IdleInv
  BY DEF IInv
<1>2. PICK f, g, a : Parts(f, g, a)
  BY DEF IInv
<1>3. /\ Sums(f, g) /\ WordsInv(g, a) /\ DivInv(g, a)
      /\ RateInv(f) /\ RoomInv(g, a) /\ AheadInv(g, a)
  BY <1>2 DEF Parts
<1>4. Source(start) /\ Fifo /\ Divide /\ Crc /\ Record
  BY DEF Clock
<1>5. FifoSound
  BY <1>1, <1>3, FifoHolds
<1>6. /\ sent' \in Seq(Payloads) /\ Len(sent) \in Nat /\ due' \in Nat /\ pos' \in Nat
      /\ SourceInv' /\ \A k \in 1 .. Len(sent) : sent'[k] = sent[k]
  BY <1>1, <1>4, SourceStep
<1>7. Len(sent') \in Nat /\ Len(sent) <= Len(sent')
  <2>1. start => packet' \in Payloads /\ sent' = Append(sent, packet')
    BY <1>1, <1>4, SourceStep
  <2>2. ~start => sent' = sent
    BY <1>1, <1>4, SourceStep
  <2>3. start => Len(sent') = Len(sent) + 1
    <3>1. SUFFICES ASSUME start PROVE Len(sent') = Len(sent) + 1
      OBVIOUS
    <3>2. PICK y \in Payloads : y = packet'
      BY <2>1, <3>1
    <3> QED
      BY <1>1, <2>1, <3>1, <3>2 DEF TypeInv
  <2> QED
    BY <1>6, <2>2, <2>3
<1>8. div.rden <=> div.state = "READ_PKT"
  BY <1>3 DEF DivInv
<1>9. /\ Moves
      /\ div' \in [state : {"IDLE", "PAD_PKT_TAG", "READ_PKT", "TRANS_PKT", "WAIT"},
                   rden : BOOLEAN, word : WordRec, cntValid : 0 .. W - 1,
                   cntGmii : 0 .. W - 1, cntHead : 0 .. 7, cntWait : 0 .. Wait]
      /\ data' \in Byte /\ valid' \in BOOLEAN
      /\ div'.rden <=> div'.state = "READ_PKT"
  BY <1>1, <1>3, <1>4, <1>5, DivMoves
<1>10. \A k \in 0 .. Len(sent) : f[k] \in Nat /\ g[k] \in Nat
  BY <1>1, <1>3, SumsOk
<1>11. Current >= 1 => g[Current - 1] \in Nat
  <2>1. Current \in 0 .. Len(sent)
    BY <1>3 DEF DivInv
  <2> HIDE DEF Current
  <2>2. Current >= 1 => Current - 1 \in 0 .. Len(sent)
    BY <1>6, <2>1
  <2> QED
    BY <1>10, <2>2
<1>12. /\ crc.en /\ quiet = Ifg <=> div.state = "PAD_PKT_TAG" /\ div.cntHead = 2
       /\ crc.en /\ quiet # Ifg => wire # << >> /\ quiet = 0
       /\ div.state \in {"READ_PKT", "TRANS_PKT"} => Emitted >= Pre /\ wire # << >>
  <2>1. a \in Nat
    BY <1>3 DEF WordsInv
  <2> QED
    BY <1>1, <1>3, <1>11, <2>1, Begins
<1>13. TypeInv'
  <2>1. fifo' \in Seq(WordRec) /\ Len(fifo') <= Cap
    <3>1. /\ fifo' \in Seq(WordRec) /\ Len(fifo) \in Nat
          /\ Len(fifo') + (IF div.rden THEN 1 ELSE 0) = Len(fifo) + (IF PktValid THEN 1 ELSE 0)
      BY <1>1, <1>4, <1>5, <1>8, FifoMoves
    <3>2. Len(fifo) <= Cap /\ (PktValid => Len(fifo) < Cap) /\ Cap \in Nat
      BY <1>1, <1>5, Sizes DEF TypeInv, FifoSound
    <3>3. PICK l \in Nat, m \in Nat : l = Len(fifo) /\ m = Len(fifo')
      BY <3>1
    <3>4. m <= l + (IF PktValid THEN 1 ELSE 0)
      BY <3>1, <3>3
    <3>5. m <= Cap
      BY <3>2, <3>3, <3>4
    <3> QED
      BY <3>1, <3>3, <3>5
  <2>2. crc' \in CrcRec /\ remainder' \in SUBSET (0 .. 31)
    BY <1>1, <1>4, CrcType
  <2>3. quiet' \in 0 .. Ifg /\ wire' \in Seq(Seq(Byte))
    BY <1>1, <1>4, <1>12, WireStep
  <2> QED
    BY <1>6, <1>9, <2>1, <2>2, <2>3 DEF TypeInv, CrcRec
<1>14. Current' = IF div.state = "IDLE" /\ fifo # << >> THEN Current + 1 ELSE Current
  BY <1>1, <1>4, <1>12, <1>13, CurrentStep
<1>15. PICK f2, g2 : Sums(f2, g2)' /\ Extends(f, f2) /\ Extends(g, g2)
  BY <1>1, <1>3, <1>4, SumsStep
<1>16. div.state \in {"READ_PKT", "TRANS_PKT"} => Emitted >= Pre /\ Emitted \in Nat
  <2>1. div.state \in {"READ_PKT", "TRANS_PKT"} => Emitted = Len(Last(wire)) + 2 /\ wire # << >>
    BY <1>12 DEF Emitted
  <2>2. wire # << >> => Last(wire) \in Seq(Byte)
    BY <1>1 DEF TypeInv, Last
  <2>3. wire # << >> => Len(Last(wire)) \in Nat
    BY <2>2
  <2> QED
    BY <1>12, <2>1, <2>3
<1>17. /\ Busy => Emitted \in Nat
       /\ Takes => Emitted' = 0
       /\ Busy /\ Busy' => Emitted' = Emitted + 1
  BY <1>1, <1>4, <1>9, <1>12, <1>13, <1>16, EmittedStep
<1>18. PICK b : b = IF div.rden THEN a + 1 ELSE a
  OBVIOUS
<1>19. /\ Current \in 0 .. Len(sent) /\ Current' \in 0 .. Len(sent)
       /\ Takes => Current' = Current + 1
       /\ ~Takes => Current' = Current
       /\ ~Takes => Bytes' = Bytes \/ Current = 0
       /\ f2[Current'] = f[Current'] /\ f[Current'] \in Nat
  BY <1>1, <1>3, <1>6, <1>7, <1>9, <1>14, <1>15, CurrentMoves
<1>20. DivInv(g2, b)'
  BY <1>1, <1>3, <1>4, <1>5, <1>6, <1>7, <1>9, <1>12, <1>13, <1>14, <1>15, <1>16, <1>18, DivStep
<1>21. /\ Left \in Nat /\ Left' \in Nat
       /\ Rests => Left = 0 /\ Left' = 0
       /\ ~Rests => Left' + f[Current] + 1 = Left + f[Current']
  BY <1>1, <1>3, <1>4, <1>5, <1>6, <1>7, <1>9, <1>12, <1>13, <1>14, <1>15, <1>16, <1>20, LeftStep
<1>22. WordsInv(g2, b)'
  BY <1>1, <1>3, <1>4, <1>5, <1>8, <1>13, <1>15, <1>18, WordsStep
<1>23. Rests => Current' = Current
  BY <1>19 DEF Rests, Takes
<1>24. RateInv(f2)'
  BY <1>1, <1>3, <1>4, <1>5, <1>15, <1>19, <1>21, <1>23, RateStep
<1>25. LeftGood
  <2>1. DivHolds
    BY <1>3 DEF DivHolds
  <2> QED
    BY <1>1, <1>17, <2>1, LeftOk
<1>26. RoomInv(g2, b)'
  BY <1>1, <1>3, <1>4, <1>15, <1>18, <1>25, RoomStep
<1>27. AheadInv(g2, b)'
  BY <1>1, <1>3, <1>4, <1>5, <1>6, <1>7, <1>9, <1>14, <1>15, <1>18, AheadStep
<1>28. Busy => Emitted <= Pre + Len(Bytes) /\ Len(Bytes) \in Nat /\ Current >= 1
  BY <1>3, <1>25 DEF DivInv, LeftGood
<1>29. (Busy \/ div.state = "WAIT") => Bytes' = Bytes /\ Current' = Current
  <2>1. (Busy \/ div.state = "WAIT") => Current >= 1 /\ ~Takes
    BY <1>3 DEF DivInv, Busy, Takes
  <2>2. Current >= 1 => Current # 0
    BY <1>6, <1>19
  <2> QED
    BY <1>19, <2>1, <2>2
<1>30. BusyInv'
  <2>1. Busy /\ Busy' => valid' /\ data' = FrameByte(Bytes, Emitted + 1)
    BY <1>1, <1>3, <1>5, <1>9, <1>17, DataStep
  <2> QED
    BY <1>1, <1>4, <1>9, <1>17, <1>28, <1>29, <2>1, BusyStep
<1>31. WaitInv'
  <2>1. Ends => Emitted = Pre + Len(Bytes)
    <3>1. SUFFICES ASSUME Ends PROVE Emitted = Pre + Len(Bytes)
      OBVIOUS
    <3>2. Busy /\ ~Rests /\ div'.state = "WAIT" /\ div'.cntWait = 0
      BY <3>1 DEF Ends, Busy, Rests
    <3>3. Left' = 12 /\ Current' = Current
      BY <1>29, <3>2 DEF Left, Wait
    <3>4. PICK y \in Nat, l \in Nat : y = f[Current] /\ y = f[Current'] /\ l = Left
      BY <1>19, <1>21, <3>3
    <3>5. 12 + y + 1 = l + y
      BY <1>21, <3>2, <3>3, <3>4
    <3>6. l = 13
      BY ONLY <3>5, y \in Nat, l \in Nat
    <3>7. Left = 8 + Len(Bytes) - Emitted + 13 /\ Emitted \in Nat /\ Len(Bytes) \in Nat
      BY <1>25, <3>2 DEF LeftGood
    <3>8. PICK e \in Nat, n \in Nat : e = Emitted /\ n = Len(Bytes)
      BY <3>7
    <3>9. 13 = 8 + n - e + 13
      BY <3>4, <3>6, <3>7, <3>8
    <3>10. e = 8 + n
      BY ONLY <3>9, e \in Nat, n \in Nat
    <3> QED
      BY <3>8, <3>10 DEF Pre
  <2>2. (Busy \/ div.state = "WAIT") => Len(Bytes) \in Nat /\ Len(Bytes) >= 2
    <3>1. (Busy \/ div.state = "WAIT") => Current >= 1
      BY <1>3 DEF DivInv
    <3>2. SUFFICES ASSUME Current >= 1 PROVE Len(Bytes) \in Nat /\ Len(Bytes) >= 2
      BY <3>1
    <3>3. PICK y \in Payloads : y = Bytes
      BY <1>1, <1>3, <3>2, CurrentOk
    <3>4. W \in Nat /\ W >= 2 /\ Len(y) \in Nat /\ Len(y) > W
      BY PayloadOk
    <3> QED
      BY <3>3, <3>4
  <2> QED
    BY <1>1, <1>4, <1>9, <1>29, <2>1, <2>2, WaitStep
<1>32. IdleInv'
  BY <1>1, <1>4, <1>9, IdleStep
<1>33. Parts(f2, g2, b)'
  BY <1>15, <1>20, <1>22, <1>24, <1>26, <1>27 DEF Parts
<1> QED
  BY <1>6, <1>13, <1>30, <1>31, <1>32, <1>33 DEF IInv

(* The invariant holds at reset. *)
LEMMA InitInv == Init => IInv
<1> SUFFICES ASSUME Init PROVE IInv
  OBVIOUS
<1>1. /\ W \in Nat /\ W >= 2 /\ Cap \in Nat /\ Wait = 12 /\ Ifg = 10
  BY Sizes DEF Pre, Wait, Ifg
<1>2. NoWord \in WordRec
  <2>1. 0 \in 0 .. W - 1 /\ {} \in Byte
    BY <1>1 DEF Byte
  <2> QED
    BY <2>1 DEF NoWord, WordRec
<1>3. crc.next \in SUBSET (0 .. 31)
  BY DEF Init
<1>4. TypeInv
  <2>1. sent \in Seq(Payloads) /\ fifo \in Seq(WordRec) /\ Len(fifo) = 0 /\ wire \in Seq(Seq(Byte))
    BY DEF Init
  <2>2. div = [state |-> "IDLE", rden |-> FALSE, word |-> NoWord, cntValid |-> 0,
               cntGmii |-> 0, cntHead |-> 0, cntWait |-> 0]
        /\ 0 \in 0 .. W - 1 /\ 0 \in 0 .. 7 /\ 0 \in 0 .. Wait
    BY <1>1 DEF Init
  <2>3. div \in [state : {"IDLE", "PAD_PKT_TAG", "READ_PKT", "TRANS_PKT", "WAIT"}, rden : BOOLEAN,
              word : WordRec, cntValid : 0 .. W - 1, cntGmii : 0 .. W - 1, cntHead : 0 .. 7,
              cntWait : 0 .. Wait]
    BY <1>2, <2>2
  <2>4. crc \in CrcRec
    <3>1. PICK x \in SUBSET (0 .. 31), y \in Byte, c \in 0 .. 3 : x = 0 .. 31 /\ y = {} /\ c = 0
      <4>1. {} \in Byte /\ 0 \in 0 .. 3
        BY DEF Byte
      <4>2. \E x \in SUBSET (0 .. 31) : x = 0 .. 31
        OBVIOUS
      <4>3. \E c \in 0 .. 3 : c = 0
        BY <4>1
      <4>4. \E y \in Byte : y = {}
        BY <4>1
      <4> QED
        BY ONLY <4>2, <4>3, <4>4, Zenon
    <3>2. crc = [state |-> "IDLE", dv |-> FALSE, cnt |-> c, next |-> x, en |-> FALSE, data |-> y]
      BY <3>1 DEF Init
    <3> QED
      BY <3>2 DEF CrcRec
  <2>5. data \in Byte /\ valid \in BOOLEAN /\ due \in Nat /\ pos \in Nat
    BY DEF Init, Byte
  <2>6. quiet \in 0 .. Ifg /\ remainder \in SUBSET (0 .. 31)
    BY <1>1 DEF Init
  <2>7. Len(fifo) <= Cap
    BY <1>1, <2>1
  <2>8. crc \in [state : {"IDLE", "RCV", "CRC", "OUT"}, dv : BOOLEAN, cnt : 0 .. 3,
              next : SUBSET (0 .. 31), en : BOOLEAN, data : Byte]
    BY <2>4 DEF CrcRec
  <2> QED
    BY ONLY <2>1, <2>3, <2>5, <2>6, <2>7, <2>8, Zenon DEF TypeInv
<1>5. SourceInv
  BY DEF Init, SourceInv
<1>6. div.state = "IDLE" /\ div.rden = FALSE
  BY DEF Init
<1>7. BusyInv /\ WaitInv
  BY <1>6 DEF BusyInv, WaitInv, Busy
<1>8. IdleInv
  BY <1>1 DEF Init, IdleInv, CrcReset
<1>9. \E f, g, a : Parts(f, g, a)
  <2>1. PICK f : f = [k \in 0 .. 0 |-> 0]
    OBVIOUS
  <2>2. f \in [0 .. 0 -> Nat] /\ f[0] = 0 /\ \A k \in 0 .. 0 : k = 0
    BY <2>1
  <2>3. sent = << >> /\ fifo = << >> /\ Len(sent) = 0 /\ Len(fifo) = 0 /\ Len(wire) = 0 /\ due = 0
        /\ pos = 0 /\ wire = << >>
    BY DEF Init
  <2>4. ~PktValid
    BY <2>3 DEF PktValid
  <2>5. Current = 0 /\ Left = 0 /\ ~Busy
    BY <1>6, <2>3 DEF Current, Left, Busy
  <2>6. Sums(f, f)
    <3>1. \A j, k \in 0 .. 0 : j <= k => f[j] <= f[k] /\ W * f[k] + f[j] <= f[k] + W * f[j]
      <4>1. W * 0 + 0 <= 0 + W * 0
        BY <1>1
      <4> QED
        BY <2>2, <4>1
    <3> QED
      BY <2>2, <2>3, <3>1 DEF Sums
  <2>7. WordsInv(f, 0)
    BY <2>2, <2>3, <2>4 DEF WordsInv, Rest
  <2>8. DivInv(f, 0)
    BY <1>6, <2>2, <2>3, <2>5 DEF DivInv
  <2>9. RateInv(f) /\ RoomInv(f, 0) /\ AheadInv(f, 0)
    BY <2>2, <2>3, <2>4, <2>5 DEF RateInv, RoomInv, AheadInv
  <2> QED
    BY <2>6, <2>7, <2>8, <2>9 DEF Parts
<1> QED
  BY <1>4, <1>5, <1>7, <1>8, <1>9 DEF IInv

(* A step that changes nothing keeps the invariant. *)
LEMMA StutterStep == IInv /\ UNCHANGED vars => IInv'
<1> SUFFICES ASSUME IInv, UNCHANGED vars PROVE IInv'
  OBVIOUS
<1>1. /\ packet' = packet /\ pos' = pos /\ due' = due /\ sent' = sent /\ fifo' = fifo
      /\ div' = div /\ data' = data /\ valid' = valid /\ crc' = crc /\ quiet' = quiet
      /\ wire' = wire /\ remainder' = remainder
  BY DEF vars, source, output
<1>2. TypeInv' /\ SourceInv'
  BY <1>1 DEF IInv, TypeInv, SourceInv, Service, WordsOf
<1>3. Current' = Current /\ Bytes' = Bytes /\ Emitted' = Emitted /\ (Busy' <=> Busy)
  BY <1>1 DEF Current, Bytes, Emitted, Busy
<1>4. /\ CrcReset' <=> CrcReset
      /\ \A k : CrcRuns(k)' <=> CrcRuns(k)
      /\ \A k : Shows(k)' <=> Shows(k)
      /\ \A k : LastCrc(k)' = LastCrc(k) /\ Behind(k)' = Behind(k)
  BY <1>1, <1>3 DEF CrcReset, CrcRuns, Shows, LastCrc, Behind, FrameByte
<1>5. BusyInv'
  BY <1>1, <1>3 DEF IInv, BusyInv, CrcReset, CrcRuns, Shows, FrameByte
<1>6. WaitInv' /\ IdleInv'
  BY <1>1, <1>3 DEF IInv, WaitInv, IdleInv, CrcReset, CrcRuns, Shows, LastCrc, Behind, FrameByte
<1>7. PICK f, g, a : Parts(f, g, a)
  BY DEF IInv
<1>8. (PktValid' <=> PktValid) /\ Rest' = Rest /\ Left' = Left
  BY <1>1, <1>3 DEF PktValid, Rest, Left, WordsOf
<1>9. Parts(f, g, a)'
  <2>1. Sums(f, g)'
    BY <1>1, <1>7 DEF Parts, Sums, Service, WordsOf
  <2>2. WordsInv(g, a)'
    BY <1>1, <1>7, <1>8 DEF Parts, WordsInv
  <2>3. DivInv(g, a)'
    BY <1>1, <1>3, <1>7 DEF Parts, DivInv
  <2>4. RateInv(f)' /\ RoomInv(g, a)' /\ AheadInv(g, a)'
    BY <1>1, <1>3, <1>7, <1>8 DEF Parts, RateInv, RoomInv, AheadInv
  <2> QED
    BY <2>1, <2>2, <2>3, <2>4 DEF Parts
<1> QED
  BY <1>2, <1>5, <1>6, <1>9 DEF IInv

(* The inductive invariant of the dividing machine, its FIFO, the CRC       *)
(* machine and what the receiver has seen.                                  *)
THEOREM Invariant == Spec => []IInv
<1>1. Init => IInv
  BY InitInv
<1>2. IInv /\ [Next]_vars => IInv'
  <2> SUFFICES ASSUME IInv, [Next]_vars PROVE IInv'
    OBVIOUS
  <2>1. CASE Next
    BY <2>1, ClockStep DEF Next
  <2>2. CASE UNCHANGED vars
    BY <2>2, StutterStep
  <2> QED
    BY <2>1, <2>2
<1> QED
  BY <1>1, <1>2, PTL DEF Spec

(* It implies FifoSound. *)
LEMMA InvFifo == IInv => FifoSound
BY FifoHolds DEF IInv, Parts

(* READ_PKT never finds fifo_pkt empty, and no word is written to a full    *)
(* one, though state_div asks only in IDLE_S and nobody looks at full.      *)
THEOREM FifoIsSound == Spec => []FifoSound
BY Invariant, InvFifo, PTL

(* It implies TypeOK. *)
LEMMA InvType == IInv => TypeOK
<1> SUFFICES ASSUME IInv PROVE TypeOK
  OBVIOUS
<1>1. TypeInv
  BY DEF IInv
<1>2. crc \in CrcRec
  BY <1>1 DEF TypeInv, CrcRec
<1>3. /\ crc.data \in Byte /\ crc.next \subseteq 0 .. 31 /\ crc.cnt \in 0 .. 3
      /\ crc.dv \in BOOLEAN /\ crc.en \in BOOLEAN /\ crc.state \in {"IDLE", "RCV", "CRC", "OUT"}
  BY <1>2 DEF CrcRec
<1>4. /\ div.state \in {"IDLE", "PAD_PKT_TAG", "READ_PKT", "TRANS_PKT", "WAIT"}
      /\ div.cntHead \in 0 .. 7 /\ div.cntWait \in 0 .. Wait
      /\ div.cntValid \in 0 .. W - 1 /\ div.cntGmii \in 0 .. W - 1 /\ div.rden \in BOOLEAN
  BY <1>1 DEF TypeInv
<1> QED
  BY <1>1, <1>3, <1>4 DEF TypeInv, TypeOK

(* The registers of state_div and ctrl_state stay in their ranges. *)
THEOREM TypeCorrect == Spec => []TypeOK
BY Invariant, InvType, PTL

(* It implies FramesOnWire. *)
LEMMA InvFrames == IInv => FramesOnWire
<1> SUFFICES ASSUME IInv PROVE FramesOnWire
  OBVIOUS
<1>1. TypeInv /\ BusyInv /\ WaitInv /\ IdleInv
  BY DEF IInv
<1>2. PICK f, g, a : Parts(f, g, a)
  BY DEF IInv
<1>3. DivInv(g, a) /\ Sums(f, g) /\ WordsInv(g, a)
  BY <1>2 DEF Parts
<1>4. Len(wire) \in Nat /\ Len(sent) \in Nat
      /\ div.state \in {"IDLE", "PAD_PKT_TAG", "READ_PKT", "TRANS_PKT", "WAIT"}
      /\ div.cntHead \in 0 .. 7 /\ div.cntWait \in 0 .. 12
  BY <1>1 DEF TypeInv, Wait
<1>5. Len(wire) <= Len(sent)
  <2>1. Current \in 0 .. Len(sent)
    BY <1>3 DEF DivInv
  <2>2. Len(wire) <= Current /\ Current \in Nat
    BY <1>4 DEF Current
  <2> QED
    BY <1>4, <2>1, <2>2
<1>6. ASSUME quiet = 1, wire # << >> PROVE div.state = "WAIT" /\ div.cntWait = 6
  <2>1. div.state # "IDLE"
    BY <1>1, <1>6 DEF IdleInv
  <2>2. div.state # "PAD_PKT_TAG"
    <3>1. SUFFICES ASSUME div.state = "PAD_PKT_TAG" PROVE FALSE
      OBVIOUS
    <3>2. Busy /\ Emitted = div.cntHead
      BY <3>1 DEF Busy, Emitted
    <3>3. CASE div.cntHead <= 2
      <4>1. quiet >= 10 + div.cntHead - 2
        BY <1>1, <3>2, <3>3 DEF BusyInv, Ifg
      <4> QED
        BY <1>4, <1>6, <3>3, <4>1
    <3>4. CASE div.cntHead >= 3
      BY <1>1, <1>6, <3>2, <3>4 DEF BusyInv
    <3> QED
      BY <1>4, <3>3, <3>4
  <2>3. div.state \notin {"READ_PKT", "TRANS_PKT"}
    <3>1. SUFFICES ASSUME div.state \in {"READ_PKT", "TRANS_PKT"} PROVE FALSE
      OBVIOUS
    <3>2. Current >= 1 => g[Current - 1] \in Nat
      <4>1. \A k \in 0 .. Len(sent) : g[k] \in Nat
        BY <1>1, <1>3, SumsOk
      <4>2. Current \in 0 .. Len(sent)
        BY <1>3 DEF DivInv
      <4> HIDE DEF Current
      <4>3. Current >= 1 => Current - 1 \in 0 .. Len(sent)
        BY <1>4, <4>2
      <4> QED
        BY <4>1, <4>3
    <3>3. a \in Nat
      BY <1>3 DEF WordsInv
    <3>4. Emitted >= Pre
      BY <1>1, <1>3, <3>1, <3>2, <3>3, Begins
    <3>5. Emitted = Len(Last(wire)) + 2 /\ Busy
      BY <3>1 DEF Emitted, Busy
    <3>6. Last(wire) \in Seq(Byte)
      BY <1>1, <1>6 DEF TypeInv, Last
    <3>7. Emitted >= 3
      BY <3>4, <3>5, <3>6 DEF Pre
    <3> QED
      BY <1>1, <1>6, <3>5, <3>7 DEF BusyInv
  <2>4. div.state = "WAIT"
    BY <1>4, <2>1, <2>2, <2>3
  <2>5. div.cntWait >= 5
    <3>1. div.cntWait = 0 \/ div.cntWait \in 1 .. 4 => quiet = 0
      BY <1>1, <2>4 DEF WaitInv
    <3> QED
      BY <1>4, <1>6, <3>1
  <2>6. quiet = div.cntWait - 5
    BY <1>1, <2>4, <2>5 DEF WaitInv
  <2> QED
    BY <1>4, <1>6, <2>4, <2>6
<1>7. ASSUME quiet = 1, wire # << >>
      PROVE  LET frame == Last(wire)
             IN  /\ SubSeq(frame, 1, Pre) = [k \in 1 .. Pre |-> IF k < Pre THEN X55 ELSE XD5]
                 /\ SubSeq(frame, Pre + 1, Len(frame) - 4) = sent[Len(wire)]
                 /\ remainder = Remainder
  <2>1. div.state = "WAIT" /\ div.cntWait = 6
    BY <1>6, <1>7
  <2>2. Shows((Pre + Len(Bytes)) + 4) /\ remainder = Remainder
    BY <1>1, <2>1 DEF WaitInv
  <2>3. Current = Len(wire) /\ Current >= 1
    BY <1>3, <1>4, <2>1 DEF Current, DivInv
  <2>4. PICK bytes \in Payloads : bytes = Bytes /\ bytes = sent[Len(wire)]
    <3>1. Bytes \in Payloads
      BY <1>1, <1>3, <2>3, CurrentOk
    <3>2. Bytes = sent[Len(wire)]
      BY <2>3 DEF Bytes
    <3> QED
      BY <3>1, <3>2
  <2>5. bytes \in Seq(Byte) /\ Len(bytes) \in Nat
    BY PayloadOk
  <2>6. PICK frame \in Seq(Byte) : frame = Last(wire)
    BY <1>1, <1>7 DEF TypeInv, Last
  <2>7. Len(frame) = Len(bytes) + 12
        /\ \A k \in 1 .. Len(bytes) + 12 : k <= 8 + Len(bytes) => frame[k] = FrameByte(bytes, k)
    <3>1. Len(frame) = (Pre + Len(bytes)) + 4
          /\ \A k \in 1 .. (Pre + Len(bytes)) + 4 :
               k <= Pre + Len(bytes) => frame[k] = FrameByte(bytes, k)
      BY <2>2, <2>4, <2>6 DEF Shows
    <3>2. (Pre + Len(bytes)) + 4 = Len(bytes) + 12 /\ Pre = 8
      BY <2>5 DEF Pre
    <3> QED
      BY <3>1, <3>2
  <2> DEFINE head == SubSeq(frame, 1, 8)
             body == SubSeq(frame, 9, Len(frame) - 4)
             pre  == [k \in 1 .. 8 |-> IF k < 8 THEN X55 ELSE XD5]
  <2>8. head = pre
    <3>1. \A i \in 1 .. 8 : frame[i] \in Byte
      BY <2>5, <2>6, <2>7
    <3>2. /\ head \in Seq(Byte) /\ Len(head) = 8
          /\ \A i \in 1 .. 8 : head[i] = frame[i]
      <4>1. /\ head \in Seq(Byte)
            /\ Len(head) = IF 1 <= 8 THEN 8 - 1 + 1 ELSE 0
            /\ \A i \in 1 .. 8 - 1 + 1 : head[i] = frame[1 + i - 1]
        BY <3>1, SubSeqProperties
      <4> HIDE DEF head
      <4>2. \A i \in 1 .. 8 : 1 + i - 1 = i
        OBVIOUS
      <4> QED
        BY <4>1, <4>2
    <3>3. pre \in Seq(Byte) /\ Len(pre) = 8 /\ \A i \in 1 .. 8 : pre[i] = IF i < 8 THEN X55 ELSE XD5
      <4>1. X55 \in Byte /\ XD5 \in Byte
        BY DEF X55, XD5, Byte
      <4>2. pre \in [1 .. 8 -> Byte]
        BY <4>1
      <4> QED
        BY <4>2
    <3>4. ASSUME NEW i \in 1 .. 8 PROVE head[i] = pre[i]
      <4>1. frame[i] = FrameByte(bytes, i)
        BY <2>5, <2>7
      <4>2. FrameByte(bytes, i) = IF i < 8 THEN X55 ELSE XD5
        BY DEF FrameByte, Pre
      <4> HIDE DEF head, pre
      <4> QED
        BY <3>2, <3>3, <4>1, <4>2
    <3> HIDE DEF head, pre
    <3> QED
      BY <3>2, <3>3, <3>4, SeqEqual
  <2>9. body = bytes
    <3>1. Len(frame) - 4 = Len(bytes) + 8 /\ Len(bytes) + 8 \in Int
      BY <2>5, <2>7
    <3>2. \A i \in 9 .. Len(bytes) + 8 : frame[i] \in Byte
      BY <2>5, <2>6, <2>7
    <3>3. /\ body \in Seq(Byte) /\ Len(body) = Len(bytes)
          /\ \A i \in 1 .. Len(bytes) : body[i] = frame[8 + i]
      <4>1. PICK n \in Nat : n = Len(bytes)
        BY <2>5
      <4>2. body = SubSeq(frame, 9, n + 8)
        BY <3>1, <4>1
      <4>3. n + 8 \in Int /\ 9 \in Int /\ \A i \in 9 .. n + 8 : frame[i] \in Byte
        BY <3>2, <4>1
      <4> HIDE DEF body
      <4>4. /\ body \in Seq(Byte)
            /\ Len(body) = IF 9 <= n + 8 THEN (n + 8) - 9 + 1 ELSE 0
            /\ \A i \in 1 .. (n + 8) - 9 + 1 : body[i] = frame[9 + i - 1]
        BY ONLY <4>2, <4>3, SubSeqProperties
      <4>5. (n + 8) - 9 + 1 = n /\ (9 <= n + 8 \/ n = 0) /\ \A i \in 1 .. n : 9 + i - 1 = 8 + i
        BY <4>1
      <4> QED
        BY <4>1, <4>4, <4>5
    <3> HIDE DEF body
    <3>4. ASSUME NEW i \in 1 .. Len(bytes) PROVE body[i] = bytes[i]
      <4>1. PICK n \in Nat : n = Len(bytes)
        BY <2>5
      <4>2. 8 + i \in 1 .. n + 12 /\ 8 + i <= 8 + n /\ ~(8 + i < 8) /\ 8 + i # 8 /\ (8 + i) - 8 = i
        BY <4>1
      <4>3. frame[8 + i] = FrameByte(bytes, 8 + i)
        BY <2>7, <4>1, <4>2
      <4>4. FrameByte(bytes, 8 + i) = bytes[i]
        BY <4>2 DEF FrameByte, Pre
      <4> QED
        BY <3>3, <4>3, <4>4
    <3> QED
      BY <2>5, <3>3, <3>4, SeqEqual
  <2> HIDE DEF head, body, pre
  <2>10. /\ SubSeq(frame, 1, Pre) = [k \in 1 .. Pre |-> IF k < Pre THEN X55 ELSE XD5]
         /\ SubSeq(frame, Pre + 1, Len(frame) - 4) = bytes
    <3>1. SubSeq(frame, 1, 8) = [k \in 1 .. 8 |-> IF k < 8 THEN X55 ELSE XD5]
      BY <2>8 DEF head, pre
    <3>2. SubSeq(frame, 9, Len(frame) - 4) = bytes
      BY <2>9 DEF body
    <3>3. Pre = 8 /\ Pre + 1 = 9
      BY DEF Pre
    <3> QED
      BY <3>1, <3>2, <3>3
  <2> QED
    BY <2>2, <2>4, <2>6, <2>10
<1> QED
  BY <1>5, <1>7 DEF FramesOnWire

(* Every frame on the wire is a preamble, the bytes of its packet in their  *)
(* order, none lost or added, and a CRC with which the register of a        *)
(* receiver by IEEE 802.3 is left at its Remainder; frames leave in the     *)
(* order of their packets, ten clocks apart.                                *)
THEOREM FramesAreRight == Spec => []FramesOnWire
BY Invariant, InvFrames, PTL

=============================================================================
