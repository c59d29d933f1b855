---------------------------- MODULE Uip_proofs ------------------------------
(***************************************************************************)
(* Proofs about Uip for any number of slots and of hosts, any streams and  *)
(* any losses, duplications and reorderings of their segments.             *)
(***************************************************************************)
EXTENDS Uip, FiniteSetTheorems, WellFoundedInduction, TLAPS

(***************************************************************************)
(* What the hosts and the network of TcpHosts can do, for any number of    *)
(* hosts and any streams.                                                  *)
(***************************************************************************)

(* A nonempty set of natural numbers has a least element, and Min is it. *)
LEMMA MinIn ==
  ASSUME NEW S \in SUBSET Nat, S # {}
  PROVE  Min(S) \in S /\ \A y \in S : Min(S) <= y
<1>1. PICK x \in S : \A y \in S : ~(<<y, x>> \in OpToRel(<, Nat))
  BY NatLessThanWellFounded, WFMin
<1>2. ASSUME NEW y \in S PROVE x <= y
  <2>1. <<y, x>> \in OpToRel(<, Nat) <=> y < x
    BY DEF OpToRel
  <2>2. ~(y < x)
    BY <1>1, <2>1, Zenon
  <2>3. x \in Nat /\ y \in Nat
    OBVIOUS
  <2> QED
    BY <2>2, <2>3
<1> QED
  BY <1>1, <1>2 DEF Min

-----------------------------------------------------------------------------
(* Arithmetic of the initial numbers, which are multiples of Gap. *)
LEMMA GapNat ==
  /\ Gap \in Nat /\ Gap >= 3
  /\ \A k \in 1..Len(Units) : Units[k] \in Nat /\ Units[k] + 3 <= Gap
<1>1. Len(Units) >= 1 /\ Len(Units) \in Nat
  BY HostsAssumption
<1>2. 1 \in 1..Len(Units)
  BY <1>1
<1>3. Gap \in Nat /\ \A k \in 1..Len(Units) : Units[k] \in Nat /\ Units[k] + 3 <= Gap
  BY HostsAssumption
<1>4. PICK u \in Nat : u + 3 <= Gap
  BY <1>2, <1>3
<1> QED
  BY <1>3, <1>4

LEMMA TimesNat ==
  ASSUME NEW a \in Nat, NEW b \in Nat
  PROVE  a * b \in Nat
OBVIOUS

LEMMA TimesMono ==
  ASSUME NEW a \in Nat, NEW b \in Nat, NEW g \in Nat, a < b
  PROVE  (a + 1) * g <= b * g
OBVIOUS

-----------------------------------------------------------------------------
(* What a host and an answer may be. *)
FarRec == [nxt : Nat, irs : Nat, rcv : Nat]

HostRec == [st : {"CLOSED", "SYN_SENT", "OPEN"}, inc : 0..Len(Units),
            nxt : Nat, irs : Nat, rcv : Nat, past : Seq(FarRec)]

(* Every connection but the last is in past. *)
PastOk(c) == c.inc # 0 => Len(c.past) = c.inc - 1

AnswerRec == [peer : AllHosts, flags : {"SYN|ACK", "ACK", "PSH|ACK", "FIN|ACK", "RST|ACK"},
              seq : Nat, ack : Nat, data : Seq(Nat)]

HostsInv ==
  /\ cli \in [Peers -> HostRec] /\ \A p \in Peers : PastOk(cli[p])
  /\ toCli \subseteq AnswerRec /\ IsFiniteSet(toCli) /\ Cardinality(toCli) <= Wire

(* Of the k-th connection of a host: any segment is a cut of its stream, a  *)
(* SYN comes at its initial number, a FIN after its last byte.              *)
SegmentOk(s) ==
  /\ s.peer \in AllHosts /\ s.flags \in {"SYN", "ACK", "FIN|ACK", "RST"}
  /\ s.seq \in Nat /\ s.ack \in Nat
  /\ s.data \in Seq(Nat) /\ Len(s.data) + 3 <= Gap
  /\ \A k \in 1..Len(s.data) : s.data[k] = s.seq + k - 1
  /\ s.flags \in {"SYN", "RST"} => s.data = <<>>
  /\ s.flags = "SYN" => \E m \in Nat : s.seq = m * Gap
  /\ s.flags = "FIN|ACK" => \E m \in 1..Len(Units) : s.seq + Len(s.data) = FinOf(m)

LEMMA EmptySegment ==
  ASSUME NEW p \in AllHosts, NEW fl \in {"ACK", "RST"}, NEW x \in Nat, NEW a \in Nat
  PROVE  SegmentOk(Seg(p, fl, x, a, <<>>))
BY GapNat DEF SegmentOk, Seg

LEMMA SynSegment ==
  ASSUME NEW p \in AllHosts, NEW m \in Nat
  PROVE  SegmentOk(Seg(p, "SYN", m * Gap, 0, <<>>))
BY GapNat, TimesNat DEF SegmentOk, Seg

LEMMA DataSegment ==
  ASSUME NEW p \in AllHosts, NEW fl \in {"ACK", "FIN|ACK"}, NEW m \in 1..Len(Units),
         NEW x \in Nat, NEW y \in Nat, NEW a \in Nat,
         m * Gap + 1 <= x, x <= y, y <= FinOf(m), fl = "FIN|ACK" => y = FinOf(m)
  PROVE  SegmentOk(Seg(p, fl, x, a, Bytes(x, y)))
<1> DEFINE n == y - x
<1>1. m * Gap \in Nat /\ Units[m] \in Nat /\ Units[m] + 3 <= Gap /\ Gap \in Nat
  BY GapNat, TimesNat, HostsAssumption
<1>2. n \in Nat /\ n <= Units[m] /\ x + n = y
  BY <1>1 DEF FinOf
<1> HIDE DEF n
<1>3. /\ Bytes(x, y) \in Seq(Nat) /\ Len(Bytes(x, y)) = n
      /\ \A k \in 1..n : Bytes(x, y)[k] = x + k - 1
  <2>1. Bytes(x, y) = [k \in 1..n |-> x + k - 1]
    BY DEF Bytes, n
  <2>2. \A k \in 1..n : x + k - 1 \in Nat
    BY <1>2
  <2> QED
    BY <2>1, <2>2, <1>2
<1> DEFINE d == Bytes(x, y)
<1> HIDE DEF d
<1>4. n + 3 <= Gap
  BY <1>1, <1>2
<1>5. SegmentOk(Seg(p, fl, x, a, d))
  BY <1>2, <1>3, <1>4 DEF SegmentOk, Seg, d
<1> QED
  BY <1>5 DEF d

(* What a host sent in its k-th connection until it had come as far as c. *)
LEMMA SegmentsOk ==
  ASSUME NEW p \in Peers, NEW k \in 1..Len(Units),
         NEW c, c.nxt \in Nat, c.irs \in Nat, c.rcv \in Nat,
         NEW s \in SegmentsOf(p, k, c)
  PROVE  SegmentOk(s)
<1> DEFINE isn  == k * Gap
           fin  == FinOf(k)
           acks == c.irs + 1 .. c.rcv
           sent == isn + 1 .. Min({c.nxt, fin})
           empty == {Seg(p, "ACK", x, a, <<>>) : x \in isn + 1 .. c.nxt, a \in acks}
           data == UNION {{Seg(p, "ACK", x, a, Bytes(x, y)) :
                             y \in {z \in sent : z > x /\ Admitted(k, x, z)}, a \in acks}
                            : x \in sent}
           last == {Seg(p, "FIN|ACK", x, a, Bytes(x, fin)) :
                      x \in {y \in sent : c.nxt > fin /\ Admitted(k, y, fin + 1)}, a \in acks}
<1>1. SegmentsOf(p, k, c) = {Seg(p, "SYN", isn, 0, <<>>)} \cup empty \cup data \cup last
  BY DEF SegmentsOf
<1>2. p \in AllHosts /\ k \in Nat /\ isn \in Nat /\ fin \in Nat
  <2>1. k \in Nat /\ Units[k] \in Nat
    BY GapNat, HostsAssumption
  <2>2. isn \in Nat
    BY <2>1, GapNat, TimesNat
  <2> QED
    BY <2>1, <2>2 DEF AllHosts, FinOf
<1>3. \A a \in acks : a \in Nat
  OBVIOUS
<1>4. \A x \in sent : x \in Nat /\ isn + 1 <= x /\ x <= fin
  <2>1. Min({c.nxt, fin}) \in {c.nxt, fin} /\ Min({c.nxt, fin}) <= fin
    <3> DEFINE S == {c.nxt, fin}
    <3>1. S \in SUBSET Nat /\ S # {} /\ fin \in S
      BY <1>2
    <3> HIDE DEF S
    <3>2. Min(S) \in S /\ Min(S) <= fin
      BY <3>1, MinIn
    <3> QED
      BY <3>2 DEF S
  <2> QED
    BY <1>2, <2>1
<1>5. \A x \in isn + 1 .. c.nxt : x \in Nat
  <2> HIDE DEF isn
  <2> QED
    BY <1>2
<1> HIDE DEF sent, acks
<1>6. CASE s = Seg(p, "SYN", isn, 0, <<>>)
  BY <1>2, <1>6, SynSegment
<1>7. CASE s \in empty
  <2>1. PICK x \in isn + 1 .. c.nxt, a \in acks : s = Seg(p, "ACK", x, a, <<>>)
    BY <1>7
  <2> QED
    BY <1>2, <1>3, <1>5, <2>1, EmptySegment
<1>8. CASE s \in data
  <2>1. PICK x \in sent, y \in sent, a \in acks :
          y > x /\ s = Seg(p, "ACK", x, a, Bytes(x, y))
    BY <1>8
  <2>2. x \in Nat /\ y \in Nat /\ a \in Nat /\ isn + 1 <= x /\ x <= y /\ y <= fin
    BY <1>3, <1>4, <2>1
  <2> QED
    BY <1>2, <2>1, <2>2, DataSegment
<1>9. CASE s \in last
  <2>1. PICK x \in sent, a \in acks : s = Seg(p, "FIN|ACK", x, a, Bytes(x, fin))
    BY <1>9
  <2>2. x \in Nat /\ a \in Nat /\ isn + 1 <= x /\ x <= fin
    BY <1>3, <1>4, <2>1
  <2> QED
    BY <1>2, <2>1, <2>2, DataSegment
<1> HIDE DEF empty, data, last
<1> QED
  BY <1>1, <1>6, <1>7, <1>8, <1>9

LEMMA ResetsOk ==
  ASSUME NEW p \in Peers, NEW k \in 1..Len(Units), NEW c, c.nxt \in Nat,
         NEW s \in ResetsOf(p, k, c)
  PROVE  SegmentOk(s)
<1>1. PICK x \in k * Gap + 1 .. c.nxt : s = Seg(p, "RST", x, 0, <<>>)
  BY DEF ResetsOf
<1>2. k * Gap \in Nat
  BY GapNat, TimesNat, HostsAssumption
<1>3. x \in Nat
  <2> DEFINE g == k * Gap
  <2> HIDE DEF g
  <2>1. g \in Nat /\ x \in g + 1 .. c.nxt
    BY <1>2 DEF g
  <2> QED
    BY <2>1
<1>4. p \in AllHosts /\ 0 \in Nat
  BY DEF AllHosts
<1> QED
  BY <1>1, <1>3, <1>4, EmptySegment

(* What may arrive, of whichever connection, is a segment of a stream. *)
LEMMA ArrivingOk ==
  ASSUME HostsInv, NEW s \in Arriving
  PROVE  SegmentOk(s)
<1>1. CASE s \in {Seg(q, "SYN", 0, 0, <<>>) : q \in Knockers}
  <2>1. PICK q \in Knockers : s = Seg(q, "SYN", 0, 0, <<>>)
    BY <1>1
  <2>2. 0 * Gap = 0 /\ q \in AllHosts
    BY GapNat DEF AllHosts
  <2> QED
    BY <2>1, <2>2, SynSegment
<1>2. ASSUME NEW p \in Peers, cli[p].inc # 0, s \in ArrivingFrom(p)
      PROVE  SegmentOk(s)
  <2> DEFINE c == cli[p]
  <2>1. /\ c.inc \in 1..Len(Units) /\ Len(Units) \in Nat
        /\ c.nxt \in Nat /\ c.irs \in Nat /\ c.rcv \in Nat
    BY <1>2, HostsAssumption DEF HostsInv, HostRec
  <2>2. ASSUME NEW k \in 1..(c.inc - 1)
        PROVE  /\ k \in 1..Len(Units)
               /\ c.past[k].nxt \in Nat /\ c.past[k].irs \in Nat /\ c.past[k].rcv \in Nat
    <3>1. c.past \in Seq(FarRec) /\ Len(c.past) = c.inc - 1
      BY <1>2 DEF HostsInv, HostRec, PastOk
    <3>2. c.past[k] \in FarRec
      BY <3>1
    <3> QED
      BY <2>1, <3>2 DEF FarRec
  <2>3. \/ s \in SegmentsOf(p, c.inc, c)
        \/ s \in ResetsOf(p, c.inc, c)
        \/ \E k \in 1..(c.inc - 1) :
             s \in SegmentsOf(p, k, c.past[k]) \/ s \in ResetsOf(p, k, c.past[k])
    BY <1>2 DEF ArrivingFrom
  <2> HIDE DEF c
  <2> QED
    BY <2>1, <2>2, <2>3, SegmentsOk, ResetsOk
<1> QED
  BY <1>1, <1>2 DEF Arriving

-----------------------------------------------------------------------------
LEMMA HostsStart ==
  ASSUME HostsInit
  PROVE  HostsInv
<1>1. 0 \in 0..Len(Units) /\ Wire \in Nat
  BY HostsAssumption
<1>2. NoClient \in HostRec /\ PastOk(NoClient)
  BY <1>1 DEF NoClient, HostRec, PastOk
<1>3. IsFiniteSet({}) /\ Cardinality({}) = 0
  BY FS_EmptySet
<1> QED
  BY <1>1, <1>2, <1>3 DEF HostsInit, HostsInv

(* Whatever the hosts do, answers under way only become fewer. *)
LEMMA OutsideHosts ==
  ASSUME HostsInv, Host \/ Lose
  PROVE  HostsInv' /\ toCli' \subseteq toCli
<1>1. ASSUME NEW p \in Peers, NEW c \in HostRec, PastOk(c), Becomes(p, c)
      PROVE  HostsInv' /\ toCli' \subseteq toCli
  <2>1. cli' \in [Peers -> HostRec] /\ toCli' = toCli
    BY <1>1 DEF HostsInv, Becomes
  <2>2. ASSUME NEW q \in Peers PROVE PastOk(cli'[q])
    <3>1. cli'[q] = IF q = p THEN c ELSE cli[q]
      BY <1>1 DEF HostsInv, Becomes
    <3> QED
      BY <1>1, <3>1 DEF HostsInv
  <2> QED
    BY <2>1, <2>2 DEF HostsInv, PastOk
<1>2. ASSUME NEW p \in Peers
      PROVE  cli[p] \in HostRec /\ PastOk(cli[p])
  BY DEF HostsInv
<1>3. ASSUME NEW p \in Peers, Connect(p)
      PROVE  HostsInv' /\ toCli' \subseteq toCli
  <2> DEFINE isn == (cli[p].inc + 1) * Gap
  <2>1. isn \in Nat /\ cli[p].inc + 1 \in 0..Len(Units)
    <3>1. cli[p].inc \in 0..Len(Units) /\ cli[p].inc < Len(Units) /\ Len(Units) \in Nat
      BY <1>2, <1>3, HostsAssumption DEF Connect, HostRec
    <3>2. cli[p].inc + 1 \in Nat
      BY <3>1
    <3> QED
      BY <3>1, <3>2, GapNat, TimesNat
  <2> DEFINE past1 == IF cli[p].inc = 0 THEN <<>> ELSE Append(cli[p].past, Far(cli[p]))
             c == [NoClient EXCEPT !.st = "SYN_SENT", !.inc = cli[p].inc + 1,
                                   !.nxt = isn + 1, !.past = past1]
  <2>2. Becomes(p, c)
    BY <1>3 DEF Connect
  <2>3. past1 \in Seq(FarRec) /\ Len(past1) = cli[p].inc
    <3>1. Far(cli[p]) \in FarRec /\ cli[p].past \in Seq(FarRec) /\ cli[p].inc \in Nat
      BY <1>2, HostsAssumption DEF HostRec, Far, FarRec
    <3>2. CASE cli[p].inc = 0
      BY <3>2
    <3>3. CASE cli[p].inc # 0
      <4>1. Len(cli[p].past) = cli[p].inc - 1
        BY <1>2, <3>3 DEF PastOk
      <4> QED
        BY <3>1, <3>3, <4>1
    <3> QED
      BY <3>2, <3>3
  <2> HIDE DEF isn, past1
  <2> DEFINE inc1 == cli[p].inc + 1
             nxt1 == isn + 1
  <2>4. inc1 \in 0..Len(Units) /\ nxt1 \in Nat /\ Len(past1) = inc1 - 1
    BY <1>2, <2>1, <2>3, HostsAssumption DEF HostRec
  <2> HIDE DEF inc1, nxt1
  <2>5. LET d == [NoClient EXCEPT !.st = "SYN_SENT", !.inc = inc1, !.nxt = nxt1,
                                  !.past = past1]
        IN d \in HostRec /\ PastOk(d)
    BY <2>3, <2>4 DEF NoClient, HostRec, PastOk
  <2>6. c \in HostRec /\ PastOk(c)
    BY <2>5 DEF inc1, nxt1
  <2> HIDE DEF c
  <2> QED
    BY <2>2, <2>6, <1>1
<1>4. ASSUME NEW p \in Peers, SendNext(p)
      PROVE  HostsInv' /\ toCli' \subseteq toCli
  <2> DEFINE c == [cli[p] EXCEPT !.nxt = @ + 1]
  <2>1. c \in HostRec /\ PastOk(c)
    BY <1>2 DEF HostRec, PastOk
  <2> HIDE DEF c
  <2> QED
    BY <1>4, <2>1, <1>1 DEF SendNext, c
<1>5. ASSUME NEW p \in Peers, Abort(p)
      PROVE  HostsInv' /\ toCli' \subseteq toCli
  <2> DEFINE c == [cli[p] EXCEPT !.st = "CLOSED"]
  <2>1. c \in HostRec /\ PastOk(c)
    BY <1>2 DEF HostRec, PastOk
  <2> HIDE DEF c
  <2> QED
    BY <1>5, <2>1, <1>1 DEF Abort, c
<1>6. ASSUME NEW s \in toCli, s.peer \in Peers, ClientRecv(s)
      PROVE  HostsInv' /\ toCli' \subseteq toCli
  <2>1. s.seq \in Nat /\ Len(s.data) \in Nat
    BY DEF HostsInv, AnswerRec
  <2>2. PICK c \in HostRec : PastOk(c) /\ Becomes(s.peer, c)
    <3> DEFINE fin == IF s.flags = "FIN|ACK" THEN 1 ELSE 0
               c1 == [cli[s.peer] EXCEPT !.st = "OPEN", !.irs = s.seq, !.rcv = s.seq + 1]
               c2 == [cli[s.peer] EXCEPT !.st = "CLOSED"]
               c3 == [cli[s.peer] EXCEPT !.rcv = @ + Len(s.data) + fin]
               r == cli[s.peer].rcv + Len(s.data) + fin
    <3>1. cli[s.peer] \in HostRec /\ PastOk(cli[s.peer]) /\ fin \in Nat
      BY <1>2, <1>6
    <3> HIDE DEF fin
    <3>2. c1 \in HostRec /\ c2 \in HostRec /\ PastOk(c1) /\ PastOk(c2)
      <4> DEFINE n == s.seq + 1
      <4>1. n \in Nat
        BY <2>1
      <4> HIDE DEF n
      <4>2. LET d == [cli[s.peer] EXCEPT !.st = "OPEN", !.irs = s.seq, !.rcv = n]
            IN d \in HostRec /\ PastOk(d)
        BY <3>1, <2>1, <4>1 DEF HostRec, PastOk
      <4>3. c2 \in HostRec /\ PastOk(c2)
        BY <3>1 DEF HostRec, PastOk
      <4> QED
        BY <4>2, <4>3 DEF n
    <3>3. r \in Nat
      BY <3>1, <2>1 DEF HostRec
    <3> HIDE DEF r
    <3>4. LET d == [cli[s.peer] EXCEPT !.rcv = r] IN d \in HostRec /\ PastOk(d)
      BY <3>1, <3>3 DEF HostRec, PastOk
    <3>5. c3 \in HostRec /\ PastOk(c3)
      BY <3>4 DEF r
    <3> QED
      BY <1>6, <3>2, <3>5 DEF ClientRecv, fin
  <2> QED
    BY <2>2, <1>1, <1>6
<1>7. ASSUME NEW s \in toCli, toCli' = toCli \ {s}, UNCHANGED cli
      PROVE  HostsInv' /\ toCli' \subseteq toCli
  <2>1. IsFiniteSet(toCli \ {s}) /\ Cardinality(toCli \ {s}) <= Wire
    <3>1. /\ IsFiniteSet(toCli \ {s}) /\ Cardinality(toCli \ {s}) <= Cardinality(toCli)
          /\ Cardinality(toCli) \in Nat /\ Cardinality(toCli \ {s}) \in Nat
      BY FS_Subset, FS_CardinalityType DEF HostsInv
    <3> QED
      BY <3>1, HostsAssumption DEF HostsInv
  <2> QED
    BY <1>7, <2>1 DEF HostsInv
<1> QED
  BY <1>3, <1>4, <1>5, <1>6, <1>7 DEF Host, Lose

(* The server's answers leave, or none of them does. *)
LEMMA AnswersLeave ==
  ASSUME HostsInv, NEW segs \in SUBSET AnswerRec, IsFiniteSet(segs), ToCli(segs)
  PROVE  HostsInv' /\ toCli' \subseteq toCli \cup segs
<1>1. IsFiniteSet(toCli \cup segs)
  BY FS_Union DEF HostsInv
<1> QED
  BY <1>1 DEF HostsInv, ToCli
-----------------------------------------------------------------------------
(***************************************************************************)
(* The server.                                                             *)
(***************************************************************************)

ConnRec == [st : States, peer : AllHosts, rcv : Nat, snd : Nat, len : 0..Gap,
            timer : 0..TimerMod - 1, nrtx : 0..MaxRtx, got : Seq(Nat), base : Nat, age : Nat]

(* The number a is acknowledged with the bytes T taken: every byte of a host *)
(* that it confirms is one of them.                                         *)
Confirms(a, T) ==
  \A k \in 1..Len(Units) : \A u \in 1..Units[k] :
    (a > k * Gap + u /\ a <= (k + 1) * Gap) => k * Gap + u \in T

(* The application has got the stream of the connection up to rcv_nxt. *)
Streamed(c) ==
  /\ \A k \in 1..Len(c.got) : c.got[k] = c.base + k - 1
  /\ c.st \in {"SYN_RCVD", "ESTABLISHED"} => c.rcv = c.base + Len(c.got)

(* The bytes of a host among those taken; the bytes d of it, as taken has them. *)
Of(p, T) == {b \in Nat : <<p, b>> \in T}
Tagged(p, d) == {<<p, b>> : b \in Range(d)}

Good(c, T) == c.st # "CLOSED" => Streamed(c) /\ Confirms(c.rcv, Of(c.peer, T))

Honest(s, T) == s.flags # "RST|ACK" => Confirms(s.ack, Of(s.peer, T))

IInv ==
  /\ conns \in [Conns -> ConnRec]
  /\ taken \subseteq AllHosts \X Nat
  /\ HostsInv
  /\ \A i \in Conns : Good(conns[i], taken)
  /\ \A s \in toCli : Honest(s, taken)

(* A slot may be given c: it does not change hands while it is in use. *)
KeepsSlot(i, c) ==
  c.base # conns[i].base /\ c.st # "CLOSED" => conns[i].st \in {"CLOSED", "TIME_WAIT"}

SlotsKept == \A i \in Conns : KeepsSlot(i, conns'[i])

-----------------------------------------------------------------------------
(* Which numbers confirm which bytes. *)
LEMMA ConfirmsMono ==
  ASSUME NEW a, NEW T, NEW U, T \subseteq U, Confirms(a, T)
  PROVE  Confirms(a, U)
BY DEF Confirms

LEMMA OfMono ==
  ASSUME NEW a, NEW p, NEW T, NEW U, T \subseteq U, Confirms(a, Of(p, T))
  PROVE  Confirms(a, Of(p, U))
BY ConfirmsMono DEF Of

LEMMA RangeNat ==
  ASSUME NEW d \in Seq(Nat)
  PROVE  Range(d) \subseteq Nat
<1>1. \A k \in DOMAIN d : d[k] \in Nat
  OBVIOUS
<1> QED
  BY <1>1 DEF Range

LEMMA OfMore ==
  ASSUME NEW a, NEW p, NEW T, NEW d \in Seq(Nat), Confirms(a, Of(p, T) \cup Range(d))
  PROVE  Confirms(a, Of(p, T \cup Tagged(p, d)))
<1>1. Of(p, T) \cup Range(d) \subseteq Of(p, T \cup Tagged(p, d))
  BY RangeNat DEF Of, Tagged
<1> QED
  BY <1>1, ConfirmsMono

LEMMA ByteNat ==
  ASSUME NEW k \in 1..Len(Units), NEW u \in 1..Units[k]
  PROVE  /\ k * Gap \in Nat /\ u \in Nat /\ u <= Units[k]
         /\ k \in Nat /\ Gap \in Nat /\ (k + 1) * Gap = k * Gap + Gap
BY GapNat, TimesNat, HostsAssumption

LEMMA ConfirmsData ==
  ASSUME NEW a \in Nat, NEW T, NEW d \in Seq(Nat), Confirms(a, T),
         \A k \in 1..Len(d) : d[k] = a + k - 1
  PROVE  Confirms(a + Len(d), T \cup Range(d))
<1> SUFFICES ASSUME NEW k \in 1..Len(Units), NEW u \in 1..Units[k],
                    a + Len(d) > k * Gap + u, a + Len(d) <= (k + 1) * Gap
             PROVE  k * Gap + u \in T \cup Range(d)
  BY DEF Confirms
<1> DEFINE b == k * Gap + u
           e == (k + 1) * Gap
<1>1. b \in Nat /\ e \in Nat
  <2> DEFINE x == k * Gap
  <2>1. x \in Nat /\ u \in Nat /\ Gap \in Nat /\ e = x + Gap
    BY ByteNat
  <2> HIDE DEF x, e
  <2>2. x + u \in Nat /\ e \in Nat
    BY <2>1
  <2> QED
    BY <2>2 DEF x, e
<1>2. PICK n \in Nat : n = Len(d)
  OBVIOUS
<1>3. a > b /\ a <= e => b \in T
  BY DEF Confirms
<1> HIDE DEF b, e
<1>4. a + n > b /\ a + n <= e
  BY <1>2 DEF b, e
<1>5. CASE a > b
  <2>1. a <= e
    BY <1>1, <1>4
  <2> QED
    BY <1>3, <1>5, <2>1 DEF b
<1>6. CASE ~(a > b)
  <2> DEFINE j == b - a + 1
  <2>1. j \in 1..n /\ a + j - 1 = b
    BY <1>1, <1>4, <1>6
  <2> HIDE DEF j
  <2>2. d[j] = b /\ j \in DOMAIN d
    BY <1>2, <2>1
  <2> QED
    BY <2>2 DEF Range, b
<1> QED
  BY <1>5, <1>6

(* A FIN has no number of a byte. *)
LEMMA ConfirmsFin ==
  ASSUME NEW m \in 1..Len(Units), NEW T, Confirms(FinOf(m), T)
  PROVE  Confirms(FinOf(m) + 1, T)
<1> SUFFICES ASSUME NEW k \in 1..Len(Units), NEW u \in 1..Units[k],
                    FinOf(m) + 1 > k * Gap + u, FinOf(m) + 1 <= (k + 1) * Gap
             PROVE  k * Gap + u \in T
  BY DEF Confirms
<1> DEFINE x == m * Gap
           y == k * Gap
<1>1. /\ x \in Nat /\ y \in Nat /\ u \in Nat /\ u >= 1 /\ u <= Units[k]
      /\ m \in Nat /\ k \in Nat /\ Gap \in Nat
      /\ (m + 1) * Gap = x + Gap /\ (k + 1) * Gap = y + Gap
  BY ByteNat, TimesNat, GapNat, HostsAssumption
<1>2. Units[m] \in Nat /\ Units[m] + 3 <= Gap /\ FinOf(m) = x + 1 + Units[m]
  BY GapNat DEF FinOf
<1>3. FinOf(m) > y + u /\ FinOf(m) <= y + Gap => y + u \in T
  BY <1>1 DEF Confirms
<1>4. k < m => y + Gap <= x
  BY <1>1, TimesMono
<1>5. m < k => x + Gap <= y
  BY <1>1, TimesMono
<1>6. FinOf(m) + 1 > y + u /\ FinOf(m) + 1 <= y + Gap
  BY <1>1
<1> HIDE DEF x, y
<1>7. k = m => x = y /\ u <= Units[m]
  BY <1>1 DEF x, y
<1>8. FinOf(m) # y + u
  BY <1>1, <1>2, <1>4, <1>5, <1>6, <1>7
<1>9. FinOf(m) > y + u /\ FinOf(m) <= y + Gap
  <2>1. PICK f \in Nat : f = FinOf(m)
    BY <1>1, <1>2
  <2>2. f + 1 > y + u /\ f + 1 <= y + Gap /\ f # y + u
    BY <1>6, <1>8, <2>1
  <2>3. f > y + u /\ f <= y + Gap
    BY <1>1, <2>2
  <2> QED
    BY <2>1, <2>3
<1> QED
  BY <1>3, <1>9 DEF y

(* The number after a SYN confirms no byte. *)
LEMMA ConfirmsSyn ==
  ASSUME NEW m \in Nat, NEW T
  PROVE  Confirms(m * Gap + 1, T)
<1> SUFFICES ASSUME NEW k \in 1..Len(Units), NEW u \in 1..Units[k],
                    m * Gap + 1 > k * Gap + u, m * Gap + 1 <= (k + 1) * Gap
             PROVE  FALSE
  BY DEF Confirms
<1> DEFINE x == m * Gap
           y == k * Gap
<1>1. /\ x \in Nat /\ y \in Nat /\ u \in Nat /\ u >= 1
      /\ k \in Nat /\ Gap \in Nat /\ (k + 1) * Gap = y + Gap
  BY ByteNat, TimesNat, GapNat
<1>2. k < m => y + Gap <= x
  BY <1>1, TimesMono
<1>3. m < k => x + Gap <= y
  BY <1>1, GapNat, TimesMono
<1>4. k = m => x = y
  OBVIOUS
<1>5. x + 1 > y + u /\ x + 1 <= y + Gap
  BY <1>1
<1> HIDE DEF x, y
<1> QED
  BY <1>1, <1>2, <1>3, <1>4, <1>5

-----------------------------------------------------------------------------
(* The helpers of uip_process. *)
(* A value the timer of a connection may have. *)
LEMMA TimerValue ==
  /\ TimerMod \in Nat /\ TimeWait \in Nat /\ 0 < TimeWait /\ TimeWait < TimerMod
  /\ 0 \in 0..TimerMod - 1 /\ \A r \in Rtos : r \in Nat /\ r \in 0..TimerMod - 1
  /\ RTO \in Rtos /\ RTO \in Nat
BY UipAssumption

LEMMA ClosedOk == Closed \in ConnRec /\ Closed.st = "CLOSED"
<1>1. (CHOOSE p \in AllHosts : TRUE) \in AllHosts
  BY HostsAssumption DEF AllHosts
<1> DEFINE q == CHOOSE p \in AllHosts : TRUE
<1> HIDE DEF q
<1>2. /\ [st |-> "CLOSED", peer |-> q, rcv |-> 0, snd |-> 0, len |-> 0, timer |-> 0,
          nrtx |-> 0, got |-> <<>>, base |-> 0, age |-> 0] \in ConnRec
      /\ 0 \in 0..MaxRtx /\ 0 \in 0..Gap
  <2>1. /\ 0 \in 0..MaxRtx /\ 0 \in 0..Gap /\ 0 \in 0..TimerMod - 1
        /\ q \in AllHosts /\ <<>> \in Seq(Nat)
    BY <1>1, GapNat, UipAssumption, TimerValue DEF q
  <2> QED
    BY <2>1 DEF ConnRec, States
<1> QED
  BY <1>2 DEF Closed, q

LEMMA ReplyOk ==
  ASSUME NEW c \in ConnRec, NEW d \in Seq(Nat),
         NEW fl \in {"SYN|ACK", "ACK", "PSH|ACK", "FIN|ACK", "RST|ACK"}
  PROVE  /\ Reply(c, fl, d) \in AnswerRec /\ Reply(c, fl, d).ack = c.rcv
         /\ Reply(c, fl, d).flags = fl /\ Reply(c, fl, d).peer = c.peer
BY DEF Reply, Seg, AnswerRec, ConnRec

(* Same connection, so the same claims about its stream. *)
SameStream(c, e) == e.peer = c.peer /\ e.rcv = c.rcv /\ e.got = c.got /\ e.base = c.base

LEMMA AfterAckOk ==
  ASSUME NEW c \in ConnRec, NEW s, NEW rto \in Rtos
  PROVE  LET e == AfterAck(c, s, rto)
         IN e \in ConnRec /\ e.st = c.st /\ SameStream(c, e)
<1> DEFINE n == c.snd + c.len
<1>1. n \in Nat /\ 0 \in 0..Gap /\ rto \in 0..TimerMod - 1
  BY GapNat, TimerValue DEF ConnRec
<1> HIDE DEF n
<1>2. [c EXCEPT !.snd = n, !.timer = rto, !.len = 0] \in ConnRec
  BY <1>1 DEF ConnRec
<1>3. LET e == [c EXCEPT !.snd = n, !.timer = rto, !.len = 0]
      IN e.st = c.st /\ SameStream(c, e)
  BY DEF ConnRec, SameStream
<1> QED
  BY <1>2, <1>3 DEF AfterAck, SameStream, n

LEMMA AcceptOk ==
  ASSUME NEW c \in ConnRec, NEW d \in Seq(Nat)
  PROVE  LET e == Accept(c, d)
         IN /\ e \in ConnRec /\ e.st = c.st /\ e.base = c.base /\ e.peer = c.peer
            /\ e.rcv = c.rcv + Len(d) /\ e.got = c.got \o d
<1> DEFINE n == c.rcv + Len(d)
           g == c.got \o d
<1>1. n \in Nat /\ g \in Seq(Nat)
  BY DEF ConnRec
<1> HIDE DEF n, g
<1>2. LET e == [c EXCEPT !.rcv = n, !.got = g]
      IN /\ e \in ConnRec /\ e.st = c.st /\ e.base = c.base /\ e.peer = c.peer
         /\ e.rcv = n /\ e.got = g
  BY <1>1 DEF ConnRec
<1> QED
  BY <1>2 DEF Accept, n, g

LEMMA EnterOk ==
  ASSUME NEW c \in ConnRec, NEW st \in States
  PROVE  LET e == Enter(c, st) IN e \in ConnRec /\ e.st = st /\ SameStream(c, e)
BY DEF Enter, ConnRec, SameStream

LEMMA AppSendOk ==
  ASSUME NEW c \in ConnRec, NEW d \in Seq(Nat), Len(d) <= Gap, NEW how
  PROVE  LET r == AppSend(c, d, how)
         IN /\ r.conn \in ConnRec /\ r.conn.st \in {c.st, "FIN_WAIT_1"}
            /\ SameStream(c, r.conn)
            /\ r.out \subseteq AnswerRec /\ IsFiniteSet(r.out)
            /\ \A o \in r.out : o.ack = c.rcv /\ o.peer = c.peer
<1>0. 0 \in 0..MaxRtx /\ 1 \in 0..Gap /\ <<>> \in Seq(Nat) /\ Len(d) \in 0..Gap
  BY GapNat, UipAssumption
<1>1. ASSUME NEW o PROVE IsFiniteSet({o}) /\ IsFiniteSet({})
  BY FS_Singleton, FS_EmptySet
<1>2. CASE how = "close"
  <2> DEFINE f == Enter(c, "FIN_WAIT_1")
             e == [f EXCEPT !.len = 1, !.nrtx = 0]
  <2>1. f \in ConnRec /\ f.st = "FIN_WAIT_1" /\ SameStream(c, f)
    BY EnterOk DEF States
  <2> HIDE DEF f
  <2>2. e \in ConnRec /\ e.st = "FIN_WAIT_1" /\ SameStream(c, e)
    BY <1>0, <2>1 DEF ConnRec, SameStream
  <2>3. AppSend(c, d, how) = [conn |-> e, out |-> {Reply(c, "FIN|ACK", <<>>)}]
    BY <1>2 DEF AppSend, f
  <2>4. /\ Reply(c, "FIN|ACK", <<>>) \in AnswerRec /\ Reply(c, "FIN|ACK", <<>>).ack = c.rcv
        /\ Reply(c, "FIN|ACK", <<>>).peer = c.peer
    BY <1>0, ReplyOk
  <2> HIDE DEF e
  <2> QED
    <3> DEFINE o == Reply(c, "FIN|ACK", <<>>)
    <3>1. o \in AnswerRec /\ o.ack = c.rcv /\ o.peer = c.peer /\ IsFiniteSet({o})
      BY <1>1, <2>4
    <3>2. AppSend(c, d, how) = [conn |-> e, out |-> {o}]
      BY <2>3
    <3> HIDE DEF o
    <3>3. /\ {o} \subseteq AnswerRec /\ \A x \in {o} : x.ack = c.rcv /\ x.peer = c.peer
          /\ [conn |-> e, out |-> {o}].conn = e /\ [conn |-> e, out |-> {o}].out = {o}
      BY <3>1
    <3> QED
      BY <2>2, <3>1, <3>2, <3>3
<1>3. CASE how # "close" /\ how = "echo" /\ d # <<>>
  <2> DEFINE n == IF c.len = 0 THEN Len(d) ELSE c.len
             b == [k \in 1..n |-> IF k <= Len(d) THEN d[k] ELSE Junk]
             e == [c EXCEPT !.nrtx = 0, !.len = n]
  <2>1. n \in 0..Gap /\ n \in Nat
    BY <1>0, GapNat DEF ConnRec
  <2>2. AppSend(c, d, how) = [conn |-> e, out |-> {Reply(c, "PSH|ACK", b)}]
    BY <1>3 DEF AppSend
  <2> HIDE DEF n
  <2>3. b \in Seq(Nat)
    <3>1. \A k \in 1..n : (IF k <= Len(d) THEN d[k] ELSE Junk) \in Nat
      BY <2>1 DEF Junk
    <3> QED
      BY <2>1, <3>1
  <2>4. e \in ConnRec /\ e.st = c.st /\ SameStream(c, e)
    BY <1>0, <2>1 DEF ConnRec, SameStream
  <2> HIDE DEF b
  <2>5. /\ Reply(c, "PSH|ACK", b) \in AnswerRec /\ Reply(c, "PSH|ACK", b).ack = c.rcv
        /\ Reply(c, "PSH|ACK", b).peer = c.peer
    BY <2>3, ReplyOk
  <2> HIDE DEF e
  <2> QED
    <3> DEFINE o == Reply(c, "PSH|ACK", b)
    <3>1. o \in AnswerRec /\ o.ack = c.rcv /\ o.peer = c.peer /\ IsFiniteSet({o})
      BY <1>1, <2>5
    <3>2. AppSend(c, d, how) = [conn |-> e, out |-> {o}]
      BY <2>2
    <3> HIDE DEF o
    <3>3. /\ {o} \subseteq AnswerRec /\ \A x \in {o} : x.ack = c.rcv /\ x.peer = c.peer
          /\ [conn |-> e, out |-> {o}].conn = e /\ [conn |-> e, out |-> {o}].out = {o}
      BY <3>1
    <3> QED
      BY <2>4, <3>1, <3>2, <3>3
<1>4. CASE how # "close" /\ ~(how = "echo" /\ d # <<>>)
  <2> DEFINE e == [c EXCEPT !.nrtx = 0]
             o == IF d = <<>> THEN {} ELSE {Reply(c, "ACK", <<>>)}
  <2>1. AppSend(c, d, how) = [conn |-> e, out |-> o]
    BY <1>4 DEF AppSend
  <2>2. e \in ConnRec /\ e.st = c.st /\ SameStream(c, e)
    BY <1>0 DEF ConnRec, SameStream
  <2>3. /\ Reply(c, "ACK", <<>>) \in AnswerRec /\ Reply(c, "ACK", <<>>).ack = c.rcv
        /\ Reply(c, "ACK", <<>>).peer = c.peer
    BY <1>0, ReplyOk
  <2>4. o \subseteq AnswerRec /\ IsFiniteSet(o) /\ \A x \in o : x.ack = c.rcv /\ x.peer = c.peer
    BY <1>1, <2>3
  <2> HIDE DEF e, o
  <2> QED
    BY <2>1, <2>2, <2>4
<1> QED
  BY <1>2, <1>3, <1>4

-----------------------------------------------------------------------------
(* The end of every branch of uip_process. *)
LEMMA DoneOk ==
  ASSUME IInv, NEW i \in Conns, NEW c \in ConnRec, NEW d \in Seq(Nat),
         NEW out \in SUBSET AnswerRec, IsFiniteSet(out),
         Good(c, taken \cup Tagged(c.peer, d)), KeepsSlot(i, c),
         \A o \in out : Honest(o, taken \cup Tagged(c.peer, d)),
         Done(i, c, d, out)
  PROVE  IInv' /\ SlotsKept
<1>1. taken' = taken \cup Tagged(c.peer, d) /\ taken' \subseteq AllHosts \X Nat
  <2>1. Tagged(c.peer, d) \subseteq AllHosts \X Nat
    BY RangeNat DEF Tagged, ConnRec
  <2> QED
    BY <2>1 DEF Done, IInv, Tagged
<1>2. conns' \in [Conns -> ConnRec]
  BY DEF Done, IInv
<1>3. HostsInv' /\ toCli' \subseteq toCli \cup out
  BY AnswersLeave DEF Done, IInv
<1>4. ASSUME NEW j \in Conns PROVE Good(conns[j], taken')
  BY <1>1, OfMono DEF IInv, Good
<1>5. ASSUME NEW j \in Conns PROVE Good(conns'[j], taken')
  <2>1. conns'[j] = IF j = i THEN c ELSE conns[j]
    BY DEF Done, IInv
  <2> QED
    BY <1>1, <1>4, <2>1
<1>6. ASSUME NEW o \in toCli' PROVE Honest(o, taken')
  BY <1>1, <1>3, OfMono DEF IInv, Honest
<1>7. (\A j \in Conns : Good(conns[j], taken))'
  BY <1>5 DEF Good, Streamed, Confirms, Of
<1>8. (\A o \in toCli : Honest(o, taken))'
  BY <1>6 DEF Honest, Confirms, Of
<1>9. SlotsKept
  BY DEF Done, IInv, SlotsKept, KeepsSlot
<1> QED
  BY <1>1, <1>2, <1>3, <1>7, <1>8, <1>9 DEF IInv

LEMMA RangeEmpty == Range(<<>>) = {}
BY DEF Range

LEMMA AnswerOk ==
  ASSUME IInv, NEW i \in Conns, NEW c \in ConnRec,
         NEW out \in SUBSET AnswerRec, IsFiniteSet(out), Good(c, taken), KeepsSlot(i, c),
         \A o \in out : Honest(o, taken),
         Answer(i, c, out)
  PROVE  IInv' /\ SlotsKept
<1>1. <<>> \in Seq(Nat) /\ taken \cup Tagged(c.peer, <<>>) = taken
  BY RangeEmpty DEF Tagged
<1> DEFINE d == <<>>
<1>2. Done(i, c, d, out)
  BY DEF Answer
<1> HIDE DEF d
<1>3. d \in Seq(Nat) /\ taken \cup Tagged(c.peer, d) = taken
  BY <1>1 DEF d
<1> QED
  BY <1>2, <1>3, DoneOk

(* An answer that repeats rcv_nxt of an open connection. *)
LEMMA RepeatOk ==
  ASSUME IInv, NEW i \in Conns, conns[i].st # "CLOSED",
         NEW fl \in {"SYN|ACK", "ACK", "PSH|ACK", "FIN|ACK", "RST|ACK"}
  PROVE  LET o == Reply(conns[i], fl, <<>>)
         IN o \in AnswerRec /\ IsFiniteSet({o}) /\ Honest(o, taken)
<1> DEFINE o == Reply(conns[i], fl, <<>>)
<1>1. conns[i] \in ConnRec /\ <<>> \in Seq(Nat)
  BY DEF IInv
<1>2. o \in AnswerRec /\ o.ack = conns[i].rcv /\ o.peer = conns[i].peer
  BY <1>1, ReplyOk
<1>3. Confirms(conns[i].rcv, Of(conns[i].peer, taken))
  BY DEF IInv, Good
<1> HIDE DEF o
<1>4. IsFiniteSet({o})
  BY FS_Singleton
<1> QED
  BY <1>2, <1>3, <1>4 DEF o, Honest

LEMMA FoundOpen ==
  ASSUME NEW s, NEW i \in Conns, i = Found(s)
  PROVE  conns[i].st # "CLOSED"
<1> DEFINE open == {j \in Conns : conns[j].st # "CLOSED" /\ conns[j].peer = s.peer}
<1>1. open # {} => Min(open) \in open
  <2>1. open \in SUBSET Nat
    BY UipAssumption
  <2> HIDE DEF open
  <2> QED
    BY <2>1, MinIn
<1>2. 0 \notin Conns
  BY UipAssumption
<1>3. open # {} /\ i = Min(open)
  BY <1>2 DEF Found
<1> QED
  BY <1>1, <1>3

(* A segment that begins at rcv_nxt. *)
LEMMA InOrderOk ==
  ASSUME IInv, NEW s, SegmentOk(s), NEW i \in Conns, NEW st, st # "CLOSED",
         InOrder(s, i, st)
  PROVE  LET c == conns[i]
             T == Of(c.peer, taken \cup Tagged(c.peer, s.data))
         IN /\ c \in ConnRec /\ c.st = st /\ Streamed(c)
            /\ s.data \in Seq(Nat) /\ Len(s.data) <= Gap
            /\ \A k \in 1..Len(s.data) : s.data[k] = c.rcv + k - 1
            /\ Confirms(c.rcv + Len(s.data), T)
            /\ s.flags = "FIN|ACK" => Confirms(c.rcv + Len(s.data) + 1, T)
<1> DEFINE c == conns[i]
           d == s.data
           B == Of(c.peer, taken)
           T == B \cup Range(d)
<1>1. c \in ConnRec /\ c.st = st /\ Streamed(c) /\ Confirms(c.rcv, B)
  BY DEF IInv, InOrder, Good
<1>2. d \in Seq(Nat) /\ Len(d) <= Gap
  <2>1. PICK n \in Nat : n = Len(d)
    BY DEF SegmentOk
  <2>2. d \in Seq(Nat) /\ n + 3 <= Gap /\ Gap \in Nat
    BY <2>1, GapNat DEF SegmentOk
  <2> QED
    BY <2>1, <2>2
<1>3. d # <<>> \/ s.flags = "FIN|ACK" => s.seq = c.rcv
  BY DEF InOrder, OutOfOrder
<1>4. \A k \in 1..Len(d) : d[k] = c.rcv + k - 1
  <2>1. SUFFICES ASSUME NEW k \in 1..Len(d) PROVE d[k] = c.rcv + k - 1
    OBVIOUS
  <2>2. d # <<>>
    BY <1>2, <2>1
  <2> QED
    BY <1>3, <2>2 DEF SegmentOk
<1>5. c.rcv \in Nat
  BY <1>1 DEF ConnRec
<1>6. Confirms(c.rcv + Len(d), T)
  <2> HIDE DEF c, d, B
  <2> QED
    BY <1>1, <1>2, <1>4, <1>5, ConfirmsData
<1>7. ASSUME s.flags = "FIN|ACK"
      PROVE  Confirms(c.rcv + Len(d) + 1, T)
  <2>1. PICK m \in 1..Len(Units) : s.seq + Len(d) = FinOf(m)
    BY <1>7 DEF SegmentOk
  <2>2. c.rcv + Len(d) = FinOf(m)
    BY <1>3, <1>7, <2>1
  <2> HIDE DEF T, c, d
  <2>3. Confirms(FinOf(m) + 1, T)
    BY <1>6, <2>2, ConfirmsFin
  <2> QED
    BY <2>2, <2>3
<1>8. \A x : Confirms(x, T) => Confirms(x, Of(c.peer, taken \cup Tagged(c.peer, d)))
  <2> DEFINE p == c.peer
  <2> HIDE DEF p, d
  <2>1. \A x : Confirms(x, Of(p, taken) \cup Range(d)) => Confirms(x, Of(p, taken \cup Tagged(p, d)))
    BY <1>2, OfMore
  <2> QED
    BY <2>1 DEF p
<1> HIDE DEF T, B
<1> QED
  BY <1>1, <1>2, <1>4, <1>6, <1>7, <1>8

-----------------------------------------------------------------------------
(* The ways through uip_process. *)
LEMMA SlotForSynOk ==
  SlotForSyn # 0 =>
    SlotForSyn \in Conns /\ conns[SlotForSyn].st \in {"CLOSED", "TIME_WAIT"}
<1> DEFINE free == {i \in Conns : conns[i].st = "CLOSED"}
           old  == {i \in Conns : /\ conns[i].st = "TIME_WAIT"
                                  /\ \A j \in Conns : conns[j].st = "TIME_WAIT" =>
                                        conns[j].timer <= conns[i].timer}
<1>1. ASSUME NEW S \in SUBSET Conns, S # {} PROVE Min(S) \in S
  <2>1. S \in SUBSET Nat
    BY UipAssumption
  <2> QED
    BY <1>1, <2>1, MinIn
<1>2. SlotForSyn = IF free # {} THEN Min(free) ELSE IF old # {} THEN Min(old) ELSE 0
  BY DEF SlotForSyn
<1>3. (free # {} => Min(free) \in free) /\ (old # {} => Min(old) \in old)
  BY <1>1
<1> QED
  BY <1>2, <1>3

LEMMA ListenOk ==
  ASSUME IInv, NEW s, SegmentOk(s), NEW iss \in Iss, Listen(s, iss)
  PROVE  IInv' /\ SlotsKept
<1> DEFINE n == s.seq + 1
           e == [Closed EXCEPT !.st = "SYN_RCVD", !.peer = s.peer, !.rcv = n, !.base = n,
                               !.snd = iss, !.len = 1, !.timer = RTO]
           o == Reply(e, "SYN|ACK", <<>>)
<1>1. s.seq \in Nat /\ n \in Nat /\ s.peer \in AllHosts
  BY DEF SegmentOk
<1>2. PICK m \in Nat : s.seq = m * Gap
  BY DEF Listen, SegmentOk
<1>3. Confirms(n, Of(s.peer, taken))
  BY <1>2, ConfirmsSyn
<1>4. SlotForSyn \in Conns /\ Answer(SlotForSyn, e, {o})
  BY SlotForSynOk DEF Listen
<1> HIDE DEF n
<1>5. /\ e \in ConnRec /\ e.st = "SYN_RCVD" /\ e.rcv = n /\ e.base = n /\ e.got = <<>>
      /\ e.peer = s.peer
  <2>1. 1 \in 0..Gap /\ iss \in Nat /\ RTO \in 0..TimerMod - 1
    BY GapNat, UipAssumption, TimerValue
  <2>2. Closed \in ConnRec /\ Closed.got = <<>>
    BY ClosedOk DEF Closed
  <2> QED
    BY <1>1, <2>1, <2>2 DEF ConnRec, States
<1>6. Good(e, taken)
  <2>1. Streamed(e)
    BY <1>1, <1>5 DEF Streamed
  <2> QED
    BY <1>3, <1>5, <2>1 DEF Good
<1> HIDE DEF e
<1>7. o \in AnswerRec /\ o.ack = n /\ o.peer = s.peer
  <2>1. <<>> \in Seq(Nat)
    OBVIOUS
  <2> QED
    BY <1>5, <2>1, ReplyOk
<1> HIDE DEF o
<1>8. IsFiniteSet({o}) /\ Honest(o, taken)
  BY <1>3, <1>7, FS_Singleton DEF Honest
<1>9. KeepsSlot(SlotForSyn, e)
  BY SlotForSynOk DEF Listen, KeepsSlot
<1> QED
  BY <1>4, <1>5, <1>6, <1>7, <1>8, <1>9, AnswerOk

LEMMA ResetOk ==
  ASSUME IInv, NEW s, SegmentOk(s), Reset(s)
  PROVE  IInv' /\ SlotsKept
<1> DEFINE n == s.seq + 1
           o == Seg(s.peer, "RST|ACK", s.ack, n, <<>>)
<1>1. n \in Nat
  BY DEF SegmentOk
<1> HIDE DEF n
<1>2. o \in AnswerRec /\ o.flags = "RST|ACK"
  BY <1>1 DEF Seg, AnswerRec, SegmentOk
<1>3. ToCli({o}) /\ UNCHANGED server
  BY DEF Reset, n
<1> HIDE DEF o
<1>4. HostsInv' /\ toCli' \subseteq toCli \cup {o}
  BY <1>2, <1>3, FS_Singleton, AnswersLeave DEF IInv
<1>5. \A x \in toCli' : Honest(x, taken)
  BY <1>2, <1>4 DEF IInv, Honest
<1> QED
  BY <1>3, <1>4, <1>5
     DEF IInv, server, Good, Streamed, Honest, Confirms, Of, SlotsKept, KeepsSlot

LEMMA RecvRstOk ==
  ASSUME IInv, NEW s, NEW i \in Conns, RecvRst(s, i)
  PROVE  IInv' /\ SlotsKept
<1>1. Good(Closed, taken)
  BY ClosedOk DEF Good
<1>2. KeepsSlot(i, Closed)
  BY ClosedOk DEF KeepsSlot
<1> QED
  BY <1>1, <1>2, ClosedOk, FS_EmptySet, AnswerOk DEF RecvRst

LEMMA RecvOutOfOrderOk ==
  ASSUME IInv, NEW s, NEW i \in Conns, conns[i].st # "CLOSED", RecvOutOfOrder(s, i)
  PROVE  IInv' /\ SlotsKept
<1> DEFINE o == Reply(conns[i], "ACK", <<>>)
<1>1. o \in AnswerRec /\ IsFiniteSet({o}) /\ Honest(o, taken)
  BY RepeatOk
<1>2. conns[i] \in ConnRec /\ Good(conns[i], taken)
  BY DEF IInv
<1>3. KeepsSlot(i, conns[i])
  BY DEF KeepsSlot
<1> QED
  BY <1>1, <1>2, <1>3, AnswerOk DEF RecvOutOfOrder

(* A stream that goes on with the bytes after it. *)
LEMMA StreamGoesOn ==
  ASSUME NEW g \in Seq(Nat), NEW d \in Seq(Nat), NEW b \in Nat, NEW r \in Nat,
         r = b + Len(g),
         \A k \in 1..Len(g) : g[k] = b + k - 1,
         \A k \in 1..Len(d) : d[k] = r + k - 1
  PROVE  /\ \A k \in 1..Len(g \o d) : (g \o d)[k] = b + k - 1
         /\ r + Len(d) = b + Len(g \o d)
<1>1. PICK m \in Nat, n \in Nat : m = Len(g) /\ n = Len(d)
  OBVIOUS
<1>2. Len(g \o d) = m + n
  BY <1>1
<1>3. ASSUME NEW k \in 1..(m + n) PROVE (g \o d)[k] = b + k - 1
  <2>1. CASE k <= m
    BY <1>1, <2>1
  <2>2. CASE k > m
    <3> DEFINE j == k - m
    <3>1. j \in 1..n /\ k = m + j
      BY <1>1, <2>2
    <3>2. (g \o d)[k] = d[j]
      BY <1>1, <2>2
    <3> HIDE DEF j
    <3>3. d[j] = r + j - 1
      BY <1>1, <3>1
    <3> QED
      BY <1>1, <3>1, <3>2, <3>3
  <2> QED
    BY <1>1, <2>1, <2>2
<1> QED
  BY <1>1, <1>2, <1>3

(* Taking data that the application gets. *)
LEMMA GiveOk ==
  ASSUME IInv, NEW s, SegmentOk(s), NEW i \in Conns, NEW st \in {"SYN_RCVD", "ESTABLISHED"},
         InOrder(s, i, st), NEW c \in ConnRec, c.st = st, SameStream(conns[i], c)
  PROVE  LET e == Accept(c, s.data)
         IN /\ e \in ConnRec /\ e.st = st /\ Streamed(e) /\ e.rcv = e.base + Len(e.got)
            /\ e.rcv = conns[i].rcv + Len(s.data) /\ e.base = conns[i].base
            /\ e.peer = conns[i].peer
<1> DEFINE d == s.data
           e == Accept(c, d)
<1>1. /\ conns[i] \in ConnRec /\ conns[i].st = st /\ Streamed(conns[i])
      /\ d \in Seq(Nat) /\ \A k \in 1..Len(d) : d[k] = conns[i].rcv + k - 1
  <2>1. st # "CLOSED"
    OBVIOUS
  <2> QED
    BY <2>1, InOrderOk
<1> HIDE DEF d
<1>2. /\ e \in ConnRec /\ e.st = st /\ e.base = c.base /\ e.peer = c.peer
      /\ e.rcv = c.rcv + Len(d) /\ e.got = c.got \o d
  BY <1>1, AcceptOk
<1> HIDE DEF e
<1>3. /\ c.rcv \in Nat /\ c.base \in Nat /\ c.got \in Seq(Nat)
      /\ c.rcv = c.base + Len(c.got) /\ c.rcv = conns[i].rcv
      /\ \A k \in 1..Len(c.got) : c.got[k] = c.base + k - 1
  BY <1>1 DEF ConnRec, SameStream, Streamed
<1>4. /\ \A k \in 1..Len(e.got) : e.got[k] = e.base + k - 1
      /\ e.rcv = e.base + Len(e.got)
  <2>1. \A k \in 1..Len(d) : d[k] = c.rcv + k - 1
    BY <1>1, <1>3
  <2>2. /\ \A k \in 1..Len(c.got \o d) : (c.got \o d)[k] = c.base + k - 1
        /\ c.rcv + Len(d) = c.base + Len(c.got \o d)
    BY <1>1, <1>3, <2>1, StreamGoesOn
  <2> QED
    BY <1>2, <2>2
<1> QED
  BY <1>2, <1>3, <1>4 DEF e, d, Streamed, SameStream

(* ... and that it reacts to. *)
LEMMA ReactOk ==
  ASSUME IInv, NEW s, SegmentOk(s), NEW i \in Conns, NEW st \in {"SYN_RCVD", "ESTABLISHED"},
         InOrder(s, i, st), NEW e \in ConnRec, e.st = "ESTABLISHED", Streamed(e),
         e.rcv = conns[i].rcv + Len(s.data), e.base = conns[i].base,
         e.peer = conns[i].peer, NEW how,
         LET r == AppSend(e, s.data, how) IN Done(i, r.conn, s.data, r.out)
  PROVE  IInv' /\ SlotsKept
<1> DEFINE d == s.data
           r == AppSend(e, d, how)
           T == taken \cup Tagged(e.peer, d)
<1>1. d \in Seq(Nat) /\ Len(d) <= Gap /\ Confirms(e.rcv, Of(e.peer, T))
  <2>1. st # "CLOSED"
    OBVIOUS
  <2> QED
    BY <2>1, InOrderOk
<1> HIDE DEF d, T
<1>2. /\ r.conn \in ConnRec /\ r.conn.st \in {"ESTABLISHED", "FIN_WAIT_1"}
      /\ SameStream(e, r.conn) /\ r.out \in SUBSET AnswerRec /\ IsFiniteSet(r.out)
      /\ \A o \in r.out : o.ack = e.rcv /\ o.peer = e.peer
  BY <1>1, AppSendOk
<1>3. Done(i, r.conn, d, r.out)
  BY DEF d
<1> HIDE DEF r
<1>4. Good(r.conn, T)
  BY <1>1, <1>2 DEF Good, Streamed, SameStream
<1>5. \A o \in r.out : Honest(o, T)
  BY <1>1, <1>2 DEF Honest
<1>6. KeepsSlot(i, r.conn)
  BY <1>2 DEF SameStream, KeepsSlot
<1>7. T = taken \cup Tagged(r.conn.peer, d)
  BY <1>2 DEF T, SameStream
<1> QED
  BY <1>1, <1>2, <1>3, <1>4, <1>5, <1>6, <1>7, DoneOk

LEMMA RecvInSynRcvdOk ==
  ASSUME IInv, NEW s, SegmentOk(s), NEW i \in Conns, NEW rto \in Rtos, NEW how,
         RecvInSynRcvd(s, i, rto, how)
  PROVE  IInv' /\ SlotsKept
<1> DEFINE a == AfterAck(conns[i], s, rto)
           b == Accept(a, s.data)
           c == Enter(b, "ESTABLISHED")
<1>1. rto \in Rtos /\ conns[i] \in ConnRec /\ InOrder(s, i, "SYN_RCVD") /\ conns[i].st = "SYN_RCVD"
  BY UipAssumption DEF IInv, RecvInSynRcvd, InOrder
<1>2. a \in ConnRec /\ a.st = "SYN_RCVD" /\ SameStream(conns[i], a)
  BY <1>1, AfterAckOk
<1> HIDE DEF a
<1>3. /\ b \in ConnRec /\ b.st = "SYN_RCVD" /\ Streamed(b) /\ b.rcv = b.base + Len(b.got)
      /\ b.rcv = conns[i].rcv + Len(s.data) /\ b.base = conns[i].base
      /\ b.peer = conns[i].peer
  BY <1>1, <1>2, GiveOk
<1> HIDE DEF b
<1>4. c \in ConnRec /\ c.st = "ESTABLISHED" /\ SameStream(b, c)
  BY <1>3, EnterOk DEF States
<1> HIDE DEF c
<1>5. /\ Streamed(c) /\ c.rcv = conns[i].rcv + Len(s.data) /\ c.base = conns[i].base
      /\ c.peer = conns[i].peer
  BY <1>3, <1>4 DEF Streamed, SameStream
<1>6. LET r == AppSend(c, s.data, how) IN Done(i, r.conn, s.data, r.out)
  BY DEF RecvInSynRcvd, a, b, c
<1> QED
  BY <1>1, <1>4, <1>5, <1>6, ReactOk

LEMMA RecvInEstablishedOk ==
  ASSUME IInv, NEW s, SegmentOk(s), NEW i \in Conns, NEW rto \in Rtos, NEW how,
         RecvInEstablished(s, i, rto, how)
  PROVE  IInv' /\ SlotsKept
<1> DEFINE a == AfterAck(conns[i], s, rto)
           c == Accept(a, s.data)
<1>1. /\ rto \in Rtos /\ conns[i] \in ConnRec /\ InOrder(s, i, "ESTABLISHED")
      /\ conns[i].st = "ESTABLISHED"
  BY UipAssumption DEF IInv, RecvInEstablished, InOrder
<1>2. a \in ConnRec /\ a.st = "ESTABLISHED" /\ SameStream(conns[i], a)
  BY <1>1, AfterAckOk
<1> HIDE DEF a
<1>3. /\ c \in ConnRec /\ c.st = "ESTABLISHED" /\ Streamed(c)
      /\ c.rcv = conns[i].rcv + Len(s.data) /\ c.base = conns[i].base
      /\ c.peer = conns[i].peer
  BY <1>1, <1>2, GiveOk
<1> HIDE DEF c
<1>4. LET r == AppSend(c, s.data, how) IN Done(i, r.conn, s.data, r.out)
  BY DEF RecvInEstablished, a, c
<1> QED
  BY <1>1, <1>3, <1>4, ReactOk

(* Nothing of the stream follows a FIN: it confirms the FIN and the data. *)
LEMMA RecvFinOk ==
  ASSUME IInv, NEW s, SegmentOk(s), NEW i \in Conns, NEW rto \in Rtos, RecvFin(s, i, rto)
  PROVE  IInv' /\ SlotsKept
<1> DEFINE d == s.data
           T == taken \cup Tagged(conns[i].peer, d)
           a == AfterAck(conns[i], s, rto)
           b == Accept(a, d)
           c == Enter(b, "LAST_ACK")
           n == c.rcv + 1
           f == [c EXCEPT !.rcv = n, !.len = 1, !.nrtx = 0]
           o == Reply(f, "FIN|ACK", <<>>)
<1>1. /\ rto \in Rtos /\ conns[i] \in ConnRec /\ InOrder(s, i, "ESTABLISHED")
      /\ conns[i].st = "ESTABLISHED" /\ s.flags = "FIN|ACK"
  BY UipAssumption DEF IInv, RecvFin, InOrder
<1>2. d \in Seq(Nat) /\ Confirms(conns[i].rcv + Len(d) + 1, Of(conns[i].peer, T))
  BY <1>1, InOrderOk
<1>3. a \in ConnRec /\ a.st = "ESTABLISHED" /\ SameStream(conns[i], a)
  BY <1>1, AfterAckOk
<1>4. Done(i, f, d, {o})
  BY DEF RecvFin
<1> HIDE DEF a
<1>5. /\ b \in ConnRec /\ Streamed(b)
      /\ b.rcv = conns[i].rcv + Len(d) /\ b.base = conns[i].base
      /\ b.peer = conns[i].peer
  BY <1>1, <1>3, GiveOk
<1> HIDE DEF b, d, T
<1>6. c \in ConnRec /\ c.st = "LAST_ACK" /\ SameStream(b, c)
  BY <1>5, EnterOk DEF States
<1> HIDE DEF c
<1>7. n \in Nat /\ n = conns[i].rcv + Len(d) + 1
  BY <1>5, <1>6 DEF ConnRec, SameStream
<1> HIDE DEF n
<1>8. /\ f \in ConnRec /\ f.st = "LAST_ACK" /\ f.rcv = n /\ f.got = c.got /\ f.base = c.base
      /\ f.peer = conns[i].peer
  <2>1. 0 \in 0..MaxRtx /\ 1 \in 0..Gap
    BY GapNat, UipAssumption
  <2> QED
    BY <1>5, <1>6, <1>7, <2>1 DEF ConnRec, SameStream
<1> HIDE DEF f
<1>9. Good(f, T)
  BY <1>2, <1>5, <1>6, <1>7, <1>8 DEF Good, Streamed, SameStream
<1>10. o \in AnswerRec /\ o.ack = n /\ o.peer = conns[i].peer
  <2>1. <<>> \in Seq(Nat)
    OBVIOUS
  <2> QED
    BY <1>8, <2>1, ReplyOk
<1> HIDE DEF o
<1>11. IsFiniteSet({o}) /\ Honest(o, T)
  BY <1>2, <1>7, <1>10, FS_Singleton DEF Honest
<1>12. KeepsSlot(i, f)
  BY <1>5, <1>6, <1>8 DEF SameStream, KeepsSlot
<1>13. T = taken \cup Tagged(f.peer, d)
  BY <1>8 DEF T
<1> QED
  BY <1>2, <1>4, <1>8, <1>9, <1>10, <1>11, <1>12, <1>13, DoneOk

(* After uip_close: the data is taken and thrown away. *)
LEMMA RefuseOk ==
  ASSUME IInv, NEW s, SegmentOk(s), NEW i \in Conns, NEW st, st # "CLOSED", InOrder(s, i, st),
         NEW c \in ConnRec, c.st \notin {"CLOSED", "SYN_RCVD", "ESTABLISHED"},
         SameStream(conns[i], c), NEW out \in SUBSET AnswerRec, IsFiniteSet(out),
         \A o \in out : o.ack = c.rcv + Len(s.data) + (IF s.flags = "FIN|ACK" THEN 1 ELSE 0)
                        /\ o.peer = c.peer,
         Refuse(i, c, s, out)
  PROVE  IInv' /\ SlotsKept
<1> DEFINE d == s.data
           T == taken \cup Tagged(conns[i].peer, d)
           B == Of(conns[i].peer, T)
           n == c.rcv + Len(d) + (IF s.flags = "FIN|ACK" THEN 1 ELSE 0)
           f == [c EXCEPT !.rcv = n]
<1>1. /\ conns[i] \in ConnRec /\ Streamed(conns[i]) /\ d \in Seq(Nat)
      /\ Confirms(conns[i].rcv + Len(d), B)
      /\ s.flags = "FIN|ACK" => Confirms(conns[i].rcv + Len(d) + 1, B)
  BY InOrderOk
<1>2. Done(i, f, d, out)
  BY DEF Refuse
<1>3. c.rcv = conns[i].rcv /\ c.rcv \in Nat /\ Len(d) \in Nat
  BY <1>1 DEF SameStream, ConnRec
<1> HIDE DEF d, T, B
<1>4. n \in Nat /\ Confirms(n, B)
  BY <1>1, <1>3
<1>5. \A o \in out : o.ack = n /\ o.peer = conns[i].peer
  BY DEF d, SameStream
<1> HIDE DEF n
<1>6. /\ f \in ConnRec /\ f.st = c.st /\ f.rcv = n /\ f.got = c.got /\ f.base = c.base
      /\ f.peer = conns[i].peer
  BY <1>4 DEF ConnRec, SameStream
<1> HIDE DEF f
<1>7. Good(f, T)
  BY <1>1, <1>4, <1>6 DEF Good, Streamed, SameStream, B
<1>8. \A o \in out : Honest(o, T)
  BY <1>4, <1>5 DEF Honest, B
<1>9. KeepsSlot(i, f)
  BY <1>6 DEF SameStream, KeepsSlot
<1>10. T = taken \cup Tagged(f.peer, d)
  BY <1>6 DEF T
<1> QED
  BY <1>1, <1>2, <1>6, <1>7, <1>8, <1>9, <1>10, DoneOk

(* ... and confirmed. *)
LEMMA RefusalOk ==
  ASSUME NEW c \in ConnRec, NEW s, s.data \in Seq(Nat)
  PROVE  LET n == c.rcv + Len(s.data) + (IF s.flags = "FIN|ACK" THEN 1 ELSE 0)
             o == Reply([c EXCEPT !.rcv = @ + Len(s.data) + (IF s.flags = "FIN|ACK" THEN 1 ELSE 0)],
                        "ACK", <<>>)
         IN /\ {o} \subseteq AnswerRec /\ IsFiniteSet({o})
            /\ \A x \in {o} : x.ack = n /\ x.peer = c.peer
<1> DEFINE n == c.rcv + Len(s.data) + (IF s.flags = "FIN|ACK" THEN 1 ELSE 0)
           f == [c EXCEPT !.rcv = n]
           o == Reply(f, "ACK", <<>>)
<1>1. n \in Nat
  BY DEF ConnRec
<1> HIDE DEF n
<1>2. f \in ConnRec /\ f.rcv = n /\ f.peer = c.peer
  BY <1>1 DEF ConnRec
<1> HIDE DEF f
<1>3. o \in AnswerRec /\ o.ack = n /\ o.peer = c.peer
  <2>1. <<>> \in Seq(Nat)
    OBVIOUS
  <2> QED
    BY <1>2, <2>1, ReplyOk
<1> HIDE DEF o
<1>4. {o} \subseteq AnswerRec /\ IsFiniteSet({o}) /\ \A x \in {o} : x.ack = n /\ x.peer = c.peer
  BY <1>3, FS_Singleton
<1> QED
  BY <1>4 DEF o, f, n

LEMMA RecvInFinWait1Ok ==
  ASSUME IInv, NEW s, SegmentOk(s), NEW i \in Conns, NEW rto \in Rtos, RecvInFinWait1(s, i, rto)
  PROVE  IInv' /\ SlotsKept
<1> DEFINE c == AfterAck(conns[i], s, rto)
           acked == AcksAll(conns[i], s)
           fin == s.flags = "FIN|ACK"
           n == IF fin
                THEN IF acked THEN [Enter(c, "TIME_WAIT") EXCEPT !.timer = 0]
                              ELSE Enter(c, "CLOSING")
                ELSE IF acked THEN Enter(c, "FIN_WAIT_2") ELSE c
           o == Reply([c EXCEPT !.rcv = @ + Len(s.data) + (IF s.flags = "FIN|ACK" THEN 1 ELSE 0)],
                      "ACK", <<>>)
           out == IF fin \/ ~acked THEN {o} ELSE {}
           m == c.rcv + Len(s.data) + (IF s.flags = "FIN|ACK" THEN 1 ELSE 0)
<1>1. /\ rto \in Rtos /\ conns[i] \in ConnRec /\ InOrder(s, i, "FIN_WAIT_1")
      /\ conns[i].st = "FIN_WAIT_1"
  BY UipAssumption DEF IInv, RecvInFinWait1, InOrder
<1>2. c \in ConnRec /\ c.st = "FIN_WAIT_1" /\ SameStream(conns[i], c)
  BY <1>1, AfterAckOk
<1>3. Refuse(i, n, s, out)
  BY DEF RecvInFinWait1
<1>4. s.data \in Seq(Nat)
  BY DEF SegmentOk
<1> HIDE DEF c, acked, fin
<1>5. /\ n \in ConnRec /\ n.st \in {"TIME_WAIT", "CLOSING", "FIN_WAIT_2", "FIN_WAIT_1"}
      /\ SameStream(c, n)
  <2>1. ASSUME NEW st \in {"TIME_WAIT", "CLOSING", "FIN_WAIT_2"}
        PROVE  Enter(c, st) \in ConnRec /\ Enter(c, st).st = st /\ SameStream(c, Enter(c, st))
    BY <1>2, EnterOk DEF States
  <2> DEFINE e == Enter(c, "TIME_WAIT")
  <2>2. e \in ConnRec /\ e.st = "TIME_WAIT" /\ SameStream(c, e)
    BY <2>1
  <2> HIDE DEF e
  <2>3. LET g == [e EXCEPT !.timer = 0] IN g \in ConnRec /\ g.st = "TIME_WAIT" /\ SameStream(c, g)
    BY <2>2, TimerValue DEF ConnRec, SameStream
  <2> QED
    BY <1>2, <2>1, <2>3 DEF e, SameStream
<1>6. {o} \subseteq AnswerRec /\ IsFiniteSet({o}) /\ \A x \in {o} : x.ack = m /\ x.peer = c.peer
  BY <1>2, <1>4, RefusalOk
<1> HIDE DEF o
<1>7. out \in SUBSET AnswerRec /\ IsFiniteSet(out) /\ \A x \in out : x.ack = m /\ x.peer = c.peer
  BY <1>6, FS_EmptySet
<1>8. m = n.rcv + Len(s.data) + (IF s.flags = "FIN|ACK" THEN 1 ELSE 0) /\ n.peer = c.peer
  BY <1>5 DEF SameStream
<1> HIDE DEF n, out, m
<1>9. SameStream(conns[i], n)
  BY <1>2, <1>5 DEF SameStream
<1> QED
  BY <1>1, <1>3, <1>5, <1>7, <1>8, <1>9, RefuseOk

LEMMA RecvInFinWait2Ok ==
  ASSUME IInv, NEW s, SegmentOk(s), NEW i \in Conns, RecvInFinWait2(s, i)
  PROVE  IInv' /\ SlotsKept
<1> DEFINE c == conns[i]
           n == IF s.flags = "FIN|ACK" THEN [Enter(c, "TIME_WAIT") EXCEPT !.timer = 0] ELSE c
           o == Reply([c EXCEPT !.rcv = @ + Len(s.data) + (IF s.flags = "FIN|ACK" THEN 1 ELSE 0)],
                      "ACK", <<>>)
           m == c.rcv + Len(s.data) + (IF s.flags = "FIN|ACK" THEN 1 ELSE 0)
<1>1. c \in ConnRec /\ InOrder(s, i, "FIN_WAIT_2") /\ c.st = "FIN_WAIT_2"
  BY DEF IInv, RecvInFinWait2, InOrder
<1>2. Refuse(i, n, s, {o})
  BY DEF RecvInFinWait2
<1>3. s.data \in Seq(Nat)
  BY DEF SegmentOk
<1> HIDE DEF c
<1>4. n \in ConnRec /\ n.st \in {"TIME_WAIT", "FIN_WAIT_2"} /\ SameStream(c, n)
  <2> DEFINE e == Enter(c, "TIME_WAIT")
  <2>1. e \in ConnRec /\ e.st = "TIME_WAIT" /\ SameStream(c, e)
    BY <1>1, EnterOk DEF States
  <2> HIDE DEF e
  <2>2. LET g == [e EXCEPT !.timer = 0] IN g \in ConnRec /\ g.st = "TIME_WAIT" /\ SameStream(c, g)
    BY <2>1, TimerValue DEF ConnRec, SameStream
  <2> QED
    BY <1>1, <2>2 DEF e, SameStream
<1>5. {o} \subseteq AnswerRec /\ IsFiniteSet({o}) /\ \A x \in {o} : x.ack = m /\ x.peer = c.peer
  BY <1>1, <1>3, RefusalOk
<1>6. m = n.rcv + Len(s.data) + (IF s.flags = "FIN|ACK" THEN 1 ELSE 0) /\ n.peer = c.peer
  BY <1>4 DEF SameStream
<1> HIDE DEF n, o, m
<1> QED
  BY <1>1, <1>2, <1>4, <1>5, <1>6, RefuseOk DEF c

(* The ways that keep the stream. *)
LEMMA RecvInLastAckOk ==
  ASSUME IInv, NEW s, NEW i \in Conns, RecvInLastAck(s, i)
  PROVE  IInv' /\ SlotsKept
<1>1. Good(Closed, taken)
  BY ClosedOk DEF Good
<1>2. KeepsSlot(i, Closed)
  BY ClosedOk DEF KeepsSlot
<1> QED
  BY <1>1, <1>2, ClosedOk, FS_EmptySet, AnswerOk DEF RecvInLastAck

LEMMA RecvInTimeWaitOk ==
  ASSUME IInv, NEW s, NEW i \in Conns, conns[i].st # "CLOSED", RecvInTimeWait(s, i)
  PROVE  IInv' /\ SlotsKept
<1> DEFINE o == Reply(conns[i], "ACK", <<>>)
<1>1. o \in AnswerRec /\ IsFiniteSet({o}) /\ Honest(o, taken)
  BY RepeatOk
<1>2. conns[i] \in ConnRec /\ Good(conns[i], taken)
  BY DEF IInv
<1>3. KeepsSlot(i, conns[i])
  BY DEF KeepsSlot
<1> QED
  BY <1>1, <1>2, <1>3, AnswerOk DEF RecvInTimeWait

LEMMA RecvInClosingOk ==
  ASSUME IInv, NEW s, NEW i \in Conns, NEW rto \in Rtos, RecvInClosing(s, i, rto)
  PROVE  IInv' /\ SlotsKept
<1> DEFINE a == AfterAck(conns[i], s, rto)
           e == Enter(a, "TIME_WAIT")
           g == [e EXCEPT !.timer = 0]
<1>1. rto \in Rtos /\ conns[i] \in ConnRec /\ conns[i].st = "CLOSING" /\ Answer(i, g, {})
  BY UipAssumption DEF IInv, RecvInClosing, InOrder
<1>2. a \in ConnRec /\ SameStream(conns[i], a)
  BY <1>1, AfterAckOk
<1> HIDE DEF a
<1>3. e \in ConnRec /\ e.st = "TIME_WAIT" /\ SameStream(a, e)
  BY <1>2, EnterOk DEF States
<1> HIDE DEF e
<1>4. g \in ConnRec /\ g.st = "TIME_WAIT" /\ SameStream(conns[i], g)
  BY <1>2, <1>3, TimerValue DEF ConnRec, SameStream
<1> HIDE DEF g
<1>5. Good(g, taken)
  BY <1>1, <1>4 DEF IInv, Good, Streamed, SameStream
<1>6. KeepsSlot(i, g)
  BY <1>4 DEF SameStream, KeepsSlot
<1> QED
  BY <1>1, <1>4, <1>5, <1>6, FS_EmptySet, AnswerOk

LEMMA InputOk ==
  ASSUME IInv, Input
  PROVE  IInv' /\ SlotsKept
<1>1. PICK s \in Arriving : Handle(s)
  BY DEF Input
<1>2. SegmentOk(s)
  BY ArrivingOk DEF IInv
<1>3. ASSUME NEW i \in Conns, i = Found(s) PROVE conns[i].st # "CLOSED"
  BY <1>3, FoundOpen
<1> QED
  BY <1>1, <1>2, <1>3, ListenOk, ResetOk, RecvRstOk, RecvOutOfOrderOk, RecvInLastAckOk,
     RecvInFinWait2Ok, RecvInTimeWaitOk, RecvFinOk, RecvInFinWait1Ok, RecvInClosingOk,
     RecvInSynRcvdOk, RecvInEstablishedOk DEF Handle

-----------------------------------------------------------------------------
(* uip_periodic. *)
LEMMA BackoffNat ==
  ASSUME NEW n \in Nat
  PROVE  Backoff(n) \in Nat
<1> DEFINE e == IF n > 4 THEN 4 ELSE n
           Pow(x) == 2^x
<1>1. Pow(0) = 1 /\ Pow(1) = 2 /\ Pow(2) = 4 /\ Pow(3) = 8 /\ Pow(4) = 16
  OBVIOUS
<1>2. e = 0 \/ e = 1 \/ e = 2 \/ e = 3 \/ e = 4
  OBVIOUS
<1> HIDE DEF e, Pow
<1>3. Pow(e) \in Nat
  BY <1>1, <1>2
<1>4. RTO * Pow(e) \in Nat
  <2> DEFINE b == Pow(e)
  <2> HIDE DEF b
  <2>1. b \in Nat /\ RTO \in Nat
    BY <1>3, UipAssumption DEF b
  <2>2. RTO * b \in Nat
    BY <2>1, TimesNat
  <2> QED
    BY <2>2 DEF b
<1> QED
  BY <1>4 DEF Backoff, e, Pow

LEMMA AgedOk ==
  ASSUME NEW c \in ConnRec
  PROVE  Aged(c) \in ConnRec /\ Aged(c).st = c.st /\ SameStream(c, Aged(c))
<1> DEFINE n == c.age + 1
<1>1. n \in Nat
  BY DEF ConnRec
<1> HIDE DEF n
<1>2. LET e == [c EXCEPT !.age = n] IN e \in ConnRec /\ e.st = c.st /\ SameStream(c, e)
  BY <1>1 DEF ConnRec, SameStream
<1> QED
  BY <1>2 DEF Aged, n, SameStream

(* The timer ends a connection or keeps its stream, and what it sends repeats *)
(* rcv_nxt.                                                                  *)
TimerKeeps(c, r) ==
  /\ r.conn \in ConnRec
  /\ \/ r.conn.st = "CLOSED"
     \/ c.st # "CLOSED" /\ SameStream(c, r.conn) /\ r.conn.st \in {c.st, "FIN_WAIT_1"}
  /\ r.out \subseteq AnswerRec /\ IsFiniteSet(r.out)
  /\ \A o \in r.out : c.st # "CLOSED" /\ (o.flags = "RST|ACK" \/ o.ack = c.rcv)
                                       /\ o.peer = c.peer

LEMMA TimerQuiet ==
  ASSUME NEW c \in ConnRec, NEW e \in ConnRec,
         e.st = "CLOSED" \/ (SameStream(c, e) /\ e.st = c.st)
  PROVE  TimerKeeps(c, [conn |-> e, out |-> {}])
BY FS_EmptySet DEF TimerKeeps

LEMMA TimerSends ==
  ASSUME NEW c \in ConnRec, c.st # "CLOSED", NEW e \in ConnRec,
         e.st = "CLOSED" \/ (SameStream(c, e) /\ e.st = c.st),
         NEW fl \in {"SYN|ACK", "FIN|ACK", "RST|ACK"}
  PROVE  TimerKeeps(c, [conn |-> e, out |-> {Reply(c, fl, <<>>)}])
<1> DEFINE o == Reply(c, fl, <<>>)
<1>1. o \in AnswerRec /\ o.ack = c.rcv /\ o.peer = c.peer
  <2>1. <<>> \in Seq(Nat) /\ fl \in {"SYN|ACK", "ACK", "PSH|ACK", "FIN|ACK", "RST|ACK"}
    OBVIOUS
  <2> QED
    BY <2>1, ReplyOk
<1> HIDE DEF o
<1>2. {o} \subseteq AnswerRec /\ IsFiniteSet({o})
  BY <1>1, FS_Singleton
<1>3. TimerKeeps(c, [conn |-> e, out |-> {o}])
  BY <1>1, <1>2 DEF TimerKeeps
<1> QED
  BY <1>3 DEF o

(* A timer that counts up starts again at 0 when it would pass the last     *)
(* number of a u8_t.                                                        *)
LEMMA CountsOn ==
  ASSUME NEW x \in 0..TimerMod - 1
  PROVE  /\ (x + 1) % TimerMod = IF x + 1 = TimerMod THEN 0 ELSE x + 1
         /\ (x + 1) % TimerMod \in 0..TimerMod - 1
<1>1. TimerMod \in Nat /\ 0 < TimerMod /\ x \in Nat /\ x < TimerMod
  BY TimerValue
<1>2. CASE x + 1 = TimerMod
  BY <1>1, <1>2
<1>3. CASE x + 1 # TimerMod
  BY <1>1, <1>3
<1> QED
  BY <1>1, <1>2, <1>3

LEMMA TimerOk ==
  ASSUME NEW c \in ConnRec, NEW how
  PROVE  TimerKeeps(c, Timer(c, how))
<1>1. CASE c.st = "CLOSED"
  <2>1. Timer(c, how) = [conn |-> c, out |-> {}]
    BY <1>1 DEF Timer
  <2> QED
    BY <1>1, <2>1, TimerQuiet
<1>2. CASE c.st \in {"TIME_WAIT", "FIN_WAIT_2"}
  <2> DEFINE n == (c.timer + 1) % TimerMod
             e == IF n = TimeWait THEN Closed ELSE [c EXCEPT !.timer = n]
  <2>1. Timer(c, how) = [conn |-> e, out |-> {}]
    BY <1>2 DEF Timer
  <2>2. n \in 0..TimerMod - 1
    BY CountsOn DEF ConnRec
  <2> HIDE DEF n
  <2>3. e \in ConnRec /\ (e.st = "CLOSED" \/ (SameStream(c, e) /\ e.st = c.st))
    BY <2>2, ClosedOk DEF ConnRec, SameStream
  <2> HIDE DEF e
  <2> QED
    BY <2>1, <2>3, TimerQuiet
<1>3. CASE c.st \notin {"CLOSED", "TIME_WAIT", "FIN_WAIT_2"}
  <2>1. CASE c.len = 0 /\ c.st = "ESTABLISHED"
    <3>1. Timer(c, how) = AppSend(c, <<>>, how)
      BY <1>3, <2>1 DEF Timer
    <3> DEFINE d == <<>>
    <3>2. d \in Seq(Nat) /\ Len(d) <= Gap
      BY GapNat
    <3> HIDE DEF d
    <3>3. LET r == AppSend(c, d, how)
          IN /\ r.conn \in ConnRec /\ r.conn.st \in {c.st, "FIN_WAIT_1"}
             /\ SameStream(c, r.conn)
             /\ r.out \subseteq AnswerRec /\ IsFiniteSet(r.out)
             /\ \A o \in r.out : o.ack = c.rcv /\ o.peer = c.peer
      BY <3>2, AppSendOk
    <3>4. TimerKeeps(c, AppSend(c, d, how))
      BY <1>3, <3>3 DEF TimerKeeps
    <3> QED
      BY <3>1, <3>4 DEF d
  <2>5. CASE c.len = 0 /\ c.st # "ESTABLISHED"
    <3>1. Timer(c, how) = [conn |-> c, out |-> {}]
      BY <1>3, <2>5 DEF Timer
    <3>2. SameStream(c, c)
      BY DEF SameStream
    <3> QED
      BY <3>1, <3>2, TimerQuiet
  <2>2. CASE c.len # 0 /\ c.timer > 0
    <3> DEFINE n == c.timer - 1
               e == [c EXCEPT !.timer = n]
    <3>1. Timer(c, how) = [conn |-> e, out |-> {}]
      BY <1>3, <2>2 DEF Timer
    <3>2. n \in 0..TimerMod - 1
      BY <2>2, TimerValue DEF ConnRec
    <3> HIDE DEF n
    <3>3. e \in ConnRec /\ SameStream(c, e) /\ e.st = c.st
      BY <3>2 DEF ConnRec, SameStream
    <3> HIDE DEF e
    <3> QED
      BY <3>1, <3>3, TimerQuiet
  <2>3. CASE c.len # 0 /\ ~(c.timer > 0) /\ GivesUp(c)
    <3>1. Timer(c, how) = [conn |-> Closed, out |-> {Reply(c, "RST|ACK", <<>>)}]
      BY <1>3, <2>3 DEF Timer
    <3> QED
      BY <1>3, <3>1, ClosedOk, TimerSends
  <2>4. CASE c.len # 0 /\ ~(c.timer > 0) /\ ~GivesUp(c)
    <3> DEFINE n == c.nrtx + 1
               b == Backoff(c.nrtx)
               e == [c EXCEPT !.timer = b, !.nrtx = n]
    <3>1. Timer(c, how) = [conn |-> e, out |-> Rexmit(c)]
      BY <1>3, <2>4 DEF Timer
    <3>2. n \in 0..MaxRtx /\ b \in 0..TimerMod - 1
      <4>1. c.nrtx \in 0..MaxRtx /\ MaxRtx \in Nat /\ c.nrtx # MaxRtx
        BY <2>4, UipAssumption DEF GivesUp, ConnRec
      <4>2. c.nrtx \in Nat /\ c.nrtx \in 0..MaxRtx - 1
        BY <4>1
      <4>3. b \in Nat /\ b < TimerMod
        BY <4>2, BackoffNat, UipAssumption
      <4> HIDE DEF b
      <4>4. b \in 0..TimerMod - 1
        BY <4>3, TimerValue
      <4> QED
        BY <4>1, <4>4
    <3> HIDE DEF n, b
    <3>3. e \in ConnRec /\ SameStream(c, e) /\ e.st = c.st
      BY <3>2 DEF ConnRec, SameStream
    <3> HIDE DEF e
    <3>4. \/ Rexmit(c) = {} \/ Rexmit(c) = {Reply(c, "SYN|ACK", <<>>)}
          \/ Rexmit(c) = {Reply(c, "FIN|ACK", <<>>)}
      BY DEF Rexmit
    <3>5. CASE Rexmit(c) = {}
      BY <3>1, <3>3, <3>5, TimerQuiet
    <3>6. CASE Rexmit(c) # {}
      <4>1. PICK fl \in {"SYN|ACK", "FIN|ACK", "RST|ACK"} : Rexmit(c) = {Reply(c, fl, <<>>)}
        BY <3>4, <3>6
      <4> QED
        BY <1>3, <3>1, <3>3, <4>1, TimerSends
    <3> QED
      BY <3>5, <3>6
  <2> QED
    BY <2>1, <2>2, <2>3, <2>4, <2>5
<1> QED
  BY <1>1, <1>2, <1>3

LEMMA PeriodicOk ==
  ASSUME IInv, Periodic
  PROVE  IInv' /\ SlotsKept
<1>1. PICK shut \in SUBSET {i \in Conns : conns[i].st = "ESTABLISHED" /\ conns[i].len = 0} :
        LET r == [i \in Conns |-> Timer(Aged(conns[i]), IF i \in shut THEN "close" ELSE "quiet")]
        IN /\ conns' = [i \in Conns |-> r[i].conn]
           /\ ToCli(UNION {r[i].out : i \in Conns})
           /\ UNCHANGED taken
  BY DEF Periodic
<1> DEFINE r == [i \in Conns |-> Timer(Aged(conns[i]), IF i \in shut THEN "close" ELSE "quiet")]
           out == UNION {r[i].out : i \in Conns}
<1>2. ASSUME NEW i \in Conns
      PROVE  /\ TimerKeeps(Aged(conns[i]), r[i]) /\ conns[i] \in ConnRec
             /\ Aged(conns[i]).st = conns[i].st /\ SameStream(conns[i], Aged(conns[i]))
             /\ Good(conns[i], taken)
  <2>1. conns[i] \in ConnRec /\ Good(conns[i], taken)
    BY DEF IInv
  <2>2. Aged(conns[i]) \in ConnRec
    BY <2>1, AgedOk
  <2>3. TimerKeeps(Aged(conns[i]), Timer(Aged(conns[i]), IF i \in shut THEN "close" ELSE "quiet"))
    BY <2>2, TimerOk
  <2> QED
    BY <2>1, <2>3, AgedOk
<1>3. conns' = [i \in Conns |-> r[i].conn] /\ ToCli(out) /\ taken' = taken
  BY <1>1
<1> HIDE DEF r
<1>4. ASSUME NEW i \in Conns
      PROVE  r[i].conn \in ConnRec /\ Good(r[i].conn, taken)
  BY <1>2 DEF TimerKeeps, SameStream, Good, Streamed
<1>5. out \in SUBSET AnswerRec
  BY <1>2 DEF TimerKeeps
<1>6. \A o \in out : Honest(o, taken)
  <2> SUFFICES ASSUME NEW i \in Conns, NEW o \in r[i].out PROVE Honest(o, taken)
    OBVIOUS
  <2> QED
    BY <1>2 DEF TimerKeeps, SameStream, Good, Honest
<1>7. IsFiniteSet(out)
  <2> DEFINE S == {r[i].out : i \in Conns}
  <2>1. IsFiniteSet(S)
    <3> DEFINE f == [i \in Conns |-> r[i].out]
    <3>1. f \in Surjection(Conns, S)
      BY DEF Surjection
    <3> HIDE DEF f, S
    <3> QED
      BY <3>1, UipAssumption, FS_Surjection
  <2>2. \A x \in S : IsFiniteSet(x)
    BY <1>2 DEF TimerKeeps
  <2> HIDE DEF S
  <2> QED
    BY <2>1, <2>2, FS_UNION DEF S
<1> HIDE DEF out
<1>8. HostsInv' /\ toCli' \subseteq toCli \cup out
  BY <1>3, <1>5, <1>7, AnswersLeave DEF IInv
<1>9. conns' \in [Conns -> ConnRec]
  BY <1>3, <1>4
<1>10. (\A i \in Conns : Good(conns[i], taken))'
  BY <1>3, <1>4 DEF Good, Streamed, Confirms, Of
<1>11. (\A o \in toCli : Honest(o, taken))'
  BY <1>3, <1>6, <1>8 DEF IInv, Honest, Confirms, Of
<1>12. SlotsKept
  BY <1>2, <1>3 DEF TimerKeeps, SameStream, SlotsKept, KeepsSlot
<1> QED
  BY <1>3, <1>8, <1>9, <1>10, <1>11, <1>12 DEF IInv

-----------------------------------------------------------------------------
LEMMA InitOk ==
  ASSUME Init
  PROVE  IInv
<1>1. HostsInv
  BY HostsStart DEF Init
<1>2. \A i \in Conns : Good(conns[i], taken)
  BY ClosedOk DEF Init, Good
<1> QED
  BY <1>1, <1>2, ClosedOk DEF Init, HostsInit, IInv

LEMMA OutsideOk ==
  ASSUME IInv, Outside
  PROVE  IInv' /\ SlotsKept
<1>1. HostsInv' /\ toCli' \subseteq toCli /\ UNCHANGED <<conns, taken>>
  BY OutsideHosts DEF Outside, IInv, server
<1> QED
  BY <1>1 DEF IInv, Good, Streamed, Honest, Confirms, Of, SlotsKept, KeepsSlot

LEMMA NextOk ==
  ASSUME IInv, [Next]_vars
  PROVE  IInv' /\ SlotsKept
<1>1. CASE UNCHANGED vars
  BY <1>1 DEF vars, IInv, HostsInv, PastOk, Good, Streamed, Honest, Confirms, Of, SlotsKept, KeepsSlot
<1> QED
  BY <1>1, InputOk, PeriodicOk, OutsideOk DEF Next

(* The inductive invariant: every segment of a host is a cut of one of its  *)
(* streams, every connection has given the application its stream up to     *)
(* rcv_nxt, and rcv_nxt and what was sent confirm only bytes that were      *)
(* taken.                                                                   *)
THEOREM Invariant == Spec => []IInv
BY InitOk, NextOk, PTL DEF Spec

(* Every field of uip_conns keeps its type: what is outstanding fits a      *)
(* segment, and nrtx never passes UIP_MAXRTX.                               *)
THEOREM TypeCorrect == Spec => []TypeOK
<1>1. IInv => TypeOK
  BY DEF IInv, HostsInv, HostsTypeOK, TypeOK, ConnRec, HostRec
<1> QED
  BY <1>1, Invariant, PTL

(* The application is given the bytes of the stream in order, each once,    *)
(* and while it may get some all up to rcv_nxt, for any number of           *)
(* connections, lengths of the streams and losses, and whatever SYNs, data  *)
(* and FINs of the hosts' earlier connections still arrive.                 *)
THEOREM StreamIsIntact == Spec => []StreamIntact
<1>1. IInv => StreamIntact
  BY DEF IInv, Good, Streamed, StreamIntact
<1> QED
  BY <1>1, Invariant, PTL

(* No answer of any branch of uip_process, and no retransmission, confirms  *)
(* a byte that was dropped.                                                 *)
THEOREM AcksAreHonest == Spec => []AcksHonest
<1>1. IInv => AcksHonest
  <2> SUFFICES ASSUME IInv, NEW s \in toCli, s.flags # "RST|ACK",
                      NEW k \in 1..Len(Units), NEW u \in 1..Units[k],
                      s.ack > k * Gap + u, s.ack <= (k + 1) * Gap
               PROVE  <<s.peer, k * Gap + u>> \in taken
    BY DEF AcksHonest
  <2>1. Confirms(s.ack, Of(s.peer, taken))
    BY DEF IInv, Honest
  <2>2. k * Gap + u \in Of(s.peer, taken)
    BY <2>1 DEF Confirms
  <2> QED
    BY <2>2 DEF Of
<1> QED
  BY <1>1, Invariant, PTL

(* A SYN that finds the table full never takes the slot of another host's   *)
(* open connection: a slot changes hands only when it is closed or in       *)
(* TIME_WAIT.                                                               *)
THEOREM SlotsAreNotStolen == Spec => SlotsNotStolen
<1>1. IInv /\ [Next]_vars =>
        [\A i \in Conns :
           conns'[i].base # conns[i].base /\ conns'[i].st # "CLOSED" =>
              conns[i].st \in {"CLOSED", "TIME_WAIT"}]_vars
  BY NextOk DEF SlotsKept, KeepsSlot
<1> QED
  BY <1>1, Invariant, PTL DEF Spec, SlotsNotStolen

-----------------------------------------------------------------------------
(* How long a connection may stay half open.  While its SYN or FIN waits for *)
(* the host, the passes it has waited and those its timer still has are no  *)
(* more than its retransmissions so far take.  In the two states that only  *)
(* count, the passes and those the timer still has to count are no more than*)
(* TimeWait, or, when the timer began at an estimate, than it takes to come *)
(* round.                                                                   *)
Left(t) == IF t < TimeWait THEN TimeWait - t ELSE TimerMod - t + TimeWait

Waits(c) ==
  /\ c.st = "SYN_RCVD" =>
       c.len = 1 /\ c.nrtx <= MaxSynRtx /\ c.age + c.timer < RetrySpan(RTO, c.nrtx)
  /\ c.st = "ESTABLISHED" /\ c.len = 0 => c.timer \in Rtos
  /\ c.st \in {"FIN_WAIT_1", "CLOSING", "LAST_ACK"} =>
       c.len = 1 /\ c.age + c.timer < RetrySpan(Max(Rtos), c.nrtx)
  /\ c.st = "FIN_WAIT_2" => c.age + Left(c.timer) <= TimerMod
  /\ c.st = "TIME_WAIT" => c.age + Left(c.timer) <= TimeWait

WInv == \A i \in Conns : Waits(conns[i])

(* What n retransmissions take, in units of RTO. *)
Shift(n) == IF n <= 5 THEN 2^n - 1 ELSE 16 * n - 49

LEMMA ShiftIs ==
  /\ \A n \in Nat : Shift(n) \in Nat /\ Shift(n + 1) = Shift(n) + 2^(IF n > 4 THEN 4 ELSE n)
  /\ \A n, m \in Nat : n <= m => Shift(n) <= Shift(m)
  /\ Shift(0) = 0
<1> DEFINE Pow(x) == 2^x
<1>1. /\ Pow(0) = 1 /\ Pow(1) = 2 /\ Pow(2) = 4 /\ Pow(3) = 8 /\ Pow(4) = 16 /\ Pow(5) = 32
  OBVIOUS
<1>2. \A n : Shift(n) = IF n <= 5 THEN Pow(n) - 1 ELSE 16 * n - 49
  BY DEF Shift
<1> HIDE DEF Pow
<1>3. ASSUME NEW n \in Nat
      PROVE  Shift(n) = IF n = 0 THEN 0 ELSE IF n = 1 THEN 1 ELSE IF n = 2 THEN 3
                        ELSE IF n = 3 THEN 7 ELSE 16 * n - 49
  <2>1. n > 5 \/ n = 0 \/ n = 1 \/ n = 2 \/ n = 3 \/ n = 4 \/ n = 5
    OBVIOUS
  <2> QED
    BY <1>1, <1>2, <2>1
<1>4. ASSUME NEW n \in Nat
      PROVE  Shift(n) \in Nat /\ Shift(n + 1) = Shift(n) + Pow(IF n > 4 THEN 4 ELSE n)
  <2>1. n > 4 \/ n = 0 \/ n = 1 \/ n = 2 \/ n = 3 \/ n = 4
    OBVIOUS
  <2>2. Shift(n + 1) = IF n + 1 = 0 THEN 0 ELSE IF n + 1 = 1 THEN 1 ELSE IF n + 1 = 2 THEN 3
                       ELSE IF n + 1 = 3 THEN 7 ELSE 16 * (n + 1) - 49
    BY <1>3
  <2> QED
    BY <1>1, <1>3, <2>1, <2>2
<1>5. ASSUME NEW n \in Nat, NEW m \in Nat, n <= m
      PROVE  Shift(n) <= Shift(m)
  BY <1>3, <1>5
<1>6. Shift(0) = 0
  BY <1>3
<1> QED
  BY <1>4, <1>5, <1>6 DEF Pow

(* The span grows by the next retransmission, and with their number. *)
LEMMA SpanIs ==
  ASSUME NEW f \in Nat
  PROVE  /\ \A n \in Nat : RetrySpan(f, n) \in Nat
         /\ RetrySpan(f, 0) = f + 1
         /\ \A n \in Nat : RetrySpan(f, n + 1) = RetrySpan(f, n) + 1 + Backoff(n)
         /\ \A n, m \in Nat : n <= m => RetrySpan(f, n) <= RetrySpan(f, m)
<1>1. \A n : RetrySpan(f, n) = f + 1 + n + RTO * Shift(n)
  BY DEF RetrySpan, Shift
<1>2. RTO \in Nat
  BY UipAssumption
<1>3. ASSUME NEW n \in Nat PROVE RTO * Shift(n) \in Nat
  <2>1. Shift(n) \in Nat
    BY ShiftIs
  <2> QED
    BY <1>2, <2>1, TimesNat
<1>4. ASSUME NEW n \in Nat
      PROVE  RetrySpan(f, n + 1) = RetrySpan(f, n) + 1 + Backoff(n)
  <2> DEFINE a == Shift(n)
             b == Shift(n + 1)
             p == 2^(IF n > 4 THEN 4 ELSE n)
             x == RTO * a
             y == RTO * b
             z == RTO * p
  <2>1. a \in Nat /\ b \in Nat /\ b = a + p
    <3>1. n + 1 \in Nat
      OBVIOUS
    <3>2. Shift(n) \in Nat /\ Shift(n + 1) = Shift(n) + 2^(IF n > 4 THEN 4 ELSE n)
      BY ShiftIs
    <3>3. Shift(n + 1) \in Nat
      BY <3>1, ShiftIs
    <3> QED
      BY <3>2, <3>3
  <2>2. p \in Int
    <3> DEFINE Pow(k) == 2^k
    <3>1. /\ Pow(0) = 1 /\ Pow(1) = 2 /\ Pow(2) = 4 /\ Pow(3) = 8 /\ Pow(4) = 16
      OBVIOUS
    <3> DEFINE e == IF n > 4 THEN 4 ELSE n
    <3>2. e = 0 \/ e = 1 \/ e = 2 \/ e = 3 \/ e = 4
      OBVIOUS
    <3> HIDE DEF e, Pow
    <3>3. Pow(e) \in Int
      BY <3>1, <3>2
    <3> QED
      BY <3>3 DEF e, Pow
  <2>3. Backoff(n) = z
    BY DEF Backoff
  <2>4. RetrySpan(f, n) = f + 1 + n + x /\ RetrySpan(f, n + 1) = f + 1 + (n + 1) + y
    BY <1>1
  <2> HIDE DEF a, b, p
  <2>5. y = x + z /\ x \in Int /\ z \in Int
    BY <1>2, <2>1, <2>2
  <2> HIDE DEF x, y, z
  <2> QED
    BY <2>3, <2>4, <2>5
<1>5. ASSUME NEW n \in Nat, NEW m \in Nat, n <= m
      PROVE  RetrySpan(f, n) <= RetrySpan(f, m)
  <2> DEFINE a == Shift(n)
             b == Shift(m)
             x == RTO * a
             y == RTO * b
  <2>1. a \in Nat /\ b \in Nat /\ a <= b
    BY <1>5, ShiftIs
  <2>2. RetrySpan(f, n) = f + 1 + n + x /\ RetrySpan(f, m) = f + 1 + m + y
    BY <1>1
  <2> HIDE DEF a, b
  <2>3. x <= y /\ x \in Nat /\ y \in Nat
    <3>1. PICK d \in Nat : b = a + d
      BY <2>1
    <3>2. RTO * b = RTO * a + RTO * d /\ RTO * d \in Nat /\ RTO * a \in Nat
      BY <1>2, <2>1, <3>1, TimesNat
    <3> QED
      BY <3>2
  <2> HIDE DEF x, y
  <2> QED
    BY <1>5, <2>2, <2>3
<1>6. RetrySpan(f, 0) = f + 1
  <2>1. Shift(0) = 0 /\ RTO * 0 = 0
    BY <1>2, ShiftIs
  <2> QED
    BY <1>1, <2>1
<1>7. ASSUME NEW n \in Nat PROVE RetrySpan(f, n) \in Nat
  <2> DEFINE x == RTO * Shift(n)
  <2>1. x \in Nat /\ RetrySpan(f, n) = f + 1 + n + x
    BY <1>1, <1>3
  <2> HIDE DEF x
  <2> QED
    BY <2>1
<1> QED
  BY <1>4, <1>5, <1>6, <1>7

(* The estimates of the retransmission time have a greatest one. *)
LEMMA MaxRto ==
  ASSUME NEW r \in Rtos
  PROVE  Max(Rtos) \in Nat /\ r <= Max(Rtos) /\ r \in Nat
<1>1. TimerMod \in Nat /\ Rtos \subseteq 0..TimerMod - 1
  BY UipAssumption
<1> DEFINE S == {TimerMod - x : x \in Rtos}
           m == Min(S)
<1>2. S \in SUBSET Nat /\ S # {}
  BY <1>1
<1>3. m \in S /\ \A y \in S : m <= y
  BY <1>2, MinIn
<1>4. PICK x \in Rtos : m = TimerMod - x
  BY <1>3
<1>5. ASSUME NEW y \in Rtos PROVE x >= y
  <2>1. m <= TimerMod - y
    BY <1>3
  <2> HIDE DEF m
  <2> QED
    BY <1>1, <1>4, <2>1
<1>6. Max(Rtos) \in Rtos /\ \A y \in Rtos : Max(Rtos) >= y
  BY <1>5 DEF Max
<1> DEFINE M == Max(Rtos)
<1>7. M \in 0..TimerMod - 1 /\ r \in 0..TimerMod - 1 /\ M >= r
  BY <1>1, <1>6
<1> HIDE DEF M
<1>8. M \in Nat /\ r <= M /\ r \in Nat
  BY <1>1, <1>7
<1> QED
  BY <1>8 DEF M

(* What a timer has left to count is less by one after a pass, unless it     *)
(* has come to TimeWait; at first it is no more than a whole turn.           *)
LEMMA LeftIs ==
  ASSUME NEW x \in 0..TimerMod - 1
  PROVE  /\ Left(x) \in Nat /\ 0 < Left(x) /\ Left(x) <= TimerMod
         /\ LET y == (x + 1) % TimerMod
            IN y # TimeWait => y \in 0..TimerMod - 1 /\ Left(y) + 1 = Left(x)
         /\ Left(0) = TimeWait
<1> DEFINE y == (x + 1) % TimerMod
<1>1. /\ TimerMod \in Nat /\ TimeWait \in Nat /\ 0 < TimeWait /\ TimeWait < TimerMod
      /\ x \in Nat /\ x < TimerMod
  BY TimerValue
<1>2. y = (IF x + 1 = TimerMod THEN 0 ELSE x + 1) /\ y \in 0..TimerMod - 1
  BY CountsOn
<1> HIDE DEF y
<1>3. Left(x) \in Nat /\ 0 < Left(x) /\ Left(x) <= TimerMod /\ Left(0) = TimeWait
  BY <1>1 DEF Left
<1>4. ASSUME y # TimeWait PROVE Left(y) + 1 = Left(x)
  <2>1. CASE x + 1 = TimerMod
    BY <1>1, <1>2, <2>1 DEF Left
  <2>2. CASE x + 1 # TimerMod
    BY <1>1, <1>2, <1>4, <2>2 DEF Left
  <2> QED
    BY <2>1, <2>2
<1> QED
  BY <1>2, <1>3, <1>4 DEF y

(* What the pieces of uip_process do to it. *)
LEMMA WaitsClosed == Waits(Closed)
BY DEF Waits, Closed

(* A connection as it is entered after a FIN was sent or a stream acknowledged. *)
LEMMA WaitsFresh ==
  ASSUME NEW c \in ConnRec, c.len = 1, c.nrtx = 0, c.age = 0, c.timer \in Rtos,
         c.st \in {"FIN_WAIT_1", "LAST_ACK"}
  PROVE  Waits(c)
<1> DEFINE M == Max(Rtos)
           t == c.timer
<1>1. M \in Nat /\ t <= M /\ t \in Nat
  BY MaxRto
<1>2. RetrySpan(M, 0) = M + 1
  BY <1>1, SpanIs
<1> HIDE DEF M, t
<1>3. 0 + t < RetrySpan(M, 0)
  BY <1>1, <1>2
<1> QED
  BY <1>3 DEF Waits, M, t

LEMMA WaitsAppSend ==
  ASSUME NEW c \in ConnRec, c.st = "ESTABLISHED", Waits(c), NEW d \in Seq(Nat), NEW how,
         how = "close" => c.len = 0
  PROVE  Waits(AppSend(c, d, how).conn)
<1>1. c.len = 0 => c.timer \in Rtos
  BY DEF Waits
<1>2. CASE how = "close"
  <2> DEFINE e == [Enter(c, "FIN_WAIT_1") EXCEPT !.len = 1, !.nrtx = 0]
  <2>1. AppSend(c, d, how).conn = e
    BY <1>2 DEF AppSend
  <2>2. /\ e \in ConnRec /\ e.len = 1 /\ e.nrtx = 0 /\ e.age = 0 /\ e.timer = c.timer
        /\ e.st = "FIN_WAIT_1"
    <3>1. 0 \in 0..MaxRtx /\ 1 \in 0..Gap
      BY GapNat, UipAssumption
    <3> QED
      BY <3>1 DEF Enter, ConnRec, States
  <2> HIDE DEF e
  <2>3. e.timer \in Rtos
    BY <1>1, <1>2, <2>2
  <2> QED
    BY <2>1, <2>2, <2>3, WaitsFresh
<1>3. CASE how # "close"
  <2> DEFINE r == AppSend(c, d, how).conn
  <2>1. /\ r.st = "ESTABLISHED" /\ r.timer = c.timer
        /\ r.len = 0 => c.len = 0
    <3>1. CASE how = "echo" /\ d # <<>>
      <4> DEFINE n == IF c.len = 0 THEN Len(d) ELSE c.len
      <4>1. r = [c EXCEPT !.nrtx = 0, !.len = n]
        BY <3>1 DEF AppSend
      <4>2. n = 0 => c.len = 0
        OBVIOUS
      <4> HIDE DEF n, r
      <4> QED
        BY <4>1, <4>2 DEF ConnRec
    <3>2. CASE ~(how = "echo" /\ d # <<>>)
      <4>1. r = [c EXCEPT !.nrtx = 0]
        BY <1>3, <3>2 DEF AppSend
      <4> HIDE DEF r
      <4> QED
        BY <4>1 DEF ConnRec
    <3> QED
      BY <3>1, <3>2
  <2> HIDE DEF r
  <2>2. Waits(r)
    BY <1>1, <2>1 DEF Waits
  <2> QED
    BY <2>2 DEF r
<1> QED
  BY <1>2, <1>3

(* An acknowledgement of all that is outstanding starts the timer anew. *)
LEMMA WaitsAfterAck ==
  ASSUME NEW c \in ConnRec, NEW s, NEW rto \in Rtos
  PROVE  LET e == AfterAck(c, s, rto)
         IN IF AcksAll(c, s)
            THEN e.len = 0 /\ e.timer = rto /\ e.nrtx = c.nrtx /\ e.age = c.age
            ELSE e = c
BY DEF AfterAck, ConnRec

LEMMA WaitsDone ==
  ASSUME IInv, WInv, NEW i \in Conns, NEW c, Waits(c), NEW d, NEW out, Done(i, c, d, out)
  PROVE  WInv'
<1>1. ASSUME NEW j \in Conns PROVE Waits(conns'[j])
  <2>1. conns'[j] = IF j = i THEN c ELSE conns[j]
    BY DEF Done, IInv
  <2> QED
    BY <2>1 DEF WInv
<1> QED
  BY <1>1 DEF WInv, Waits

LEMMA WaitsListen ==
  ASSUME IInv, WInv, NEW s, SegmentOk(s), NEW iss \in Iss, Listen(s, iss)
  PROVE  WInv'
<1> DEFINE n == s.seq + 1
           e == [Closed EXCEPT !.st = "SYN_RCVD", !.peer = s.peer, !.rcv = n, !.base = n,
                               !.snd = iss, !.len = 1, !.timer = RTO]
<1>1. SlotForSyn \in Conns /\ Done(SlotForSyn, e, <<>>, {Reply(e, "SYN|ACK", <<>>)})
  BY SlotForSynOk DEF Listen, Answer
<1>2. e.st = "SYN_RCVD" /\ e.len = 1 /\ e.nrtx = 0 /\ e.age = 0 /\ e.timer = RTO
  BY DEF Closed
<1>3. 0 <= MaxSynRtx /\ 0 + RTO < RetrySpan(RTO, 0)
  <2>1. RTO \in Nat /\ MaxSynRtx \in Nat
    BY UipAssumption
  <2>2. RetrySpan(RTO, 0) = RTO + 1
    BY <2>1, SpanIs
  <2> QED
    BY <2>1, <2>2
<1> HIDE DEF e
<1>4. Waits(e)
  BY <1>2, <1>3 DEF Waits
<1> QED
  BY <1>1, <1>4, WaitsDone

LEMMA WaitsSame ==
  ASSUME IInv, WInv, NEW i \in Conns, NEW out, Answer(i, conns[i], out)
  PROVE  WInv'
BY WaitsDone DEF Answer, WInv

LEMMA WaitsEnd ==
  ASSUME IInv, WInv, NEW i \in Conns, NEW out, Answer(i, Closed, out)
  PROVE  WInv'
BY WaitsDone, WaitsClosed DEF Answer

LEMMA WaitsReact ==
  ASSUME IInv, WInv, NEW s, SegmentOk(s), NEW i \in Conns, NEW rto \in Rtos, NEW how,
         RecvInSynRcvd(s, i, rto, how) \/ RecvInEstablished(s, i, rto, how)
  PROVE  WInv'
<1> DEFINE a == AfterAck(conns[i], s, rto)
           b == Accept(a, s.data)
           e == Enter(b, "ESTABLISHED")
<1>1. /\ rto \in Rtos /\ conns[i] \in ConnRec /\ s.data \in Seq(Nat)
  BY UipAssumption DEF IInv, SegmentOk
<1>2. /\ a \in ConnRec /\ a.st = conns[i].st
      /\ IF AcksAll(conns[i], s) THEN a.len = 0 /\ a.timer = rto ELSE a = conns[i]
  BY <1>1, AfterAckOk, WaitsAfterAck
<1>3. b \in ConnRec /\ b.st = a.st /\ b.len = a.len /\ b.timer = a.timer
  <2>1. b \in ConnRec /\ b.st = a.st
    BY <1>1, <1>2, AcceptOk
  <2>2. b.len = a.len /\ b.timer = a.timer
    BY <1>2 DEF Accept, ConnRec
  <2> QED
    BY <2>1, <2>2
<1>4. Waits(conns[i])
  BY DEF WInv
<1>5. CASE RecvInSynRcvd(s, i, rto, how)
  <2>1. /\ Done(i, AppSend(e, s.data, how).conn, s.data, AppSend(e, s.data, how).out)
        /\ AcksAll(conns[i], s) /\ (how = "close" => e.len = 0)
    BY <1>5 DEF RecvInSynRcvd, MayReact
  <2> HIDE DEF a, b
  <2>2. e \in ConnRec /\ e.st = "ESTABLISHED" /\ e.len = b.len /\ e.timer = b.timer
    BY <1>3 DEF Enter, ConnRec, States
  <2> HIDE DEF e
  <2>3. Waits(e)
    BY <1>2, <1>3, <2>1, <2>2 DEF Waits
  <2>4. Waits(AppSend(e, s.data, how).conn)
    BY <1>1, <2>1, <2>2, <2>3, WaitsAppSend
  <2> QED
    BY <2>1, <2>4, WaitsDone
<1>6. CASE RecvInEstablished(s, i, rto, how)
  <2>1. /\ Done(i, AppSend(b, s.data, how).conn, s.data, AppSend(b, s.data, how).out)
        /\ conns[i].st = "ESTABLISHED" /\ (how = "close" => b.len = 0)
    BY <1>6 DEF RecvInEstablished, MayReact, InOrder
  <2> HIDE DEF a, b
  <2>2. Waits(b)
    BY <1>2, <1>3, <1>4, <2>1 DEF Waits
  <2>3. Waits(AppSend(b, s.data, how).conn)
    BY <1>1, <1>2, <1>3, <2>1, <2>2, WaitsAppSend
  <2> QED
    BY <2>1, <2>3, WaitsDone
<1> QED
  BY <1>5, <1>6

LEMMA WaitsFin ==
  ASSUME IInv, WInv, NEW s, SegmentOk(s), NEW i \in Conns, NEW rto \in Rtos, RecvFin(s, i, rto)
  PROVE  WInv'
<1> DEFINE a == AfterAck(conns[i], s, rto)
           f == [Enter(Accept(a, s.data), "LAST_ACK") EXCEPT !.rcv = @ + 1, !.len = 1, !.nrtx = 0]
<1>1. rto \in Rtos /\ conns[i] \in ConnRec /\ Waits(conns[i])
  BY UipAssumption DEF IInv, WInv
<1>2. /\ a \in ConnRec
      /\ IF AcksAll(conns[i], s) THEN a.len = 0 /\ a.timer = rto ELSE a = conns[i]
  BY <1>1, AfterAckOk, WaitsAfterAck
<1>3. conns[i].st = "ESTABLISHED" /\ a.len = 0 /\ \E out : Done(i, f, s.data, out)
  BY DEF RecvFin, InOrder
<1> HIDE DEF a
<1>4. a.timer \in Rtos
  BY <1>1, <1>2, <1>3 DEF Waits
<1>5. f.st = "LAST_ACK" /\ f.len = 1 /\ f.nrtx = 0 /\ f.age = 0 /\ f.timer = a.timer
  BY <1>2 DEF Enter, Accept, ConnRec
<1>6. f \in ConnRec
  <2> DEFINE b == Accept(a, s.data)
             e == Enter(b, "LAST_ACK")
             n == e.rcv + 1
  <2>1. b \in ConnRec
    BY <1>2, AcceptOk DEF SegmentOk
  <2> HIDE DEF b
  <2>2. e \in ConnRec
    BY <2>1, EnterOk DEF States
  <2>3. f = [e EXCEPT !.rcv = n, !.len = 1, !.nrtx = 0]
    BY DEF b
  <2> HIDE DEF e, f
  <2>4. n \in Nat /\ 1 \in 0..Gap /\ 0 \in 0..MaxRtx
    BY <2>2, GapNat, UipAssumption DEF ConnRec
  <2> HIDE DEF n
  <2> QED
    BY <2>2, <2>3, <2>4 DEF ConnRec
<1> HIDE DEF f
<1>7. Waits(f)
  BY <1>4, <1>5, <1>6, WaitsFresh
<1> QED
  BY <1>3, <1>7, WaitsDone

LEMMA WaitsRefused ==
  ASSUME NEW c \in ConnRec, Waits(c), NEW n
  PROVE  Waits([c EXCEPT !.rcv = n])
BY DEF Waits, ConnRec

(* A connection that begins to wait for a silent host. *)
LEMMA WaitsTimeWait ==
  ASSUME NEW c \in ConnRec
  PROVE  LET g == [Enter(c, "TIME_WAIT") EXCEPT !.timer = 0]
         IN g \in ConnRec /\ Waits(g)
<1> DEFINE g == [Enter(c, "TIME_WAIT") EXCEPT !.timer = 0]
<1>1. g \in ConnRec /\ g.st = "TIME_WAIT" /\ g.age = 0 /\ g.timer = 0
  BY TimerValue DEF Enter, ConnRec, States
<1> HIDE DEF g
<1>2. 0 + Left(0) <= TimeWait
  BY LeftIs, TimerValue
<1>3. Waits(g)
  BY <1>1, <1>2 DEF Waits
<1> QED
  BY <1>1, <1>3 DEF g

LEMMA WaitsFinWait1 ==
  ASSUME IInv, WInv, NEW s, SegmentOk(s), NEW i \in Conns, NEW rto \in Rtos,
         RecvInFinWait1(s, i, rto)
  PROVE  WInv'
<1> DEFINE c == AfterAck(conns[i], s, rto)
           acked == AcksAll(conns[i], s)
           fin == s.flags = "FIN|ACK"
           n == IF fin
                THEN IF acked THEN [Enter(c, "TIME_WAIT") EXCEPT !.timer = 0]
                              ELSE Enter(c, "CLOSING")
                ELSE IF acked THEN Enter(c, "FIN_WAIT_2") ELSE c
<1>1. /\ conns[i] \in ConnRec /\ Waits(conns[i]) /\ conns[i].st = "FIN_WAIT_1"
      /\ rto \in Rtos /\ 0 + Left(rto) <= TimerMod
  <2>1. rto \in 0..TimerMod - 1
    BY TimerValue
  <2>2. 0 + Left(rto) <= TimerMod
    BY <2>1, LeftIs, TimerValue
  <2> QED
    BY <2>2 DEF IInv, WInv, RecvInFinWait1, InOrder
<1>2. /\ c \in ConnRec /\ c.st = "FIN_WAIT_1"
      /\ IF acked THEN c.len = 0 /\ c.timer = rto ELSE c = conns[i]
  BY <1>1, AfterAckOk, WaitsAfterAck
<1>3. \E x, out : Done(i, [n EXCEPT !.rcv = x], s.data, out)
  <2>1. \E out : Refuse(i, n, s, out)
    BY DEF RecvInFinWait1
  <2> HIDE DEF n
  <2> QED
    BY <2>1 DEF Refuse
<1> HIDE DEF c
<1>4. n \in ConnRec /\ Waits(n)
  <2>1. CASE fin /\ acked
    BY <1>1, <1>2, <2>1, WaitsTimeWait
  <2>2. CASE fin /\ ~acked
    <3> DEFINE e == Enter(c, "CLOSING")
    <3>1. c = conns[i] /\ n = e
      BY <1>2, <2>2
    <3>2. /\ e \in ConnRec /\ e.st = "CLOSING" /\ e.len = c.len /\ e.age = 0
          /\ e.timer = c.timer /\ e.nrtx = c.nrtx
      BY <1>2 DEF Enter, ConnRec, States
    <3> HIDE DEF e
    <3>3. c.len = 1 /\ c.age + c.timer < RetrySpan(Max(Rtos), c.nrtx)
      BY <1>1, <3>1 DEF Waits
    <3>4. 0 + c.timer < RetrySpan(Max(Rtos), c.nrtx)
      <4> DEFINE a == c.age
                 t == c.timer
                 x == RetrySpan(Max(Rtos), c.nrtx)
      <4>1. a \in Nat /\ t \in Nat /\ a + t < x
        BY <1>2, <3>3 DEF ConnRec
      <4>2. x \in Nat
        <5>1. Max(Rtos) \in Nat
          BY MaxRto
        <5>2. c.nrtx \in Nat
          BY <1>2, UipAssumption DEF ConnRec
        <5> QED
          BY <5>1, <5>2, SpanIs
      <4> HIDE DEF a, t, x
      <4>3. 0 + t < x
        BY <4>1, <4>2
      <4> QED
        BY <4>3 DEF t, x
    <3> HIDE DEF n
    <3>5. Waits(e)
      BY <3>2, <3>3, <3>4 DEF Waits
    <3> QED
      BY <3>1, <3>2, <3>5
  <2>3. CASE ~fin /\ acked
    <3> DEFINE e == Enter(c, "FIN_WAIT_2")
    <3>1. n = e
      BY <2>3
    <3>2. e \in ConnRec /\ e.st = "FIN_WAIT_2" /\ e.age = 0 /\ e.timer = rto
      BY <1>2, <2>3 DEF Enter, ConnRec, States
    <3> HIDE DEF e, n
    <3>3. Waits(e)
      BY <1>1, <3>2 DEF Waits
    <3> QED
      BY <3>1, <3>2, <3>3
  <2>4. CASE ~fin /\ ~acked
    BY <1>1, <1>2, <2>4
  <2> QED
    BY <2>1, <2>2, <2>3, <2>4
<1> HIDE DEF n
<1> QED
  BY <1>3, <1>4, WaitsRefused, WaitsDone

LEMMA WaitsFinWait2 ==
  ASSUME IInv, WInv, NEW s, SegmentOk(s), NEW i \in Conns, RecvInFinWait2(s, i)
  PROVE  WInv'
<1> DEFINE c == conns[i]
           n == IF s.flags = "FIN|ACK" THEN [Enter(c, "TIME_WAIT") EXCEPT !.timer = 0] ELSE c
<1>1. c \in ConnRec /\ Waits(c) /\ c.st = "FIN_WAIT_2"
  BY DEF IInv, WInv, RecvInFinWait2, InOrder
<1>2. \E x, out : Done(i, [n EXCEPT !.rcv = x], s.data, out)
  <2>1. \E out : Refuse(i, n, s, out)
    BY DEF RecvInFinWait2
  <2> HIDE DEF n
  <2> QED
    BY <2>1 DEF Refuse
<1>3. n \in ConnRec /\ Waits(n)
  BY <1>1, WaitsTimeWait
<1> HIDE DEF n
<1> QED
  BY <1>2, <1>3, WaitsRefused, WaitsDone

LEMMA WaitsClosing ==
  ASSUME IInv, WInv, NEW s, NEW i \in Conns, NEW rto \in Rtos, RecvInClosing(s, i, rto)
  PROVE  WInv'
<1> DEFINE a == AfterAck(conns[i], s, rto)
<1>1. /\ conns[i] \in ConnRec
      /\ Answer(i, [Enter(a, "TIME_WAIT") EXCEPT !.timer = 0], {})
  BY DEF IInv, RecvInClosing
<1>2. a \in ConnRec
  BY <1>1, AfterAckOk
<1> HIDE DEF a
<1> QED
  BY <1>1, <1>2, WaitsTimeWait, WaitsDone DEF Answer

LEMMA WaitsInput ==
  ASSUME IInv, WInv, Input
  PROVE  WInv'
<1>1. PICK s \in Arriving : Handle(s)
  BY DEF Input
<1>2. SegmentOk(s)
  BY ArrivingOk DEF IInv
<1>3. CASE Reset(s)
  BY <1>3 DEF Reset, server, WInv, Waits
<1>4. ASSUME NEW i \in Conns,
             RecvRst(s, i) \/ RecvOutOfOrder(s, i) \/ RecvInLastAck(s, i) \/ RecvInTimeWait(s, i)
      PROVE  WInv'
  BY <1>4, WaitsSame, WaitsEnd DEF RecvRst, RecvOutOfOrder, RecvInLastAck, RecvInTimeWait
<1> QED
  BY <1>1, <1>2, <1>3, <1>4, WaitsListen, WaitsReact, WaitsFin, WaitsFinWait1, WaitsFinWait2,
     WaitsClosing DEF Handle

-----------------------------------------------------------------------------
(* A pass takes one from the timer, or one retransmission from those left. *)
LEMMA SpanGoesOn ==
  ASSUME NEW f \in Nat, NEW n \in Nat, NEW a \in Nat, a < RetrySpan(f, n)
  PROVE  (a + 1) + Backoff(n) < RetrySpan(f, n + 1)
<1> DEFINE x == RetrySpan(f, n)
           y == RetrySpan(f, n + 1)
           b == Backoff(n)
<1>1. x \in Nat /\ b \in Nat /\ y = x + 1 + b /\ a < x
  BY SpanIs, BackoffNat
<1> HIDE DEF x, y, b
<1>2. (a + 1) + b < y
  BY <1>1
<1> QED
  BY <1>2 DEF y, b

LEMMA WaitsTimer ==
  ASSUME NEW c \in ConnRec, Waits(c), NEW how,
         how = "close" => c.st = "ESTABLISHED" /\ c.len = 0
  PROVE  Waits(Timer(Aged(c), how).conn)
<1> DEFINE a == c.age
           t == c.timer
           k == c.nrtx
<1>0. a \in Nat /\ t \in Nat /\ k \in Nat /\ k \in 0..MaxRtx /\ MaxRtx \in Nat /\ c.len \in Nat
  BY GapNat, UipAssumption DEF ConnRec
<1>1. CASE c.st = "CLOSED"
  <2>1. Aged(c) = c /\ Timer(c, how).conn = c
    BY <1>1 DEF Timer, Aged
  <2> QED
    BY <2>1
<1>2. CASE c.st \in {"TIME_WAIT", "FIN_WAIT_2"}
  <2> DEFINE m == (t + 1) % TimerMod
             n == a + 1
             g == [c EXCEPT !.age = n]
             e == [g EXCEPT !.timer = m]
  <2>1. Aged(c) = g
    BY <1>2 DEF Aged
  <2>2. g.st = c.st /\ g.timer = t
    BY DEF ConnRec
  <2>3. Timer(g, how).conn = IF m = TimeWait THEN Closed ELSE e
    <3>1. Timer(g, how) = [conn |-> IF (g.timer + 1) % TimerMod = TimeWait THEN Closed
                                    ELSE [g EXCEPT !.timer = (g.timer + 1) % TimerMod],
                           out |-> {}]
      BY <1>2, <2>2 DEF Timer
    <3> HIDE DEF g
    <3> QED
      BY <2>2, <3>1
  <2>4. m # TimeWait => m \in 0..TimerMod - 1 /\ Left(m) + 1 = Left(t)
    <3>1. t \in 0..TimerMod - 1
      BY DEF ConnRec
    <3> QED
      BY <3>1, LeftIs
  <2>5. m # TimeWait => Left(m) \in Nat
    BY <2>4, LeftIs
  <2> HIDE DEF m
  <2>6. m # TimeWait => n + Left(m) = a + Left(t)
    <3> HIDE DEF a, t
    <3> QED
      BY <1>0, <2>4, <2>5
  <2> HIDE DEF n
  <2>7. e.st = c.st /\ e.timer = m /\ e.age = n
    BY DEF ConnRec
  <2> HIDE DEF e, g
  <2>8. m # TimeWait => Waits(e)
    BY <1>2, <2>6, <2>7 DEF Waits
  <2> QED
    BY <2>1, <2>3, <2>8, WaitsClosed
<1>3. CASE c.st = "ESTABLISHED"
  <2>1. Aged(c) = c
    BY <1>3 DEF Aged
  <2>2. CASE c.len = 0
    <3>1. Timer(c, how) = AppSend(c, <<>>, how)
      BY <1>3, <2>2 DEF Timer
    <3>2. <<>> \in Seq(Nat)
      OBVIOUS
    <3> QED
      BY <1>3, <2>1, <2>2, <3>1, <3>2, WaitsAppSend
  <2>3. CASE c.len # 0
    <3> DEFINE r == Timer(c, how).conn
    <3>1. r = Closed \/ (r.st = "ESTABLISHED" /\ r.len = c.len)
      <4>1. CASE t > 0
        <5>1. r = [c EXCEPT !.timer = @ - 1]
          BY <1>3, <2>3, <4>1 DEF Timer
        <5> HIDE DEF r
        <5> QED
          BY <1>3, <5>1 DEF ConnRec
      <4>2. CASE ~(t > 0) /\ GivesUp(c)
        <5>1. r = Closed
          BY <1>3, <2>3, <4>2 DEF Timer
        <5> QED
          BY <5>1
      <4>3. CASE ~(t > 0) /\ ~GivesUp(c)
        <5>1. r = [c EXCEPT !.timer = Backoff(c.nrtx), !.nrtx = @ + 1]
          BY <1>3, <2>3, <4>3 DEF Timer
        <5> HIDE DEF r
        <5> QED
          BY <1>3, <5>1 DEF ConnRec
      <4> QED
        BY <4>1, <4>2, <4>3
    <3> HIDE DEF r
    <3>2. Waits(r)
      BY <2>3, <3>1, WaitsClosed DEF Waits
    <3> QED
      BY <2>1, <3>2 DEF r
  <2> QED
    BY <2>2, <2>3
<1>4. CASE c.st \in {"SYN_RCVD", "FIN_WAIT_1", "CLOSING", "LAST_ACK"}
  <2> DEFINE n == a + 1
             g == [c EXCEPT !.age = n]
             r == Timer(g, how).conn
             f == IF c.st = "SYN_RCVD" THEN RTO ELSE Max(Rtos)
  <2>1. Aged(c) = g
    BY <1>4 DEF Aged
  <2>2. /\ g.st = c.st /\ g.timer = t /\ g.len = c.len /\ g.nrtx = k /\ g.age = n
        /\ g \in ConnRec
    <3>1. n \in Nat
      BY <1>0
    <3> HIDE DEF n
    <3> QED
      BY <3>1 DEF ConnRec
  <2>3. c.len = 1 /\ a + t < RetrySpan(f, k) /\ (c.st = "SYN_RCVD" => k <= MaxSynRtx)
    BY <1>4 DEF Waits
  <2> HIDE DEF g
  <2>4. f \in Nat
    <3>1. \E x \in Rtos : TRUE
      BY UipAssumption
    <3> QED
      BY <3>1, UipAssumption, MaxRto
  <2>5. ASSUME NEW h \in ConnRec, h.st = c.st, h.len = c.len,
               h.age + h.timer < RetrySpan(f, h.nrtx),
               c.st = "SYN_RCVD" => h.nrtx <= MaxSynRtx
        PROVE  Waits(h)
    BY <1>4, <2>3, <2>5 DEF Waits
  <2>6. CASE t > 0
    <3> DEFINE m == t - 1
               e == [g EXCEPT !.timer = m]
    <3>1. r = e
      BY <1>4, <2>2, <2>3, <2>6 DEF Timer
    <3>2. m \in 0..TimerMod - 1 /\ n + m < RetrySpan(f, k)
      <4> DEFINE x == RetrySpan(f, k)
      <4>1. x \in Nat /\ a + t < x /\ t \in 0..TimerMod - 1 /\ TimerMod \in Nat
        BY <1>0, <2>3, <2>4, SpanIs, TimerValue DEF ConnRec
      <4> HIDE DEF x, a, t
      <4>2. m \in 0..TimerMod - 1 /\ n + m < x
        BY <1>0, <2>6, <4>1
      <4> QED
        BY <4>2 DEF x
    <3> HIDE DEF m
    <3>3. /\ e \in ConnRec /\ e.st = c.st /\ e.len = c.len /\ e.age = n /\ e.timer = m
          /\ e.nrtx = k
      BY <2>2, <3>2 DEF ConnRec
    <3> HIDE DEF e, n
    <3>4. Waits(e)
      BY <2>3, <2>5, <3>2, <3>3
    <3> QED
      BY <2>1, <3>1, <3>4
  <2>7. CASE ~(t > 0) /\ GivesUp(g)
    <3>1. r = Closed
      BY <1>4, <2>2, <2>3, <2>7 DEF Timer
    <3> QED
      BY <2>1, <3>1, WaitsClosed
  <2>8. CASE ~(t > 0) /\ ~GivesUp(g)
    <3> DEFINE b == Backoff(k)
               m == k + 1
               e == [g EXCEPT !.timer = b, !.nrtx = m]
    <3>1. r = e
      <4>1. r = [g EXCEPT !.timer = Backoff(g.nrtx), !.nrtx = @ + 1]
        BY <1>4, <2>2, <2>3, <2>8 DEF Timer
      <4> QED
        BY <2>2, <4>1
    <3>2. n + b < RetrySpan(f, m)
      <4>1. a < RetrySpan(f, k)
        <5> DEFINE x == RetrySpan(f, k)
        <5>1. a + t < x
          BY <2>3
        <5> HIDE DEF x, a, t
        <5>2. t = 0
          BY <1>0, <2>8
        <5>3. a < x
          BY <1>0, <5>1, <5>2
        <5> QED
          BY <5>3 DEF x, a
      <4> QED
        BY <1>0, <2>4, <4>1, SpanGoesOn
    <3>3. m \in 0..MaxRtx /\ (c.st = "SYN_RCVD" => m <= MaxSynRtx)
      <4>1. k # MaxRtx /\ (c.st = "SYN_RCVD" => k # MaxSynRtx)
        BY <2>2, <2>8 DEF GivesUp
      <4>2. MaxSynRtx \in Nat
        BY UipAssumption
      <4> HIDE DEF k
      <4> QED
        BY <1>0, <2>3, <4>1, <4>2
    <3>6. b \in 0..TimerMod - 1
      <4>1. k \in 0..MaxRtx - 1
        <5>1. k # MaxRtx
          BY <2>2, <2>8 DEF GivesUp
        <5> HIDE DEF k
        <5> QED
          BY <1>0, <5>1
      <4>2. b \in Nat /\ b < TimerMod
        BY <1>0, <4>1, BackoffNat, UipAssumption
      <4> HIDE DEF b
      <4> QED
        BY <4>2, TimerValue
    <3> HIDE DEF m, b
    <3>4. /\ e \in ConnRec /\ e.st = c.st /\ e.len = c.len /\ e.age = n /\ e.timer = b
          /\ e.nrtx = m
      BY <2>2, <3>3, <3>6 DEF ConnRec
    <3> HIDE DEF e, n
    <3>5. Waits(e)
      BY <2>5, <3>2, <3>3, <3>4
    <3> QED
      BY <2>1, <3>1, <3>5
  <2> QED
    BY <2>6, <2>7, <2>8
<1> QED
  BY <1>1, <1>2, <1>3, <1>4 DEF ConnRec, States

LEMMA WaitsPeriodic ==
  ASSUME IInv, WInv, Periodic
  PROVE  WInv'
<1>1. PICK shut \in SUBSET {i \in Conns : conns[i].st = "ESTABLISHED" /\ conns[i].len = 0} :
        conns' = [i \in Conns |->
                    Timer(Aged(conns[i]), IF i \in shut THEN "close" ELSE "quiet").conn]
  BY DEF Periodic
<1>2. ASSUME NEW i \in Conns PROVE Waits(conns'[i])
  <2> DEFINE how == IF i \in shut THEN "close" ELSE "quiet"
  <2>1. conns[i] \in ConnRec /\ Waits(conns[i])
    BY DEF IInv, WInv
  <2>2. how = "close" => conns[i].st = "ESTABLISHED" /\ conns[i].len = 0
    OBVIOUS
  <2>3. conns'[i] = Timer(Aged(conns[i]), how).conn
    BY <1>1
  <2> HIDE DEF how
  <2> QED
    BY <2>1, <2>2, <2>3, WaitsTimer
<1> QED
  BY <1>2 DEF WInv, Waits

LEMMA WaitsNext ==
  ASSUME IInv, WInv, [Next]_vars
  PROVE  WInv'
<1>1. CASE UNCHANGED vars
  BY <1>1 DEF vars, WInv, Waits
<1>2. CASE Outside
  BY <1>2 DEF Outside, server, WInv, Waits
<1> QED
  BY <1>1, <1>2, WaitsInput, WaitsPeriodic DEF Next

LEMMA WaitsMeans ==
  ASSUME NEW c \in ConnRec, Waits(c)
  PROVE  /\ c.st = "SYN_RCVD" => c.age < RetrySpan(RTO, MaxSynRtx)
         /\ c.st \in {"FIN_WAIT_1", "CLOSING", "LAST_ACK"} =>
              c.age < RetrySpan(Max(Rtos), MaxRtx)
         /\ c.st = "FIN_WAIT_2" => c.age < TimerMod
         /\ c.st = "TIME_WAIT" => c.age < TimeWait
<1> DEFINE a == c.age
           t == c.timer
           k == c.nrtx
<1>1. /\ a \in Nat /\ t \in Nat /\ k \in Nat /\ k <= MaxRtx /\ MaxRtx \in Nat
      /\ MaxSynRtx \in Nat /\ RTO \in Nat /\ TimeWait \in Nat /\ TimerMod \in Nat
      /\ Left(t) \in Nat /\ 0 < Left(t)
  <2>1. t \in 0..TimerMod - 1
    BY DEF ConnRec
  <2>2. Left(t) \in Nat /\ 0 < Left(t)
    BY <2>1, LeftIs
  <2> HIDE DEF t
  <2> QED
    BY <2>1, <2>2, UipAssumption, TimerValue DEF ConnRec
<1>2. Max(Rtos) \in Nat
  <2>1. \E x \in Rtos : TRUE
    BY UipAssumption
  <2> QED
    BY <2>1, MaxRto
<1> HIDE DEF a, t, k
<1>3. ASSUME NEW f \in Nat, NEW n \in Nat, k <= n, a + t < RetrySpan(f, k)
      PROVE  a < RetrySpan(f, n)
  <2> DEFINE x == RetrySpan(f, k)
             y == RetrySpan(f, n)
  <2>1. x \in Nat /\ y \in Nat /\ x <= y /\ a + t < x
    BY <1>1, <1>3, SpanIs
  <2> HIDE DEF x, y
  <2>2. a < y
    BY <1>1, <2>1
  <2> QED
    BY <2>2 DEF y
<1>4. c.st = "SYN_RCVD" => k <= MaxSynRtx /\ a + t < RetrySpan(RTO, k)
  BY DEF Waits, a, t, k
<1>5. c.st \in {"FIN_WAIT_1", "CLOSING", "LAST_ACK"} => a + t < RetrySpan(Max(Rtos), k)
  BY DEF Waits, a, t, k
<1>6. /\ c.st = "FIN_WAIT_2" => a + Left(t) <= TimerMod
      /\ c.st = "TIME_WAIT" => a + Left(t) <= TimeWait
  BY DEF Waits, a, t
<1>7. c.st = "SYN_RCVD" => a < RetrySpan(RTO, MaxSynRtx)
  BY <1>1, <1>3, <1>4
<1>8. c.st \in {"FIN_WAIT_1", "CLOSING", "LAST_ACK"} => a < RetrySpan(Max(Rtos), MaxRtx)
  BY <1>1, <1>2, <1>3, <1>5
<1>9. /\ c.st = "FIN_WAIT_2" => a < TimerMod
      /\ c.st = "TIME_WAIT" => a < TimeWait
  <2> DEFINE l == Left(t)
  <2>1. l \in Nat /\ 0 < l
    BY <1>1
  <2>2. /\ c.st = "FIN_WAIT_2" => a + l <= TimerMod
        /\ c.st = "TIME_WAIT" => a + l <= TimeWait
    BY <1>6
  <2> HIDE DEF l
  <2> QED
    BY <1>1, <2>1, <2>2
<1> QED
  BY <1>7, <1>8, <1>9 DEF a

(* A connection whose host has fallen silent gives its slot back after no   *)
(* more passes than its retransmissions take, for every number of           *)
(* retransmissions, whatever still arrives for it; one in TIME_WAIT after   *)
(* TimeWait passes; one in FIN_WAIT_2, whose timer starts at the estimate   *)
(* (any u8_t) and is tested for equality, before the timer has gone round.  *)
THEOREM HalfOpenConnectionsEnd == Spec => []HalfOpenEnds
<1>1. Init => WInv
  BY WaitsClosed DEF Init, WInv
<1>2. IInv /\ WInv /\ [Next]_vars => WInv'
  BY WaitsNext
<1>3. IInv /\ WInv => HalfOpenEnds
  BY WaitsMeans DEF IInv, WInv, HalfOpenEnds
<1> QED
  BY <1>1, <1>2, <1>3, Invariant, PTL DEF Spec
-----------------------------------------------------------------------------
(***************************************************************************)
(* That the periodic work of firmware_uip ends: proved for every width of  *)
(* the counter and every interval of the two timers of UipTimer.           *)
(***************************************************************************)
CONSTANTS CountMod, Interval, ArpInterval
VARIABLES count, periodic, arp, passes

Clock == INSTANCE UipTimer

\* The counter keeps its type.
THEOREM ClockTypeCorrect ==
  ASSUME CountMod \in Nat \ {0}, Interval \in Nat \ {0}, ArpInterval \in Nat \ {0}
  PROVE  Clock!Spec => []Clock!TypeOK
<1>1. Clock!Init => Clock!TypeOK
  BY DEF Clock!Init, Clock!TypeOK
<1>2. Clock!TypeOK /\ [Clock!Next]_(Clock!vars) => Clock!TypeOK'
  <2> SUFFICES ASSUME Clock!TypeOK, [Clock!Next]_(Clock!vars) PROVE Clock!TypeOK'
    OBVIOUS
  <2>1. CASE Clock!TimerIrq
    BY <2>1 DEF Clock!TimerIrq, Clock!TypeOK
  <2>2. CASE Clock!Periodic
    BY <2>2 DEF Clock!Periodic, Clock!TypeOK
  <2>3. CASE UNCHANGED Clock!vars
    BY <2>3 DEF Clock!vars, Clock!TypeOK
  <2> QED
    BY <2>1, <2>2, <2>3 DEF Clock!Next
<1> QED
  BY <1>1, <1>2, PTL DEF Clock!Spec

\* A timer that expires had its end below the wrap of the count.
LEMMA ExpiredBelowWrap ==
  ASSUME CountMod \in Nat, Clock!TypeOK, NEW start \in Nat, NEW interval \in Nat,
         Clock!Expired(start, interval)
  PROVE  start + interval < CountMod
  BY DEF Clock!TypeOK, Clock!Expired

\* However long the program runs, uip_periodic is called at most
\* (CountMod - 1) / Interval times, 131 with the values of main.c: the timers
\* never get past the wrap of timer_irq_count, after which none expires.
THEOREM PeriodicEnds ==
  ASSUME CountMod \in Nat \ {0}, Interval \in Nat \ {0}, ArpInterval \in Nat \ {0}
  PROVE  Clock!Spec => []Clock!PassesBounded
<1>1. Clock!Init => Clock!PassesBounded
  BY DEF Clock!Init, Clock!PassesBounded
<1>2. Clock!TypeOK /\ Clock!PassesBounded /\ [Clock!Next]_(Clock!vars) => Clock!PassesBounded'
  <2> SUFFICES ASSUME Clock!TypeOK, Clock!PassesBounded, [Clock!Next]_(Clock!vars) PROVE Clock!PassesBounded'
    OBVIOUS
  <2>1. CASE Clock!TimerIrq
    BY <2>1 DEF Clock!TimerIrq, Clock!PassesBounded
  <2>2. CASE Clock!Periodic
    <3>1. periodic + Interval < CountMod
      BY <2>2, ExpiredBelowWrap DEF Clock!Periodic, Clock!TypeOK
    <3>2. arp' < CountMod
      BY <2>2, ExpiredBelowWrap DEF Clock!Periodic, Clock!TypeOK, Clock!PassesBounded
    <3>3. (passes + 1) * Interval = passes * Interval + Interval
      BY DEF Clock!TypeOK
    <3> QED
      BY <2>2, <3>1, <3>2, <3>3 DEF Clock!Periodic, Clock!PassesBounded, Clock!TypeOK
  <2>3. CASE UNCHANGED Clock!vars
    BY <2>3 DEF Clock!vars, Clock!PassesBounded
  <2> QED
    BY <2>1, <2>2, <2>3 DEF Clock!Next
<1> QED
  BY <1>1, <1>2, ClockTypeCorrect, PTL DEF Clock!Spec
=============================================================================
