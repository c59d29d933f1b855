-------------------------------- MODULE Uip --------------------------------
(***************************************************************************)
(* The TCP server of firmware_uip: uip.c with the echo application         *)
(* port/echo_tcp.c on one listening port, driven by the loop of main.c.    *)
(* The program is single threaded and the timer interrupt only counts      *)
(* ticks (module UipTimer), so one step handles a whole packet             *)
(* (uip_input, then tapdev_send) or a whole pass of uip_periodic over all  *)
(* connections.                                                            *)
(*                                                                         *)
(* The hosts and the network are those of TcpHosts.                        *)
(***************************************************************************)
EXTENDS TcpHosts

CONSTANTS
    Conns,       \* indices of uip_conns
    RTO, Rtos,   \* UIP_RTO; the values the estimate conn->rto takes
    TimerMod,    \* the timer of a connection, a u8_t, counts modulo 256
    MaxRtx,      \* UIP_MAXRTX
    MaxSynRtx,   \* UIP_MAXSYNRTX
    TimeWait,    \* UIP_TIME_WAIT_TIMEOUT
    Reactions,   \* what the application does: echo_tcp.c only does "echo"
    Iss          \* bound: the initial numbers iss counts through

\* UIP_RTO << nrtx, up to 4.
Backoff(nrtx) == RTO * 2^(IF nrtx > 4 THEN 4 ELSE nrtx)

\* Nothing is assumed of the estimate but that it is a u8_t.
ASSUME UipAssumption ==
    /\ Conns \subseteq Nat \ {0} /\ IsFiniteSet(Conns)
    /\ Peers \cap Knockers = {}
    /\ RTO \in Nat \ {0} /\ TimerMod \in Nat /\ TimeWait \in 1..TimerMod - 1
    /\ Rtos \subseteq 0..TimerMod - 1 /\ RTO \in Rtos
    /\ \A n \in 0..MaxRtx - 1 : Backoff(n) < TimerMod
    /\ MaxRtx \in Nat /\ MaxSynRtx \in Nat /\ Iss \subseteq Nat

VARIABLES
    conns,    \* uip_conns, with the history of each connection
    taken     \* history: every byte of each host that the application was
              \* given, or that came after it had closed

vars == <<conns, taken, cli, toCli>>
server == <<conns, taken>>

States == {"CLOSED", "SYN_RCVD", "ESTABLISHED", "FIN_WAIT_1", "FIN_WAIT_2",
           "CLOSING", "TIME_WAIT", "LAST_ACK"}

Junk == 0              \* a byte of uip_buf the application did not write

\* A closed connection; the fields the code leaves in it are never read.
\* got, base and age are history: the bytes the application was given on this
\* connection, the number of the first, and the passes in the present state.
Closed == [st |-> "CLOSED", peer |-> CHOOSE p \in AllHosts : TRUE, rcv |-> 0,
           snd |-> 0, len |-> 0, timer |-> 0, nrtx |-> 0,
           got |-> <<>>, base |-> 0, age |-> 0]

-----------------------------------------------------------------------------
(* Helpers of uip_process                                                  *)

\* tcp_send: every segment of a connection carries snd_nxt and rcv_nxt.
Reply(c, fl, d) == Seg(c.peer, fl, c.snd, c.rcv, d)

(* Variant: only a gap counts, not what was there before. *)
OutOfOrderGap(c, s) ==
    (s.data # <<>> \/ s.flags \in {"SYN", "FIN|ACK"}) /\ s.seq > c.rcv

\* Data, SYN or FIN that does not begin at rcv_nxt.
OutOfOrder(c, s) ==
    /\ s.data # <<>> \/ s.flags \in {"SYN", "FIN|ACK"}
    /\ s.seq # c.rcv

\* The segment acknowledges exactly what is outstanding.
AcksAll(c, s) == s.flags # "SYN" /\ c.len > 0 /\ s.ack = c.snd + c.len

\* The estimate may become anything, RTO and what it was among it.
AfterAck(c, s, rto) ==
    IF AcksAll(c, s)
    THEN [c EXCEPT !.snd = @ + c.len, !.timer = rto, !.len = 0]
    ELSE c

\* uip_add_rcv_nxt and UIP_NEWDATA: the application gets the data.
Accept(c, d) == [c EXCEPT !.rcv = @ + Len(d), !.got = @ \o d]

Enter(c, st) == [c EXCEPT !.st = st, !.age = 0]

\* The application has an event with the new bytes d and reacts to it; then
\* appsend.  While data is outstanding uip_slen is set to the old conn->len
\* whatever the application wrote.
AppSend(c, d, how) ==
    IF how = "close"
    THEN [conn |-> [Enter(c, "FIN_WAIT_1") EXCEPT !.len = 1, !.nrtx = 0],
          out  |-> {Reply(c, "FIN|ACK", <<>>)}]
    ELSE IF how = "echo" /\ d # <<>>
    THEN LET n == IF c.len = 0 THEN Len(d) ELSE c.len
         IN [conn |-> [c EXCEPT !.nrtx = 0, !.len = n],
             out  |-> {Reply(c, "PSH|ACK",
                         [k \in 1..n |-> IF k <= Len(d) THEN d[k] ELSE Junk])}]
    ELSE [conn |-> [c EXCEPT !.nrtx = 0],
          out  |-> IF d = <<>> THEN {} ELSE {Reply(c, "ACK", <<>>)}]

\* An application may only close when nothing of its own is outstanding.
MayReact(c, how) == how \in Reactions /\ (how = "close" => c.len = 0)

(* Variant: the table wraps around when it is full. *)
SlotForSynAny == Min(Conns)

\* uip_conns[c] to use for a new connection: the first closed one, otherwise
\* the one longest in TIME_WAIT; 0 if there is none.
SlotForSyn ==
    LET free == {i \in Conns : conns[i].st = "CLOSED"}
        old  == {i \in Conns : /\ conns[i].st = "TIME_WAIT"
                               /\ \A j \in Conns : conns[j].st = "TIME_WAIT" =>
                                     conns[j].timer <= conns[i].timer}
    IN IF free # {} THEN Min(free) ELSE IF old # {} THEN Min(old) ELSE 0

\* The connection a segment belongs to: the first one open to its sender.
Found(s) ==
    LET open == {i \in Conns : conns[i].st # "CLOSED" /\ conns[i].peer = s.peer}
    IN IF open = {} THEN 0 ELSE Min(open)

\* The end of every branch: connection i becomes c, out is sent; d is the data
\* that was taken.
Done(i, c, d, out) ==
    /\ conns' = [conns EXCEPT ![i] = c]
    /\ taken' = taken \cup {<<c.peer, b>> : b \in Range(d)}
    /\ ToCli(out)

Answer(i, c, out) == Done(i, c, <<>>, out)

-----------------------------------------------------------------------------
(* uip_input: one action for each way through uip_process.                 *)

\* A SYN to the listening port opens a connection if there is a slot for it.
\* iss moves on in every periodic pass: connections opened between two passes
\* share it, later ones do not.
Listen(s, iss) ==
    LET c == [Closed EXCEPT !.st = "SYN_RCVD", !.peer = s.peer,
                !.rcv = s.seq + 1, !.base = s.seq + 1,
                !.snd = iss, !.len = 1, !.timer = RTO]
    IN /\ Found(s) = 0 /\ s.flags = "SYN"
       /\ SlotForSyn # 0
       /\ Answer(SlotForSyn, c, {Reply(c, "SYN|ACK", <<>>)})

\* Anything else that fits no connection is answered with a reset.
Reset(s) ==
    /\ Found(s) = 0 /\ s.flags # "SYN" /\ s.flags # "RST"
    /\ ToCli({Seg(s.peer, "RST|ACK", s.ack, s.seq + 1, <<>>)})
    /\ UNCHANGED server

\* A reset closes the connection, whatever its numbers.
RecvRst(s, i) ==
    /\ s.flags = "RST"
    /\ Answer(i, Closed, {})

(* Variant: the answer confirms the segment. *)
RecvOutOfOrderTaken(s, i) ==
    LET c == conns[i]
    IN /\ s.flags # "RST" /\ OutOfOrder(c, s)
       /\ Answer(i, c, {Reply([c EXCEPT !.rcv = s.seq + Len(s.data)], "ACK", <<>>)})

RecvOutOfOrder(s, i) ==
    /\ s.flags # "RST" /\ OutOfOrder(conns[i], s)
    /\ Answer(i, conns[i], {Reply(conns[i], "ACK", <<>>)})

\* The rest of the actions are for a segment that passed those two tests, on
\* a connection in state st.
InOrder(s, i, st) ==
    /\ conns[i].st = st
    /\ s.flags # "RST" /\ ~OutOfOrder(conns[i], s)

RecvInSynRcvd(s, i, rto, how) ==
    LET c == Enter(Accept(AfterAck(conns[i], s, rto), s.data), "ESTABLISHED")
        r == AppSend(c, s.data, how)
    IN /\ InOrder(s, i, "SYN_RCVD") /\ AcksAll(conns[i], s)
       /\ MayReact(c, how)
       /\ Done(i, r.conn, s.data, r.out)

\* A FIN is ignored while data of ours is outstanding.
RecvFin(s, i, rto) ==
    LET c == AfterAck(conns[i], s, rto)
        f == [Enter(Accept(c, s.data), "LAST_ACK")
                EXCEPT !.rcv = @ + 1, !.len = 1, !.nrtx = 0]
    IN /\ InOrder(s, i, "ESTABLISHED") /\ s.flags = "FIN|ACK"
       /\ c.len = 0
       /\ Done(i, f, s.data, {Reply(f, "FIN|ACK", <<>>)})

RecvInEstablished(s, i, rto, how) ==
    LET c == Accept(AfterAck(conns[i], s, rto), s.data)
        r == AppSend(c, s.data, how)
    IN /\ InOrder(s, i, "ESTABLISHED") /\ s.flags # "FIN|ACK"
       /\ s.data # <<>> \/ AcksAll(conns[i], s)
       /\ MayReact(c, how)
       /\ Done(i, r.conn, s.data, r.out)

RecvInLastAck(s, i) ==
    /\ InOrder(s, i, "LAST_ACK") /\ AcksAll(conns[i], s)
    /\ Answer(i, Closed, {})

\* After uip_close: data is taken and thrown away, the application is not
\* asked again.
Refuse(i, c, s, out) ==
    Done(i, [c EXCEPT !.rcv = @ + Len(s.data) + (IF s.flags = "FIN|ACK" THEN 1 ELSE 0)],
         s.data, out)

RecvInFinWait1(s, i, rto) ==
    LET c == AfterAck(conns[i], s, rto)
        acked == AcksAll(conns[i], s)
        fin == s.flags = "FIN|ACK"
        n == IF fin
             THEN IF acked THEN [Enter(c, "TIME_WAIT") EXCEPT !.timer = 0]
                           ELSE Enter(c, "CLOSING")
             ELSE IF acked THEN Enter(c, "FIN_WAIT_2") ELSE c
        ack == {Reply([c EXCEPT !.rcv = @ + Len(s.data) + (IF fin THEN 1 ELSE 0)],
                      "ACK", <<>>)}
    IN /\ InOrder(s, i, "FIN_WAIT_1")
       /\ fin \/ acked \/ s.data # <<>>
       /\ Refuse(i, n, s, IF fin \/ ~acked THEN ack ELSE {})

RecvInFinWait2(s, i) ==
    LET c == conns[i]
        fin == s.flags = "FIN|ACK"
        n == IF fin THEN [Enter(c, "TIME_WAIT") EXCEPT !.timer = 0] ELSE c
    IN /\ InOrder(s, i, "FIN_WAIT_2")
       /\ fin \/ s.data # <<>>
       /\ Refuse(i, n, s,
            {Reply([c EXCEPT !.rcv = @ + Len(s.data) + (IF fin THEN 1 ELSE 0)],
                   "ACK", <<>>)})

RecvInTimeWait(s, i) ==
    /\ InOrder(s, i, "TIME_WAIT")
    /\ Answer(i, conns[i], {Reply(conns[i], "ACK", <<>>)})

RecvInClosing(s, i, rto) ==
    /\ InOrder(s, i, "CLOSING") /\ AcksAll(conns[i], s)
    /\ Answer(i, [Enter(AfterAck(conns[i], s, rto), "TIME_WAIT") EXCEPT !.timer = 0], {})

Handle(s) ==
    \/ \E iss \in Iss : Listen(s, iss)
    \/ Reset(s)
    \/ \E i \in Conns :
         /\ i = Found(s)
         /\ \/ RecvRst(s, i) \/ RecvOutOfOrder(s, i)
            \/ RecvInLastAck(s, i) \/ RecvInFinWait2(s, i) \/ RecvInTimeWait(s, i)
            \/ \E rto \in Rtos :
                 \/ RecvFin(s, i, rto)
                 \/ RecvInFinWait1(s, i, rto) \/ RecvInClosing(s, i, rto)
                 \/ \E how \in Reactions :
                      \/ RecvInSynRcvd(s, i, rto, how)
                      \/ RecvInEstablished(s, i, rto, how)

Input == \E s \in Arriving : Handle(s)

-----------------------------------------------------------------------------
(* uip_periodic                                                            *)

\* What a retransmission timeout sends.  The application is told of lost data
\* (UIP_REXMIT), but echo_tcp only looks at uip_newdata and sends nothing.
Rexmit(c) ==
    CASE c.st = "SYN_RCVD" -> {Reply(c, "SYN|ACK", <<>>)}
      [] c.st = "ESTABLISHED" -> {}
      [] OTHER -> {Reply(c, "FIN|ACK", <<>>)}

(* Variant: one retransmission more. *)
GivesUpLate(c) == c.nrtx > MaxRtx \/ (c.st = "SYN_RCVD" /\ c.nrtx = MaxSynRtx)

(* Variant: a SYN is repeated as often as data. *)
GivesUpSame(c) == c.nrtx = MaxRtx

GivesUp(c) == c.nrtx = MaxRtx \/ (c.st = "SYN_RCVD" /\ c.nrtx = MaxSynRtx)

\* One connection in a periodic pass, and what the application does if polled.
Timer(c, how) ==
    LET quiet(n) == [conn |-> n, out |-> {}]
    IN CASE c.st = "CLOSED" -> quiet(c)
         [] c.st \in {"TIME_WAIT", "FIN_WAIT_2"} ->
              LET t == (c.timer + 1) % TimerMod
              IN quiet(IF t = TimeWait THEN Closed ELSE [c EXCEPT !.timer = t])
         [] OTHER ->
              IF c.len = 0
              THEN IF c.st = "ESTABLISHED" THEN AppSend(c, <<>>, how) ELSE quiet(c)
              ELSE IF c.timer > 0 THEN quiet([c EXCEPT !.timer = @ - 1])
              ELSE IF GivesUp(c)
              THEN [conn |-> Closed, out |-> {Reply(c, "RST|ACK", <<>>)}]
              ELSE [conn |-> [c EXCEPT !.timer = Backoff(c.nrtx), !.nrtx = @ + 1],
                    out  |-> Rexmit(c)]

\* History: a connection being opened or closed grows older.
Aged(c) ==
    IF c.st \in {"CLOSED", "ESTABLISHED"} THEN c ELSE [c EXCEPT !.age = @ + 1]

Periodic ==
    \E shut \in SUBSET {i \in Conns : conns[i].st = "ESTABLISHED" /\ conns[i].len = 0} :
        LET r == [i \in Conns |-> Timer(Aged(conns[i]), IF i \in shut THEN "close" ELSE "quiet")]
        IN /\ shut # {} => "close" \in Reactions
           /\ conns' = [i \in Conns |-> r[i].conn]
           /\ ToCli(UNION {r[i].out : i \in Conns})
           /\ UNCHANGED taken

-----------------------------------------------------------------------------
Init ==
    /\ conns = [i \in Conns |-> Closed]
    /\ taken = {}
    /\ HostsInit

Outside == (Host \/ Lose) /\ UNCHANGED server

Next == Input \/ Periodic \/ Outside

Spec == Init /\ [][Next]_vars

-----------------------------------------------------------------------------
(* Properties                                                              *)

TypeOK ==
    /\ \A i \in Conns :
         /\ conns[i].st \in States /\ conns[i].peer \in AllHosts
         /\ conns[i].len \in 0..Gap /\ conns[i].nrtx \in 0..MaxRtx
         /\ conns[i].timer \in 0..TimerMod - 1 /\ conns[i].got \in Seq(Nat)
         /\ conns[i].age \in Nat
    /\ taken \subseteq AllHosts \X Nat
    /\ HostsTypeOK

\* Whatever is lost, duplicated or reordered, the application is given on a
\* connection the bytes of that connection's stream, from the first one, in
\* order and each once; while it may still get some, all up to rcv_nxt.
StreamIntact ==
    \A i \in Conns :
        LET c == conns[i]
        IN c.st # "CLOSED" =>
             /\ \A k \in 1..Len(c.got) : c.got[k] = c.base + k - 1
             /\ c.st \in {"SYN_RCVD", "ESTABLISHED"} => c.rcv = c.base + Len(c.got)

\* A byte is acknowledged to a host only after the application was given that
\* byte of that host, or closed: no answer of any branch confirms data that was
\* dropped.
AcksHonest ==
    \A s \in toCli : s.flags # "RST|ACK" =>
        \A k \in 1..Len(Units) : \A u \in 1..Units[k] :
            LET byte == k * Gap + u
            IN (s.ack > byte /\ s.ack <= (k + 1) * Gap) => <<s.peer, byte>> \in taken

\* A connection that is being opened or closed ends within the passes its
\* retransmissions take, whatever still arrives for it: a host that repeats
\* itself cannot hold a slot of uip_conns.  After first passes the FIN or
\* SYN,ACK is repeated n times, each time Backoff later and one pass more.
\* TIME_WAIT begins at 0 and ends with the timer at TimeWait; FIN_WAIT_2 begins
\* at the estimate, which may have passed TimeWait, and then ends behind a wrap.
RetrySpan(first, n) ==
    first + 1 + n + RTO * (IF n <= 5 THEN 2^n - 1 ELSE 16 * n - 49)

HalfOpenEnds ==
    \A i \in Conns :
        LET c == conns[i]
        IN /\ c.st = "SYN_RCVD" => c.age < RetrySpan(RTO, MaxSynRtx)
           /\ c.st \in {"FIN_WAIT_1", "CLOSING", "LAST_ACK"} =>
                c.age < RetrySpan(Max(Rtos), MaxRtx)
           /\ c.st = "FIN_WAIT_2" => c.age < TimerMod
           /\ c.st = "TIME_WAIT" => c.age < TimeWait

\* A slot changes hands only when its connection is over: a SYN that finds the
\* table full never takes the place of another host's open connection.
SlotsNotStolen ==
    [][\A i \in Conns :
         conns'[i].base # conns[i].base /\ conns'[i].st # "CLOSED" =>
              conns[i].st \in {"CLOSED", "TIME_WAIT"}]_vars

\* uip.h:695-698 of uip_rexmit: the application "should send the exact same
\* data as it did the last time".  So a place of the answer holds one byte
\* however often it is sent: the echo of the host's byte at that place.
EchoInPlace ==
    \A s \in toCli :
        s.peer \in Peers /\ cli[s.peer].st = "OPEN" =>
             \A k \in 1..Len(s.data) : s.data[k] = Isn(s.peer) + (s.seq - cli[s.peer].irs) + k - 1
=============================================================================
