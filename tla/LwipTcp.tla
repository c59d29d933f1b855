------------------------------ MODULE LwipTcp ------------------------------
(***************************************************************************)
(* The TCP server of firmware_lwip_v2_1_3: tcp.c, tcp_in.c and tcp_out.c   *)
(* with the application tcpecho_raw/echo.c, driven by the loop of main.c   *)
(* (NO_SYS: one thread; the timer interrupt only counts).  One step        *)
(* handles a packet (ethernetif_input, up to the last tcp_output), or a    *)
(* call of tcp_tmr with all its control blocks.                            *)
(*                                                                         *)
(* This application never sends data and never calls tcp_recved, and it    *)
(* closes inside its receive callback: CLOSE_WAIT is left in the step that *)
(* enters it, and FIN_WAIT_1, FIN_WAIT_2, CLOSING and TIME_WAIT have no    *)
(* way in.  A server segment carries no data, so the host's window, the    *)
(* congestion window and the persist timer never hold one back.            *)
(***************************************************************************)
EXTENDS TcpHosts

CONSTANTS
    Pcbs,          \* the control blocks of MEMP_TCP_PCB
    Wnd,           \* TCP_WND
    Pool,          \* PBUF_POOL_SIZE: a segment takes one buffer
    Heap,          \* echo_states the heap has room for
    Backlog,       \* TCP_DEFAULT_LISTEN_BACKLOG
    RTO, Rtos,     \* the first pcb->rto; what the estimate becomes
    MaxRtx,        \* TCP_MAXRTX
    DupAcks,       \* duplicate ACKs that start a fast retransmission
    OoseqTimeout,  \* TCP_OOSEQ_TIMEOUT
    SynTicks,      \* TCP_SYN_RCVD_TIMEOUT / TCP_SLOW_INTERVAL
    FinTicks,      \* 2 * TCP_MSL / TCP_SLOW_INTERVAL
    IdleMax,       \* bound: where the time a connection is idle stops
    Iss            \* bound: the initial numbers tcp_next_iss counts through

\* tcp_backoff, as factors.
Backoff(n) == <<2, 4, 8, 16, 32, 64, 128>>[IF n < 6 THEN n + 1 ELSE 7]

\* The window ends before the numbers of the next connection of a host begin,
\* and nothing waits for a connection to be idle longer than IdleMax.
ASSUME LwipAssumption ==
    /\ Pcbs \subseteq Nat \ {0} /\ IsFiniteSet(Pcbs)
    /\ Peers \cap Knockers = {}
    /\ Wnd \in Nat \ {0} /\ Room = Wnd /\ Wnd <= Gap
    /\ Pool \in Nat \ {0} /\ Heap \in Nat /\ Backlog \in Nat
    /\ RTO \in Nat \ {0} /\ Rtos \subseteq Nat \ {0}
    /\ MaxRtx \in Nat /\ DupAcks \in Nat /\ Iss \subseteq Nat
    /\ IdleMax \in Nat /\ SynTicks \in 0..IdleMax - 1 /\ FinTicks \in 0..IdleMax - 1
    /\ OoseqTimeout \in Nat
    /\ \A r \in Rtos \cup {RTO}, n \in 0..MaxRtx - 1 : OoseqTimeout * r * Backoff(n) <= IdleMax

VARIABLES
    pcbs,      \* the control blocks; CLOSED: not allocated
    pending,   \* accepts_pending of the listener
    heap,      \* echo_states allocated
    leaked,    \* history: those allocated for no connection
    odd        \* the last bit of tcp_timer

vars == <<pcbs, pending, heap, leaked, odd, cli, toCli>>
server == <<pcbs, pending, heap, leaked, odd>>

\* idle is tcp_ticks - tmr; snd is lastack; rtime -1 is a stopped timer; arg
\* tells whether callback_arg points to an echo_state.  got and base are
\* history: the bytes given to echo_recv and the number of the first.
Closed == [st |-> "CLOSED", peer |-> CHOOSE p \in AllHosts : TRUE, rcv |-> 0,
           wnd |-> Wnd, snd |-> 0, idle |-> 0, rtime |-> -1, rto |-> RTO, est |-> RTO,
           nrtx |-> 0, dup |-> 0, infr |-> FALSE, delay |-> FALSE, ooseq |-> <<>>,
           arg |-> FALSE, got |-> <<>>, base |-> 0]

-----------------------------------------------------------------------------
(* Sending.  A SYN or FIN of ours is outstanding exactly in SYN_RCVD and    *)
(* LAST_ACK; an ACK, or anything that carries one, ends its delay.          *)

Outstanding(c) == IF c.st \in {"SYN_RCVD", "LAST_ACK"} THEN 1 ELSE 0
SndNxt(c) == c.snd + Outstanding(c)

EmptyAck(c) == Seg(c.peer, "ACK", SndNxt(c), c.rcv, <<>>)
Rst(c) == Seg(c.peer, "RST|ACK", SndNxt(c), c.rcv, <<>>)
Flagged(c) == Seg(c.peer, IF c.st = "SYN_RCVD" THEN "SYN|ACK" ELSE "FIN|ACK",
                  c.snd, c.rcv, <<>>)
NotDelayed(c) == [c EXCEPT !.delay = FALSE]

\* A reset ends the connection; removing its block sends what was delayed.
Aborted(c) == {Rst(c)} \cup (IF c.delay THEN {EmptyAck(c)} ELSE {})

\* What a step makes of a connection and sends.
Out(c, segs) == [conn |-> c, out |-> segs]

(* Variant: a repetition for the host is not counted. *)
RexmitFree(c) == c

\* tcp_rexmit: the segment goes out again with the step's tcp_output.  nrtx is
\* only compared with TCP_MAXRTX and stops there.
Rexmit(c) == [c EXCEPT !.nrtx = Min({@ + 1, MaxRtx})]

-----------------------------------------------------------------------------
(* tcp_receive                                                             *)

Fin(s) == IF s.flags = "FIN|ACK" THEN 1 ELSE 0
InSeg(s) == [seq |-> s.seq, data |-> s.data, fin |-> Fin(s)]
TcpLen(g) == Len(g.data) + g.fin
DataEnd(g) == g.seq + Len(g.data)

InWindow(c, seq) == seq \in c.rcv .. c.rcv + c.wnd - 1

CutTo(g, end) == [g EXCEPT !.data = SubSeq(@, 1, end - g.seq)]

(* Variant: only the number of the segment is moved. *)
FrontWhole(c, g) ==
    IF c.rcv \in g.seq + 1 .. g.seq + TcpLen(g) - 1 THEN [g EXCEPT !.seq = c.rcv] ELSE g

\* The front of a segment that was received before is removed.
FrontTrimmed(c, g) ==
    IF c.rcv \in g.seq + 1 .. g.seq + TcpLen(g) - 1
    THEN [g EXCEPT !.seq = c.rcv, !.data = SubSeq(@, c.rcv - g.seq + 1, Len(@))]
    ELSE g

\* Data and FIN that would overrun the window are removed.
FitWindow(c, g) ==
    IF g.seq + TcpLen(g) > c.rcv + c.wnd
    THEN [CutTo(g, c.rcv + c.wnd) EXCEPT !.fin = 0] ELSE g

\* The first n queued segments, which g covers, go and a FIN of theirs moves
\* to g; g ends where the next one begins.
Swallow(g, q) ==
    LET end  == g.seq + TcpLen(g)
        n    == Min({k \in 1..Len(q) : DataEnd(q[k]) > end} \cup {Len(q) + 1}) - 1
        rest == SubSeq(q, n + 1, Len(q))
        f    == IF \E k \in 1..n : q[k].fin = 1 THEN [g EXCEPT !.fin = 1] ELSE g
    IN [seg  |-> IF rest # <<>> /\ g.seq + TcpLen(f) > Head(rest).seq
                 THEN CutTo(f, Head(rest).seq) ELSE f,
        rest |-> rest]

\* tcp_oos_insert_segment: after a FIN there is nothing.
OosInsert(g, q) ==
    IF g.fin = 1 THEN <<g>>
    ELSE LET s == Swallow(g, q) IN <<s.seg>> \o s.rest

\* The queue after a segment that is not the next one: n segments begin before
\* it, and the last of them is cut where it begins.
Queued(c, g) ==
    LET q == c.ooseq
        n == Min({k \in 1..Len(q) : q[k].seq >= g.seq} \cup {Len(q) + 1}) - 1
        front == [k \in 1..n |->
                    IF k = n /\ DataEnd(q[k]) > g.seq THEN CutTo(q[k], g.seq) ELSE q[k]]
        there == n < Len(q) /\ q[n + 1].seq = g.seq /\ Len(g.data) <= Len(q[n + 1].data)
        atEnd == q # <<>> /\ n = Len(q)
    IN IF there \/ (atEnd /\ Last(q).fin = 1) THEN q
       ELSE front \o OosInsert(IF atEnd THEN FitWindow(c, g) ELSE g, SubSeq(q, n + 1, Len(q)))

\* rcv_nxt moves over a segment, its data goes to recv_data.
Consume(c, g) ==
    [c EXCEPT !.rcv = @ + TcpLen(g), !.wnd = @ - TcpLen(g), !.got = @ \o g.data]

\* The queued segments that follow without a gap go the same way.
TakeQueued(c, q) ==
    LET taken[k \in 0..Len(q)] ==
          IF k = 0 THEN [conn |-> c, n |-> 0, fin |-> FALSE]
          ELSE LET t == taken[k - 1]
               IN IF t.n = k - 1 /\ q[k].seq = t.conn.rcv
                  THEN [conn |-> Consume(t.conn, q[k]), n |-> k, fin |-> t.fin \/ q[k].fin = 1]
                  ELSE t
    IN taken[Len(q)]

Remaining(t, q) == [t.conn EXCEPT !.ooseq = SubSeq(q, t.n + 1, Len(q))]

(* Variant: what the queue already holds is not removed from the segment. *)
InSequenceWhole(c, g) ==
    LET fit == FitWindow(c, g)
        t   == TakeQueued(Consume(c, fit), c.ooseq)
    IN [conn |-> Remaining(t, c.ooseq), fin |-> t.fin \/ fit.fin = 1]

\* The next segment, and the queued ones behind it.
InSequence(c, g) ==
    LET fit == FitWindow(c, g)
        s   == IF fit.fin = 1 THEN [seg |-> fit, rest |-> <<>>] ELSE Swallow(fit, c.ooseq)
        t   == TakeQueued(Consume(c, s.seg), s.rest)
    IN [conn |-> Remaining(t, s.rest), fin |-> t.fin \/ s.seg.fin = 1]

\* The acknowledgement of a segment: new, or a duplicate that may start a fast
\* retransmission.
AckPart(c, s, est) ==
    LET dups == c.dup + 1
        fast == dups >= DupAcks /\ ~c.infr
    IN CASE s.ack \in c.snd + 1 .. SndNxt(c) ->
              Out([c EXCEPT !.snd = s.ack, !.nrtx = 0, !.dup = 0, !.infr = FALSE,
                            !.rtime = -1, !.est = est, !.rto = est], {})
         [] s.ack > SndNxt(c) -> Out(NotDelayed(c), {EmptyAck(c)})
         [] s.ack = c.snd /\ TcpLen(InSeg(s)) = 0 /\ c.rtime >= 0 ->
              IF fast
              THEN Out([Rexmit(c) EXCEPT !.dup = Min({dups, DupAcks}), !.infr = TRUE,
                                         !.rtime = 0], {Flagged(c)})
              ELSE Out([c EXCEPT !.dup = Min({dups, DupAcks})], {})
         [] OTHER -> Out([c EXCEPT !.dup = 0], {})

\* The data of a segment on an open connection; now: an ACK is due at once.
DataPart(c, s) ==
    LET g   == FrontTrimmed(c, InSeg(s))
        r   == InSequence(c, g)
        new == TcpLen(g) > 0 /\ c.st # "LAST_ACK"
    IN CASE ~new -> [conn |-> c, fin |-> FALSE, now |-> ~InWindow(c, s.seq)]
         [] new /\ InWindow(c, g.seq) /\ g.seq = c.rcv ->
              [conn |-> [r.conn EXCEPT !.delay = ~@], fin |-> r.fin, now |-> c.delay \/ r.fin]
         [] new /\ InWindow(c, g.seq) /\ g.seq # c.rcv ->
              [conn |-> [c EXCEPT !.ooseq = Queued(c, g)], fin |-> FALSE, now |-> TRUE]
         [] OTHER -> [conn |-> c, fin |-> FALSE, now |-> TRUE]

-----------------------------------------------------------------------------
(* The application                                                         *)

(* Variant: tcp_close resets the connection and nobody frees its state. *)
FreedUnlessReset(c) == IF c.wnd = Wnd - 1 THEN 1 ELSE 0

(* Variant: the error callback, still set, frees it again. *)
FreedTwice(c) == 2

\* echo_close frees its echo_state.
FreedByClose(c) == 1

\* A FIN was received: echo_recv without a buffer, echo_close, tcp_close.  The
\* window counts as used unless the FIN alone used it, and then tcp_close
\* resets instead.
EchoClose(c) ==
    LET w == IF c.wnd = Wnd THEN c.wnd ELSE c.wnd + 1
        f == [NotDelayed(c) EXCEPT !.st = "LAST_ACK", !.wnd = w, !.rtime = 0, !.arg = FALSE]
    IN IF w # Wnd
       THEN Out(Closed, Aborted(c))
       ELSE Out(f, {Flagged(f)})

\* The rest of tcp_input for an open connection.
Answered(d) ==
    IF d.fin THEN EchoClose(d.conn)
    ELSE IF d.now THEN Out(NotDelayed(d.conn), {EmptyAck(d.conn)})
    ELSE Out(d.conn, {})

-----------------------------------------------------------------------------
(* tcp_input                                                               *)

\* The buffers in the queues.
Held == Cardinality(UNION {{i} \X (1..Len(pcbs[i].ooseq)) : i \in Pcbs})

\* The block of a segment's connection; 0 if there is none.
Found(s) ==
    LET of == {i \in Pcbs : pcbs[i].st # "CLOSED" /\ pcbs[i].peer = s.peer}
    IN IF of = {} THEN 0 ELSE Min(of)

Done(i, r) == pcbs' = [pcbs EXCEPT ![i] = r.conn] /\ ToCli(r.out) /\ UNCHANGED odd

\* Nothing changes but one block.
Answer(i, c, segs) == Done(i, Out(c, segs)) /\ UNCHANGED <<pending, heap, leaked>>

\* Block i is freed: its place in the backlog and its echo_state (echo_error,
\* which nobody calls once echo_close took it back) are given back.
Freed(i) ==
    /\ pending' = pending - (IF pcbs[i].st = "SYN_RCVD" THEN 1 ELSE 0)
    /\ heap' = heap - (IF pcbs[i].arg THEN 1 ELSE 0)
    /\ UNCHANGED leaked

Oldest(S) == {i \in S : \A j \in S : pcbs[j].idle <= pcbs[i].idle}
Within(st) == {i \in Pcbs : pcbs[i].st = st}

\* tcp_alloc: a free block, or else one taken from a connection that waits for
\* its last ACK, or else from an open one, whose priority echo_accept made the
\* lowest; never from one that is being opened.
Allocated ==
    IF Within("CLOSED") # {} THEN {Min(Within("CLOSED"))}
    ELSE IF Within("LAST_ACK") # {} THEN Oldest(Within("LAST_ACK"))
    ELSE Oldest(Within("ESTABLISHED"))

Listen(s, iss) ==
    LET c == [Closed EXCEPT !.st = "SYN_RCVD", !.peer = s.peer, !.rcv = s.seq + 1,
                            !.base = s.seq + 1, !.snd = iss, !.rtime = 0]
    IN /\ Found(s) = 0 /\ s.flags = "SYN" /\ pending < Backlog
       /\ \E i \in Allocated :
            /\ Done(i, Out(c, {Flagged(c)} \cup
                  (IF pcbs[i].st = "ESTABLISHED" THEN Aborted(pcbs[i]) ELSE {})))
            /\ pending' = pending + 1
            /\ heap' = heap - (IF pcbs[i].arg THEN 1 ELSE 0)
            /\ UNCHANGED leaked

\* No block: the accept callback is called all the same, without one, and
\* allocates an echo_state that nothing points to.
ListenRefused(s) ==
    /\ Found(s) = 0 /\ s.flags = "SYN" /\ pending < Backlog
    /\ Allocated = {}
    /\ heap < Heap /\ heap' = heap + 1 /\ leaked' = leaked + 1
    /\ UNCHANGED <<pcbs, pending, odd, cli, toCli>>

\* A segment of no connection, or that does not fit one being opened.
Rejected(s) == {Seg(s.peer, "RST|ACK", s.ack, s.seq + TcpLen(InSeg(s)), <<>>)}

ListenReset(s) ==
    /\ Found(s) = 0 /\ s.flags # "SYN" /\ s.flags # "RST"
    /\ ToCli(Rejected(s))
    /\ UNCHANGED server

\* A reset counts if its number is the next one; elsewhere in the window it is
\* answered.
RecvRst(s, i) ==
    /\ s.flags = "RST"
    /\ \/ s.seq = pcbs[i].rcv /\ Done(i, Out(Closed, {})) /\ Freed(i)
       \/ /\ s.seq \in pcbs[i].rcv + 1 .. pcbs[i].rcv + pcbs[i].wnd
          /\ Answer(i, NotDelayed(pcbs[i]), {EmptyAck(pcbs[i])})

RecvSyn(s, i) ==
    LET c == pcbs[i]
        heard == [c EXCEPT !.idle = 0]
    IN /\ s.flags = "SYN"
       /\ \/ c.st # "SYN_RCVD" /\ Answer(i, NotDelayed(c), {EmptyAck(c)})
          \/ c.st = "SYN_RCVD" /\ s.seq = c.rcv - 1 /\ Answer(i, Rexmit(heard), {Flagged(c)})
          \/ c.st = "SYN_RCVD" /\ s.seq # c.rcv - 1 /\ Answer(i, heard, {})

Acks(s) == s.flags \in {"ACK", "FIN|ACK"}

\* The ACK of our SYN: echo_accept, then the segment's data.
RecvInSynRcvd(s, i, est) ==
    LET c == [pcbs[i] EXCEPT !.idle = 0]
        a == [AckPart(c, s, est).conn EXCEPT !.st = "ESTABLISHED", !.arg = TRUE]
        d == DataPart(a, s)
    IN /\ Acks(s) /\ pcbs[i].st = "SYN_RCVD" /\ s.ack = SndNxt(c)
       /\ heap < Heap
       /\ Done(i, Answered(d))
       /\ pending' = pending - 1
       /\ heap' = heap + 1 - (IF d.fin THEN FreedByClose(d.conn) ELSE 0)
       /\ UNCHANGED leaked

\* echo_accept got no memory: tcp_abort.
RecvInSynRcvdNoMem(s, i) ==
    /\ Acks(s) /\ pcbs[i].st = "SYN_RCVD" /\ s.ack = SndNxt(pcbs[i])
    /\ heap = Heap
    /\ Done(i, Out(Closed, {Rst(pcbs[i])})) /\ Freed(i)

RecvInSynRcvdWrong(s, i) ==
    /\ Acks(s) /\ pcbs[i].st = "SYN_RCVD" /\ s.ack # SndNxt(pcbs[i])
    /\ Answer(i, [pcbs[i] EXCEPT !.idle = 0], Rejected(s))

RecvInEstablished(s, i, est) ==
    LET a == AckPart([pcbs[i] EXCEPT !.idle = 0], s, est)
        d == DataPart(a.conn, s)
        r == Answered(d)
    IN /\ Acks(s) /\ pcbs[i].st = "ESTABLISHED"
       /\ Done(i, Out(r.conn, r.out \cup a.out))
       /\ heap' = heap - (IF d.fin THEN FreedByClose(d.conn) ELSE 0)
       /\ UNCHANGED <<pending, leaked>>

RecvInLastAck(s, i, est) ==
    LET a == AckPart(pcbs[i], s, est)
        r == Answered(DataPart(a.conn, s))
    IN /\ Acks(s) /\ pcbs[i].st = "LAST_ACK"
       /\ IF s.ack = SndNxt(pcbs[i])
          THEN Done(i, Out(Closed, {})) /\ Freed(i)
          ELSE Answer(i, r.conn, r.out \cup a.out)

\* A packet is only taken while the pool has a buffer for it.
Input ==
    /\ Held < Pool
    /\ \E s \in Arriving :
         \/ \E iss \in Iss : Listen(s, iss)
         \/ ListenRefused(s) \/ ListenReset(s)
         \/ \E i \in Pcbs :
              /\ i = Found(s)
              /\ \/ RecvRst(s, i) \/ RecvSyn(s, i)
                 \/ RecvInSynRcvdNoMem(s, i) \/ RecvInSynRcvdWrong(s, i)
                 \/ \E est \in Rtos :
                      RecvInSynRcvd(s, i, est) \/ RecvInEstablished(s, i, est)
                        \/ RecvInLastAck(s, i, est)

-----------------------------------------------------------------------------
(* tcp_tmr                                                                 *)

\* tcp_fasttmr: an ACK is not delayed any longer.
Fast(c) == IF c.delay THEN Out(NotDelayed(c), {EmptyAck(c)}) ELSE Out(c, {})

\* The retransmission timer of a connection.
Retransmitted(c) ==
    LET t == IF c.rtime >= 0 THEN c.rtime + 1 ELSE c.rtime
    IN IF t >= c.rto
       THEN Out([Rexmit(c) EXCEPT !.rtime = 0, !.rto = c.est * Backoff(c.nrtx)], {Flagged(c)})
       ELSE Out([c EXCEPT !.rtime = t], {})

OoseqAged(c) ==
    IF c.ooseq # <<>> /\ c.idle >= c.rto * OoseqTimeout THEN [c EXCEPT !.ooseq = <<>>] ELSE c

(* Variant: tcp_slowtmr is never due. *)
SlowNever(c) == Out(c, {})

\* tcp_slowtmr for one block.  A block that is given up is freed without a
\* word; echo_poll finds nothing to do.
Slow(c) ==
    LET older == [c EXCEPT !.idle = Min({@ + 1, IdleMax})]
        r     == IF c.nrtx >= MaxRtx THEN Out(older, {}) ELSE Retransmitted(older)
        over  == \/ c.nrtx >= MaxRtx
                 \/ c.st = "SYN_RCVD" /\ older.idle > SynTicks
                 \/ c.st = "LAST_ACK" /\ older.idle > FinTicks
    IN IF c.st = "CLOSED" THEN Out(c, {})
       ELSE Out(IF over THEN Closed ELSE OoseqAged(r.conn), r.out)

Tmr ==
    LET f(i) == Fast(pcbs[i])
        r == [i \in Pcbs |-> IF odd THEN f(i)
                             ELSE LET s == Slow(f(i).conn) IN Out(s.conn, f(i).out \cup s.out)]
        gone == {i \in Pcbs : pcbs[i].st # "CLOSED" /\ r[i].conn.st = "CLOSED"}
    IN /\ pcbs' = [i \in Pcbs |-> r[i].conn]
       /\ ToCli(UNION {r[i].out : i \in Pcbs})
       /\ pending' = pending - Cardinality(gone \cap Within("SYN_RCVD"))
       /\ heap' = heap - Cardinality({i \in gone : pcbs[i].arg})
       /\ odd' = ~odd
       /\ UNCHANGED leaked

-----------------------------------------------------------------------------
Init ==
    /\ pcbs = [i \in Pcbs |-> Closed]
    /\ pending = 0 /\ heap = 0 /\ leaked = 0 /\ odd = FALSE
    /\ HostsInit

Outside == (Host \/ Lose) /\ UNCHANGED server

Next == Input \/ Tmr \/ Outside

\* The loop of main.c goes on and the timer interrupt comes back, so tcp_tmr is
\* called again and again; nothing else has to happen.
Spec == Init /\ [][Next]_vars /\ WF_vars(Tmr)

-----------------------------------------------------------------------------
(* Properties                                                              *)

TypeOK ==
    /\ \A i \in Pcbs :
         /\ pcbs[i].st \in {"CLOSED", "SYN_RCVD", "ESTABLISHED", "LAST_ACK"}
         /\ pcbs[i].peer \in AllHosts
         /\ pcbs[i].wnd \in 0..Wnd /\ pcbs[i].idle \in 0..IdleMax
         /\ pcbs[i].rtime \in -1..pcbs[i].rto - 1 /\ pcbs[i].nrtx \in 0..MaxRtx
         /\ pcbs[i].delay \in BOOLEAN /\ pcbs[i].arg \in BOOLEAN
    /\ heap \in 0..Heap /\ pending \in Nat /\ odd \in BOOLEAN
    /\ Held <= Pool
    /\ HostsTypeOK

\* Whatever is lost, duplicated, cut differently or reordered, echo_recv is
\* given the bytes of the connection's stream in order and each once; rcv_nxt
\* and the window (which never opens again) count exactly these.
StreamIntact ==
    \A i \in Pcbs :
        LET c == pcbs[i]
            fin == IF c.st = "LAST_ACK" THEN 1 ELSE 0
        IN c.st # "CLOSED" =>
             /\ \A k \in 1..Len(c.got) : c.got[k] = c.base + k - 1
             /\ c.rcv = c.base + Len(c.got) + fin
             /\ c.wnd = Wnd - Len(c.got)

\* What the asserts of tcp_receive rely on: the queue of early segments lies
\* behind rcv_nxt and in the window, is sorted, without overlaps, each byte at
\* its number, and nothing follows a FIN.
OoseqSound ==
    \A i \in Pcbs :
        LET c == pcbs[i]
            q == c.ooseq
        IN \A k \in 1..Len(q) :
             /\ c.st = "ESTABLISHED" /\ q[k].seq > c.rcv /\ TcpLen(q[k]) > 0
             /\ q[k].seq + TcpLen(q[k]) <= c.rcv + c.wnd
             /\ \A j \in 1..Len(q[k].data) : q[k].data[j] = q[k].seq + j - 1
             /\ k < Len(q) => q[k].fin = 0 /\ DataEnd(q[k]) <= q[k + 1].seq

\* The listener counts the connections being opened, and every echo_state
\* belongs to an open connection, except those that echo_accept allocates when
\* it is called without one (tcp_in.c:663-669).
Accounted ==
    /\ pending = Cardinality(Within("SYN_RCVD"))
    /\ heap = Cardinality(Within("ESTABLISHED")) + leaked
    /\ \A i \in Pcbs : pcbs[i].arg <=> pcbs[i].st = "ESTABLISHED"

\* A connection that is being opened or closed gives its block back, also if
\* its host repeats itself for ever and so keeps resetting tmr.
HalfOpenEnds ==
    \A i \in Pcbs : []<>(pcbs[i].st \notin {"SYN_RCVD", "LAST_ACK"})

\* Early segments cannot occupy the buffers for ever: main.c does not call
\* PBUF_CHECK_FREE_OOSEQ, and while the pool is empty no packet comes in that
\* could fill the gap, so this rests on the timer of tcp_slowtmr alone.
HearsAgain == []<>(Held < Pool)

\* echo.c:38-39: the server "passively closes when client is done".  So the
\* FIN of a host is not answered with a reset.
ClosesPassively ==
    [][\A i \in Pcbs :
         pcbs[i].st = "ESTABLISHED" /\ pcbs'[i].st = "CLOSED" =>
             \A s \in toCli' \ toCli :
                 s.peer = pcbs[i].peer /\ s.flags = "RST|ACK" => s.ack <= pcbs[i].rcv]_vars
=============================================================================
