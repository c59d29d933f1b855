------------------------------ MODULE TcpHosts ------------------------------
(***************************************************************************)
(* What the two TCP servers of the firmware talk to: hosts that follow     *)
(* TCP, and a network that loses, duplicates, delays and reorders          *)
(* segments.  No code of the repository is modelled here.                  *)
(*                                                                         *)
(* A byte of a host's stream is its own sequence number, so a segment's    *)
(* data is the sequence of those numbers.  Sequence numbers do not wrap    *)
(* within the bounds; addresses, checksums and options are left out.       *)
(***************************************************************************)
EXTENDS Integers, Sequences, FiniteSets, SequencesExt, FiniteSetsExt

CONSTANTS
    Peers,       \* the hosts; a host uses one port
    Knockers,    \* hosts that send a SYN now and then and never answer
    Units,       \* bound: the bytes a host sends on its first connection before
                 \* its FIN, on its second, ...; it opens no more than these
    Gap,         \* the distance of the initial numbers of a host's connections
    Room,        \* the numbers after a host's SYN that the server's window
                 \* ever admits
    Wire         \* bound: answers of the server under way

ASSUME HostsAssumption ==
    /\ Units \in Seq(Nat) /\ Units # <<>>
    /\ Gap \in Nat /\ \A k \in 1..Len(Units) : Units[k] + 3 <= Gap
    /\ Room \in Nat /\ Wire \in Nat
    /\ Peers \cup Knockers # {}

VARIABLES
    cli,      \* the hosts
    toCli     \* answers under way

AllHosts == Peers \cup Knockers

Isn(p) == cli[p].inc * Gap
FinOf(k) == k * Gap + 1 + Units[k]
FinSeq(p) == IF cli[p].inc = 0 THEN 1 ELSE FinOf(cli[p].inc)

Seg(p, fl, sq, ak, d) ==
    [peer |-> p, flags |-> fl, seq |-> sq, ack |-> ak, data |-> d]

\* st, inc: the state and the number of the present connection; nxt, irs, rcv:
\* the next number it sends, the server's initial number and the next one of
\* it; past: these three of each earlier connection when it was over.
NoClient == [st |-> "CLOSED", inc |-> 0, nxt |-> 0, irs |-> 0, rcv |-> 0, past |-> <<>>]
Far(c) == [nxt |-> c.nxt, irs |-> c.irs, rcv |-> c.rcv]

\* Bytes from .. to-1 of a stream.
Bytes(from, to) == [k \in 1..(to - from) |-> from + k - 1]

\* The segments of a k-th connection that lie in the window, whole; the number
\* just after it is sent on its own, to probe a closed window.
Admitted(k, x, y) ==
    LET edge == k * Gap + 1 + Room
    IN y <= edge \/ (x = edge /\ y = edge + 1)

\* What p sent in its k-th connection until it had come as far as c: the SYN;
\* every cut of the stream, also with the FIN at its end, or an empty one, each
\* with any number the host acknowledged.
SegmentsOf(p, k, c) ==
    LET isn  == k * Gap
        fin  == FinOf(k)
        acks == c.irs + 1 .. c.rcv
        sent == isn + 1 .. Min({c.nxt, fin})
    IN {Seg(p, "SYN", isn, 0, <<>>)}
       \cup {Seg(p, "ACK", x, a, <<>>) : x \in isn + 1 .. c.nxt, a \in acks}
       \cup (UNION {{Seg(p, "ACK", x, a, Bytes(x, y)) :
                       y \in {z \in sent : z > x /\ Admitted(k, x, z)}, a \in acks}
                      : x \in sent})
       \cup {Seg(p, "FIN|ACK", x, a, Bytes(x, fin)) :
               x \in {y \in sent : c.nxt > fin /\ Admitted(k, y, fin + 1)}, a \in acks}

\* The resets of a k-th connection that is over: the host gave up or has
\* forgotten it, and rejects a segment of the server with the number that
\* segment confirmed.
ResetsOf(p, k, c) == {Seg(p, "RST", x, 0, <<>>) : x \in k * Gap + 1 .. c.nxt}

\* The segments that may arrive, each at any time after it was sent and any
\* number of times, those of earlier connections too.
ArrivingFrom(p) ==
    LET c == cli[p]
    IN SegmentsOf(p, c.inc, c)
       \cup (IF c.st = "CLOSED" THEN ResetsOf(p, c.inc, c) ELSE {})
       \cup UNION {SegmentsOf(p, k, c.past[k]) \cup ResetsOf(p, k, c.past[k])
                     : k \in 1..(c.inc - 1)}

Arriving ==
    {Seg(q, "SYN", 0, 0, <<>>) : q \in Knockers}
    \cup UNION {ArrivingFrom(p) : p \in {r \in Peers : cli[r].inc # 0}}

-----------------------------------------------------------------------------
Becomes(p, c) == cli' = [cli EXCEPT ![p] = c] /\ UNCHANGED toCli

Connect(p) ==
    LET c == cli[p]
        isn == (c.inc + 1) * Gap
    IN /\ c.st = "CLOSED" /\ c.inc < Len(Units)
       /\ Becomes(p, [NoClient EXCEPT !.st = "SYN_SENT", !.inc = c.inc + 1, !.nxt = isn + 1,
                        !.past = IF c.inc = 0 THEN <<>> ELSE Append(c.past, Far(c))])

\* The next byte of the stream, or the FIN, while the window has room.
SendNext(p) ==
    /\ cli[p].st = "OPEN" /\ cli[p].nxt <= FinSeq(p)
    /\ cli[p].nxt <= Isn(p) + 1 + Room
    /\ Becomes(p, [cli[p] EXCEPT !.nxt = @ + 1])

\* The host gives the connection up, with a reset or by crashing.
Abort(p) ==
    /\ cli[p].st # "CLOSED"
    /\ Becomes(p, [cli[p] EXCEPT !.st = "CLOSED"])

ClientRecv(s) ==
    LET p == s.peer
        c == cli[p]
        inOrder == s.seq = c.rcv
        fin == IF s.flags = "FIN|ACK" THEN 1 ELSE 0
    IN \/ /\ c.st = "SYN_SENT" /\ s.flags = "SYN|ACK" /\ s.ack = c.nxt
          /\ Becomes(p, [c EXCEPT !.st = "OPEN", !.irs = s.seq, !.rcv = s.seq + 1])
       \/ /\ s.flags = "RST|ACK"
          /\ (c.st = "SYN_SENT" /\ s.ack = c.nxt) \/ (c.st = "OPEN" /\ inOrder)
          /\ Becomes(p, [c EXCEPT !.st = "CLOSED"])
       \/ /\ c.st = "OPEN" /\ s.flags \in {"ACK", "PSH|ACK", "FIN|ACK"} /\ inOrder
          /\ s.data # <<>> \/ fin = 1
          /\ Becomes(p, [c EXCEPT !.rcv = @ + Len(s.data) + fin])

\* What a host does by itself or with an answer; an answer that is lost.
Host ==
    \/ \E p \in Peers : Connect(p) \/ SendNext(p) \/ Abort(p)
    \/ \E s \in toCli : s.peer \in Peers /\ ClientRecv(s)

Lose == \E s \in toCli : toCli' = toCli \ {s} /\ UNCHANGED cli

\* Answers leave, and are lost when the wire is full.
ToCli(segs) ==
    /\ toCli' = IF Cardinality(toCli \cup segs) <= Wire THEN toCli \cup segs ELSE toCli
    /\ UNCHANGED cli

HostsInit == cli = [p \in Peers |-> NoClient] /\ toCli = {}

HostsTypeOK ==
    /\ \A p \in Peers : cli[p].st \in {"CLOSED", "SYN_SENT", "OPEN"}
    /\ Cardinality(toCli) <= Wire
=============================================================================
