------------------------------ MODULE UipTimer ------------------------------
(***************************************************************************)
(* The clock of firmware_uip: timer_irq_count of irq.c, clock_time of      *)
(* clock-arch.c, the two timers of main.c after timer.c, and the loop that *)
(* calls uip_periodic when there is no packet.                             *)
(*                                                                         *)
(* clock_time_t is an int, the counter it is read from an unsigned short:  *)
(* the count wraps at 2^16, the start of a timer does not.                 *)
(***************************************************************************)
EXTENDS Integers

CONSTANTS
    CountMod,     \* 2^16, the values of timer_irq_count
    Interval,     \* CLOCK_SECOND / 2
    ArpInterval   \* CLOCK_SECOND * 10

VARIABLES
    count,        \* timer_irq_count, clock_time()
    periodic,     \* periodic_timer.start
    arp,          \* arp_timer.start
    passes        \* history: how often uip_periodic was called for all

vars == <<count, periodic, arp, passes>>

Expired(start, interval) == count - start >= interval

Init == count = 0 /\ periodic = 0 /\ arp = 0 /\ passes = 0

TimerIrq ==
    /\ count' = (count + 1) % CountMod
    /\ UNCHANGED <<periodic, arp, passes>>

\* A turn of the loop that finds no packet, and the timer expired.
Periodic ==
    /\ Expired(periodic, Interval)
    /\ periodic' = periodic + Interval
    /\ arp' = IF Expired(arp, ArpInterval) THEN arp + ArpInterval ELSE arp
    /\ passes' = passes + 1
    /\ UNCHANGED count

Next == TimerIrq \/ Periodic

\* The interrupt keeps coming, and packets do not keep the loop busy for ever.
Spec == Init /\ [][Next]_vars /\ WF_vars(TimerIrq) /\ WF_vars(Periodic)

-----------------------------------------------------------------------------
TypeOK ==
    /\ count \in 0..CountMod - 1
    /\ periodic \in Nat /\ arp \in Nat /\ passes \in Nat

\* timer.c:55-57 of timer_set: "The function timer_expired() will evaluate to
\* true after the timer has expired."  main.c resets it each time, so it has to
\* come true again and again: uip_periodic is what retransmits and times out.
ExpiresAgain == []<>Expired(periodic, Interval)

\* What the wrap of the count leaves of it: both timers stay below the wrap, so
\* uip_periodic is called at most CountMod / Interval times, ever.
PassesBounded ==
    /\ periodic = passes * Interval /\ periodic < CountMod
    /\ arp < CountMod
=============================================================================
