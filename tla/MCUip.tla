------------------------------- MODULE MCUip -------------------------------
(* The TCP server of uIP with one or two slots and two hosts.              *)
EXTENDS Uip, TLC

\* The estimate of the retransmission time: TimeWait, so that FIN_WAIT_2 begins
\* with the value at which it would have ended and lasts a whole turn.
MCRtos == {1}

\* A connection of one byte, then one that is only a FIN.
MCUnits == <<1, 0>>

\* Two bytes, which one segment may carry or two.
MCEchoUnits == <<2>>
=============================================================================
