----------------------------- MODULE MCLwipTcp -----------------------------
(* The TCP server of lwIP with one control block and two hosts.            *)
EXTENDS LwipTcp, TLC

MCRtos == {1}

\* A connection of three bytes, then one that is only a FIN: what is left of the
\* first one under way meets the second.
MCUnits == <<3, 0>>
=============================================================================
