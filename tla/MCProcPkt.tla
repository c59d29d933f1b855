----------------------------- MODULE MCProcPkt ------------------------------
(* Packet words of two RAM words, mailboxes of eight. *)
EXTENDS ProcPkt

MCLengths     == {5}
MCSendLengths == {4}
=============================================================================
