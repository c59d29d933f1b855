----------------------------- MODULE MCIrqPath ------------------------------
(* Small FIFO, short release time; byte 2 is the command '/'. *)
EXTENDS IrqPath

MCToRecv == {2}
=============================================================================
