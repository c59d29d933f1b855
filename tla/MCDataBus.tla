----------------------------- MODULE MCDataBus ------------------------------
(* The SoC of global_head.v: UART, LCD and CAN beside the data RAM. *)
EXTENDS DataBus

CONSTANTS RAM, UART, LCD, CAN, HOLE, NONE

MCFast == {UART, LCD}
MCCan  == {CAN}

(* Loads and stores of registers every decoder knows. *)
MCProgram ==
  [to : {RAM, UART, LCD, CAN}, op : {"rd", "wr"}, hit : {TRUE}]
=============================================================================
