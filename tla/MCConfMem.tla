----------------------------- MODULE MCConfMem ------------------------------
(* Two words in each RAM, frames of four words. *)
EXTENDS ConfMem

Instr(k) == [bank |-> "instr", index |-> k]
Dtcm(k)  == [bank |-> "data", index |-> k]

(* The last word to an address wins, and no two addresses end up alike. *)
MCImages ==
  {<<[to |-> Dtcm(0), data |-> 2], [to |-> Instr(0), data |-> 1], [to |-> Dtcm(0), data |-> 0]>>,
   <<[to |-> Instr(1), data |-> 1], [to |-> Dtcm(1), data |-> 1], [to |-> Instr(1), data |-> 2]>>}
=============================================================================
