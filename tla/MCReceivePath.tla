---------------------------- MODULE MCReceivePath ---------------------------
(* Words of three bytes, packets of at most three words. *)
EXTENDS ReceivePath

(* Behind the preamble, with a CRC of four: nothing left, less than a word, *)
(* longer than one, two full, as long as the longest packet, and cut.       *)
MCLengths == {4, 5, 8, 10, 13, 17}
=============================================================================
