---------------------------- MODULE MCPktToGmii ----------------------------
(* Words of four bytes; a last word of one byte, of three and a full one,   *)
(* with 0xd5 among the bytes and with each bit of a byte alone.             *)
EXTENDS PktToGmii

MCPayloads ==
  {<<{0}, {1}, {2}, {3}, {4}>>,
   <<XD5, {5}, {6}, {7}, {}, 0 .. 7, XD5>>,
   <<{}, {}, {}, X55, {0, 7}, {3}, {1, 2}, {6}>>}
=============================================================================
