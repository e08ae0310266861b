------------------------------- MODULE MCWire -------------------------------
(* An instance of Wire for TLC: bytes of 16 values, a message of 7 bytes   *)
(* where a one-byte push holds 8, and the curve of order 31 over the field *)
(* of 43 elements.                                                         *)
EXTENDS Wire

MCGenerator == <<2, 12>>
MCMagic == <<11, 2>>

MCEmbedMsg ==
  [vout : {0, 1, 18, 255}, userPubkey : {<<2>>, <<3>>}, height : {0, 5}]
MCTrailer == {<<>>, <<9>>, <<9, 9>>}
MCMsgLen == {0, 1, 12, 13, 14, 15, 16, 255, 256, 257, 65535, 65536, 65537}

=============================================================================
