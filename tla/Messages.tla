------------------------------ MODULE Messages ------------------------------
(***************************************************************************)
(* The byte formats the contract shares with wallets and clients: the      *)
(* embed message of a deposit (types.rs, in the OP_RETURN output that      *)
(* utils/btc.rs reads) and the frame and header byte of a Bitcoin signed   *)
(* message (utils/btc.rs).                                                 *)
(*                                                                         *)
(* The widths are parameters: the code has 256 values of a byte, and       *)
(* fields of 8, 33 and 2 bytes.                                            *)
(***************************************************************************)
EXTENDS Integers, SequencesExt

CONSTANTS
  ByteSize,    \* values of a byte
  MagicHeader, \* the bytes of MAGIC_HEADER
  VoutWidth, KeyWidth, HeightWidth,   \* bytes of the fields of a message
  OpReturn, OpPushData1,              \* opcodes
  MaxDirect    \* an opcode up to it pushes as many bytes as it says

Byte == 0 .. ByteSize - 1

ASSUME MessagesAssumption ==
  /\ {OpReturn, OpPushData1} \subseteq Byte
  /\ MaxDirect < OpPushData1 /\ Range(MagicHeader) \subseteq Byte

(* n in width bytes, the low one first, and back *)
LittleEndian(n, width) == [i \in 1 .. width |-> (n \div ByteSize ^ (i - 1)) % ByteSize]
FromLittleEndian(bytes) ==
  FoldRight(LAMBDA byte, high : byte + ByteSize * high, bytes, 0)

-----------------------------------------------------------------------------
(* the embed message of a deposit *)

(* mistake: the fields are written in the order of the deposit script *)
EncodeKeyFirst(m) ==
  MagicHeader \o <<0>> \o m.userPubkey \o LittleEndian(m.vout, VoutWidth)
    \o LittleEndian(m.height, HeightWidth)

(* DepositEmbedMsg::encode; 0 is the tag of V1 *)
Encode(m) ==
  MagicHeader \o <<0>> \o LittleEndian(m.vout, VoutWidth) \o m.userPubkey
    \o LittleEndian(m.height, HeightWidth)

(* the script a client pays: OP_RETURN and a push of the data *)
OpReturnScript(data) ==
  IF Len(data) <= MaxDirect
  THEN <<OpReturn, Len(data)>> \o data
  ELSE <<OpReturn, OpPushData1, Len(data)>> \o data

(* get_embed_message drops two bytes, and panics where there are none *)
IsEmbedScript(script) == Len(script) >= 2 /\ script[1] = OpReturn
GetEmbedMessage(script) == SubSeq(script, 3, Len(script))

(* DepositEmbedMsg::decode_hex: the bytes after the message are not read *)
BodyLen == 1 + VoutWidth + KeyWidth + HeightWidth
CanDecode(data) ==
  /\ IsPrefix(MagicHeader, data)
  /\ Len(data) >= Len(MagicHeader) + BodyLen
  /\ data[Len(MagicHeader) + 1] = 0
Decode(data) ==
  LET body == SubSeq(data, Len(MagicHeader) + 2, Len(data))
  IN  [vout |-> FromLittleEndian(SubSeq(body, 1, VoutWidth)),
       userPubkey |-> SubSeq(body, VoutWidth + 1, VoutWidth + KeyWidth),
       height |-> FromLittleEndian(SubSeq(body, VoutWidth + KeyWidth + 1, BodyLen - 1))]

(* verify_embed_output as far as bytes go *)
Accepts(script) == IsEmbedScript(script) /\ CanDecode(GetEmbedMessage(script))

-----------------------------------------------------------------------------
(* signed messages *)

(* mistake: lengths of ByteSize - 3 to ByteSize - 1 are written as they are *)
LengthPlainByte(n) ==
  IF n < ByteSize THEN <<n>>
  ELSE <<ByteSize - 3>> \o LittleEndian(n, 2)

(* verify_signed_message_ecdsa puts the length before the message: 253, 254 *)
(* and 255 announce 2, 4 and 8 bytes                                       *)
LengthHeader(n) ==
  CASE n < ByteSize - 3  -> <<n>>
    [] n \in ByteSize - 3 .. ByteSize ^ 2 - 1 -> <<ByteSize - 3>> \o LittleEndian(n, 2)
    [] n \in ByteSize ^ 2 .. ByteSize ^ 4 - 1 -> <<ByteSize - 2>> \o LittleEndian(n, 4)
    [] OTHER -> <<ByteSize - 1>> \o LittleEndian(n, 8)

(* the definition of it, as a reader of the frame has it: the length and   *)
(* how many bytes it takes                                                 *)
ReadLength(bytes) ==
  LET width == CASE bytes[1] = ByteSize - 3 -> 2
                 [] bytes[1] = ByteSize - 2 -> 4
                 [] bytes[1] = ByteSize - 1 -> 8
                 [] OTHER -> 0
  IN  IF width = 0 THEN <<bytes[1], 1>>
      ELSE <<FromLittleEndian(SubSeq(bytes, 2, width + 1)), width + 1>>

(* the first byte of a signature: wallets write 27 + v, and 4 more for a   *)
(* compressed key                                                          *)
WalletFlag(v, compressed) == 27 + v + (IF compressed THEN 4 ELSE 0)

(* mistake: only the flags of uncompressed keys are accepted *)
UncompressedFlag(flag) == flag \in 27 .. 30

AcceptsFlag(flag) == flag \in 27 .. 34
RecoveryId(flag) == (flag - 27) % 4

=============================================================================
