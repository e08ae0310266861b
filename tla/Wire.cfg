\* Bytes the contract reads, held against what was written.
SPECIFICATION WireSpec
CONSTANTS
  P = 43
  N = 31
  Generator <- MCGenerator
  ByteSize = 16
  MagicHeader <- MCMagic
  VoutWidth = 2
  KeyWidth = 1
  HeightWidth = 1
  OpReturn = 15
  OpPushData1 = 9
  MaxDirect = 8
  EmbedMsg <- MCEmbedMsg
  Trailer <- MCTrailer
  MaxScript = 12
  MsgLen <- MCMsgLen
  RootKey = {1, 12}
  Epsilon = {0, 5, 30}
  Hash = {0, 1, 17, 30}
INVARIANTS EmbedReadBack FrameReadsBack OwnSignatureAccepted AcceptedIsValid
CHECK_DEADLOCK FALSE
