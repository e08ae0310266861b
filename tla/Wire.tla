-------------------------------- MODULE Wire --------------------------------
(***************************************************************************)
(* What reaches the contract as bytes: scripts with embed messages, signed *)
(* messages and signatures, as clients and wallets make them, and changed  *)
(* on the way. BitHive takes such an input for what it means; here the     *)
(* code that reads it is held against what the writer meant.               *)
(***************************************************************************)
EXTENDS Keys, Messages

CONSTANTS
  EmbedMsg,   \* deposit messages [vout, userPubkey, height]
  Trailer,    \* bytes that clients may put behind a message
  MaxScript,  \* bound on the bytes of a script
  MsgLen,     \* lengths of messages that users sign
  RootKey,    \* private root keys of signers, or private keys of users
  Epsilon,    \* what paths hash to; 0 for a key that is not derived
  Hash        \* hashes that are signed

VARIABLE wire   \* the input, and whether it was changed

Nothing == [kind |-> "nothing"]

WireInit == wire = Nothing

(* buildDepositEmbedMsg of a client *)
EmbedDeposit(m, trailer) ==
  /\ wire = Nothing
  /\ wire' = [kind |-> "script", sent |-> m, data |-> Encode(m) \o trailer,
              bytes |-> OpReturnScript(Encode(m) \o trailer), changed |-> FALSE]

ChangeByte(i, byte) ==
  /\ wire.kind = "script"
  /\ ~wire.changed
  /\ i <= Len(wire.bytes)
  /\ wire' = [wire EXCEPT !.bytes[i] = byte, !.changed = TRUE]

CutScript(len) ==
  /\ wire.kind = "script"
  /\ ~wire.changed
  /\ len < Len(wire.bytes)
  /\ wire' = [wire EXCEPT !.bytes = SubSeq(@, 1, len), !.changed = TRUE]

FrameMessage(len) ==
  /\ wire = Nothing
  /\ wire' = [kind |-> "message", len |-> len, bytes |-> LengthHeader(len)]

(* A signer with the private key d for the path that hashes to epsilon     *)
(* signs with d + epsilon; a nonce that makes a zero is drawn again.       *)
Sign(d, epsilon, z, k, compressed) ==
  LET sig == Signature(ModN(d + epsilon), z, k)
  IN  /\ wire = Nothing
      /\ HasPublicKey(Times[d], epsilon)
      /\ sig.r # 0 /\ sig.s # 0
      /\ wire' = [kind |-> "signature", root |-> Times[d], epsilon |-> epsilon,
                  z |-> z, sig |-> sig, flag |-> WalletFlag(sig.v, compressed),
                  changed |-> FALSE]

(* The signature is shown for another hash, or with another s.             *)
ChangeHash(z) ==
  /\ wire.kind = "signature"
  /\ ~wire.changed
  /\ wire' = [wire EXCEPT !.z = z, !.changed = TRUE]

ChangeS(s) ==
  /\ wire.kind = "signature"
  /\ ~wire.changed
  /\ wire' = [wire EXCEPT !.sig.s = s, !.changed = TRUE]

ChangeFlag(flag) ==
  /\ wire.kind = "signature"
  /\ ~wire.changed
  /\ wire' = [wire EXCEPT !.flag = flag, !.changed = TRUE]

WireNext ==
  \/ \E m \in EmbedMsg, trailer \in Trailer : EmbedDeposit(m, trailer)
  \/ \E i \in 1 .. MaxScript, byte \in Byte : ChangeByte(i, byte)
  \/ \E len \in 0 .. MaxScript - 1 : CutScript(len)
  \/ \E len \in MsgLen : FrameMessage(len)
  \/ \E d \in RootKey, epsilon \in Epsilon, z \in Hash, k \in 1 .. N - 1,
        compressed \in BOOLEAN : Sign(d, epsilon, z, k, compressed)
  \/ \E z \in Hash : ChangeHash(z)
  \/ \E s \in 0 .. N - 1 : ChangeS(s)
  \/ \E flag \in 26 .. 35 : ChangeFlag(flag)

WireSpec == WireInit /\ [][WireNext]_wire

-----------------------------------------------------------------------------
IsScript == wire.kind = "script"
IsSignature == wire.kind = "signature"

(* the key a signature must be by, as a point and as the contract holds it *)
Signer == DeriveKey(wire.root, wire.epsilon)
SignerKey == GenerateBtcPubkey(wire.root, wire.epsilon)

(* the signature part of verify_signed_message_ecdsa *)
SignedMessageAccepted ==
  /\ AcceptsFlag(wire.flag)
  /\ VerifySecp256k1Signature(SignerKey, wire.z, wire.sig, RecoveryId(wire.flag))

(* A deposit whose message fits a one-byte push is read as the client      *)
(* meant it, whatever else is pushed behind; and whatever script comes,    *)
(* what is read from it is written in it, so that a deposit cannot be      *)
(* taken for one of another user or output (get_embed_message skips the    *)
(* opcodes unread, decode_hex ignores what follows).                       *)
EmbedReadBack ==
  IsScript =>
    /\ (~wire.changed /\ Len(wire.data) <= MaxDirect) =>
         (Accepts(wire.bytes) /\ Decode(GetEmbedMessage(wire.bytes)) = wire.sent)
    /\ Accepts(wire.bytes) =>
         LET data == GetEmbedMessage(wire.bytes)
         IN  IsPrefix(Encode(Decode(data)), data)

(* The frame of a signed message can be read in one way only: no message   *)
(* is hashed like the length and the start of another one.                 *)
FrameReadsBack ==
  LET followed == wire.bytes \o LittleEndian(0, 8)
  IN  wire.kind = "message" => ReadLength(followed) = <<wire.len, Len(wire.bytes)>>

(* Who has the key gets through: the contract accepts each message that a  *)
(* wallet signs, with either kind of flag, and each partial signature in a *)
(* PSBT, which does not tell v, by trying two; the key of the signer for a *)
(* path is the one kdf.rs derives. Left out for PSBTs are the nonces of    *)
(* one in 2^127 whose point has an x of N or more, and those where the     *)
(* first v recovers nothing, so that the code panics and does not try the  *)
(* second.                                                                 *)
OwnSignatureAccepted ==
  (IsSignature /\ ~wire.changed) =>
    /\ SignedMessageAccepted
    /\ (wire.sig.v < 2 /\ ~Panics(wire.z, wire.sig, 0)) =>
         VerifyPartialSig(SignerKey, wire.z, wire.sig)

(* Who has not does not: what is accepted for a key, from a PSBT or with a *)
(* signed message, is a valid ECDSA signature of this hash by this key.    *)
AcceptedIsValid ==
  IsSignature /\ (VerifyPartialSig(SignerKey, wire.z, wire.sig) \/ SignedMessageAccepted) =>
    ValidSignature(Signer, wire.z, wire.sig)

=============================================================================
