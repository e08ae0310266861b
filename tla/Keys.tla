-------------------------------- MODULE Keys --------------------------------
(***************************************************************************)
(* Keys and ECDSA signatures: what kdf.rs and utils/btc.rs do with them,   *)
(* on a curve of the form of secp256k1, y^2 = x^3 + 7, that is small       *)
(* enough to be enumerated. P is the prime of the field and N < P the      *)
(* prime order of the curve, as they are for secp256k1.                    *)
(***************************************************************************)
EXTENDS Integers

CONSTANTS P, N, Generator

Field == 0 .. P - 1
Curve == {q \in Field \X Field : (q[2] * q[2]) % P = (q[1] * q[1] * q[1] + 7) % P}
Identity == <<>>

ASSUME CurveAssumption == N < P /\ Generator \in Curve

-----------------------------------------------------------------------------
(* the libraries: k256 and the host function ecrecover *)

InverseMod(a, m) == CHOOSE b \in 1 .. m - 1 : (a * b) % m = 1
ModN(a) == a % N

Neg(q) == IF q = Identity THEN q ELSE <<q[1], (P - q[2]) % P>>

Plus(q, r) ==
  LET slope == (IF q = r THEN 3 * q[1] * q[1] * InverseMod((2 * q[2]) % P, P)
                ELSE (r[2] - q[2]) * InverseMod((r[1] - q[1]) % P, P)) % P
      x == (slope * slope - q[1] - r[1]) % P
  IN  IF q = Identity THEN r
      ELSE IF r = Identity THEN q
      ELSE IF q = Neg(r) THEN Identity
      ELSE <<x, (slope * (q[1] - x) - q[2]) % P>>

(* k times the generator *)
Times[k \in 0 .. N - 1] ==
  IF k = 0 THEN Identity ELSE Plus(Times[k - 1], Generator)

(* k times any point: the curve is the group that Generator makes *)
Scaled(k, q) == Times[ModN(k * CHOOSE j \in 0 .. N - 1 : Times[j] = q)]

LowS(s) == 2 * s <= N

(* the signature of hash z by the private key d with the nonce k, as       *)
(* wallets and signers give it out: with the lower s. v tells which of the *)
(* points with this r the nonce made.                                      *)
Signature(d, z, k) ==
  LET point == Times[k]
      r == ModN(point[1])
      s == ModN(InverseMod(k, N) * (z + r * d))
      parity == point[2] % 2
  IN  [r |-> r, s |-> IF LowS(s) THEN s ELSE N - s,
       v |-> (IF LowS(s) THEN parity ELSE 1 - parity) + (IF point[1] >= N THEN 2 ELSE 0)]

(* the definition of a valid signature *)
ValidSignature(key, z, sig) ==
  LET w == InverseMod(sig.s, N)
      point == Plus(Times[ModN(z * w)], Scaled(sig.r * w, key))
  IN  /\ {sig.r, sig.s} \subseteq 1 .. N - 1
      /\ point # Identity
      /\ ModN(point[1]) = sig.r

(* env::ecrecover(hash, signature, v, true): none or the key; true refuses *)
(* the higher s                                                            *)
Ecrecover(z, sig, v) ==
  LET x == sig.r + (IF v >= 2 THEN N ELSE 0)
      nonce == {q \in Curve : q[1] = x /\ q[2] % 2 = v % 2}
      w == InverseMod(sig.r, N)
  IN  IF {sig.r, sig.s} \subseteq 1 .. N - 1 /\ LowS(sig.s)
      THEN {key \in {Plus(Scaled(w * sig.s, q), Neg(Times[ModN(w * z)])) : q \in nonce} :
              key # Identity}
      ELSE {}

-----------------------------------------------------------------------------
(* utils/btc.rs *)

(* mistake: the y coordinate is left out *)
CompressDroppingParity(q) == <<2, q[1]>>

(* compress_pub_key *)
CompressPubKey(q) == <<IF q[2] % 2 = 0 THEN 2 ELSE 3, q[1]>>

(* verify_secp256k1_signature panics if nothing is recovered *)
Panics(z, sig, v) == Ecrecover(z, sig, v) = {}
VerifySecp256k1Signature(key, z, sig, v) ==
  \E q \in Ecrecover(z, sig, v) : CompressPubKey(q) = key

(* mistake: only v = 0 is tried *)
PartialSigFirstOnly(key, z, sig) == VerifySecp256k1Signature(key, z, sig, 0)

(* verify_pending_sign_partial_sig: a PSBT does not tell v *)
VerifyPartialSig(key, z, sig) ==
  /\ ~Panics(z, sig, 0)
  /\ \/ VerifySecp256k1Signature(key, z, sig, 0)
     \/ VerifySecp256k1Signature(key, z, sig, 1)

-----------------------------------------------------------------------------
(* kdf.rs *)

(* mistake: the generator is not multiplied *)
DeriveAddingOnce(root, epsilon) == Plus(Generator, root)

(* derive_key; there is no epsilon but those below the order: from_repr    *)
(* refuses the rest                                                        *)
DeriveKey(root, epsilon) == Plus(Times[epsilon], root)

(* generate_public_key cuts the coordinates out of the encoded point, and  *)
(* the identity has none                                                   *)
HasPublicKey(root, epsilon) == DeriveKey(root, epsilon) # Identity

(* generate_btc_pubkey *)
GenerateBtcPubkey(root, epsilon) == CompressPubKey(DeriveKey(root, epsilon))

=============================================================================
