----------------------------- MODULE RpoDigest -----------------------------
(***************************************************************************)
(* RpoDigest, src/crypto/src/hash/rpo/digest.rs: DIGEST_SIZE field         *)
(* elements, their little-endian byte encoding (as_bytes, write_into), the *)
(* decoding that rejects non-canonical limbs (TryFrom<[u8; 32]>,           *)
(* read_from), and the total order Ord::cmp on the limbs' Montgomery form. *)
(*                                                                         *)
(* The widths are constants so that TLC can enumerate them: a byte is a    *)
(* digit in 0..ByteBase-1 (256 in the code), a u64 is LimbBytes of them    *)
(* (8 in the code), and Felt::MODULUS is Modulus < ByteBase^LimbBytes.     *)
(***************************************************************************)
EXTENDS Integers, Sequences

CONSTANTS
  DigestSize,   \* DIGEST_SIZE
  ByteBase,     \* values of a byte
  LimbBytes,    \* bytes of a u64
  Modulus       \* Felt::MODULUS

ASSUME DigestAssumption ==
  /\ DigestSize \in Nat \ {0}
  /\ ByteBase \in Nat \ {0, 1}
  /\ LimbBytes \in Nat \ {0}
  /\ Modulus \in 2..(ByteBase^LimbBytes - 1)

U64Bound == ByteBase^LimbBytes

\* Canonical field elements, the values of Felt::as_int.
Felt == 0..Modulus - 1

Digest == [1..DigestSize -> Felt]

DigestBytes == DigestSize * LimbBytes

\* Felt::new: the u64 reduced modulo the field.
FeltNew(x) == x % Modulus

\* Felt::inner: the Montgomery form x * 2^64 mod p, here x * U64Bound mod p.
Inner(x) == (x * U64Bound) % Modulus

(***************************************************************************)
(* Two canonical elements with one Montgomery form are equal: x -> x*R     *)
(* mod p is a bijection of 0..p-1 because p = 2^64 - 2^32 + 1 is prime and *)
(* does not divide R = 2^64.  The comment of Ord::cmp relies on it.        *)
(***************************************************************************)
ASSUME InnerAssumption == \A a, b \in Felt : Inner(a) = Inner(b) => a = b

\* Mutant: the bytes of a limb are written most significant first.
LeBytesBigEndian(x) ==
  [k \in 1..LimbBytes |-> (x \div ByteBase^(LimbBytes-k)) % ByteBase]

\* u64::to_le_bytes
LeBytes(x) == [k \in 1..LimbBytes |-> (x \div ByteBase^(k-1)) % ByteBase]

\* u64::from_le_bytes
FromLeBytes(bs) ==
  LET acc[k \in 0..LimbBytes] ==
        IF k = 0 THEN 0 ELSE acc[k-1] + bs[k] * ByteBase^(k-1)
  IN  acc[LimbBytes]

\* Bytes (j-1)*LimbBytes+1 .. j*LimbBytes of bs: the j-th limb.
LimbSlice(bs, j) == SubSeq(bs, (j-1) * LimbBytes + 1, j * LimbBytes)

(* Digest::as_bytes, and Serializable::write_into which writes them. *)
AsBytes(d) ==
  [j \in 1..DigestBytes |->
     LET limb == LeBytes(d[((j-1) \div LimbBytes) + 1]) IN limb[((j-1) % LimbBytes) + 1]]

OutOfRange == [ok |-> FALSE, err |-> "OutOfRange"]

\* Mutant: a limb equal to the modulus is accepted.
TryFromBytesGt(bs) ==
  LET limbs == [j \in 1..DigestSize |-> FromLeBytes(LimbSlice(bs, j))]
  IN  IF \E j \in 1..DigestSize : limbs[j] > Modulus
      THEN OutOfRange
      ELSE [ok |-> TRUE, digest |-> [j \in 1..DigestSize |-> FeltNew(limbs[j])]]

(* TryFrom<[u8; DIGEST_BYTES]> for RpoDigest *)
TryFromBytes(bs) ==
  LET limbs == [j \in 1..DigestSize |-> FromLeBytes(LimbSlice(bs, j))]
  IN  IF \E j \in 1..DigestSize : limbs[j] >= Modulus
      THEN OutOfRange
      ELSE [ok |-> TRUE, digest |-> [j \in 1..DigestSize |-> FeltNew(limbs[j])]]

(***************************************************************************)
(* Deserializable::read_from over a byte stream: read_u64 DIGEST_SIZE      *)
(* times in order, failing with UnexpectedEOF when the stream runs out and *)
(* with InvalidValue at the first limb >= MODULUS.  The result also gives  *)
(* the bytes consumed.                                                     *)
(***************************************************************************)
ReadFrom(stream) ==
  LET step[j \in 0..DigestSize] ==
        IF j = 0 THEN [err |-> "none", pos |-> 0, limbs |-> <<>>]
        ELSE LET s == step[j-1]
             IN  IF s.err # "none" THEN s
                 ELSE IF Len(stream) < s.pos + LimbBytes
                 THEN [s EXCEPT !.err = "UnexpectedEOF"]
                 ELSE LET e == FromLeBytes(SubSeq(stream, s.pos + 1, s.pos + LimbBytes))
                      IN  IF e >= Modulus
                          THEN [s EXCEPT !.err = "InvalidValue"]
                          ELSE [err |-> "none", pos |-> s.pos + LimbBytes,
                                limbs |-> Append(s.limbs, FeltNew(e))]
      r == step[DigestSize]
  IN  IF r.err = "none"
      THEN [ok |-> TRUE, digest |-> [j \in 1..DigestSize |-> r.limbs[j]], consumed |-> r.pos]
      ELSE [ok |-> FALSE, err |-> r.err]

\* core::cmp::Ordering of two integers.
CmpInt(a, b) == IF a < b THEN "Less" ELSE IF a = b THEN "Equal" ELSE "Greater"

\* Mutant: the arms of the match are swapped, so a difference is never taken.
CmpSwappedArms(d1, d2) ==
  LET fold[j \in 0..DigestSize] ==
        IF j = 0 THEN "Equal"
        ELSE IF fold[j-1] = "Equal" THEN fold[j-1]
             ELSE CmpInt(Inner(d1[j]), Inner(d2[j]))
  IN  fold[DigestSize]

(***************************************************************************)
(* Ord::cmp: fold over the zipped limbs' inner (Montgomery) values, keeping *)
(* the first ordering that is not Equal.                                   *)
(***************************************************************************)
Cmp(d1, d2) ==
  LET fold[j \in 0..DigestSize] ==
        IF j = 0 THEN "Equal"
        ELSE IF fold[j-1] = "Equal" THEN CmpInt(Inner(d1[j]), Inner(d2[j]))
             ELSE fold[j-1]
  IN  fold[DigestSize]

=============================================================================
