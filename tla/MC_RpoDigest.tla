--------------------------- MODULE MC_RpoDigest ---------------------------
(***************************************************************************)
(* A caller of RpoDigest.  It holds two digests it compares and serializes *)
(* (x, y) and a byte stream it deserializes (stream), and may replace any  *)
(* of them by a new value at each step, so that every combination of      *)
(* inputs is reached.                                                      *)
(***************************************************************************)
EXTENDS RpoDigest, TLC

\* A byte stream handed to read_from: up to one byte more than a digest.
Streams == UNION {[1..n -> 0..ByteBase - 1] : n \in 0..DigestBytes + 1}

VARIABLES x, y, stream

vars == <<x, y, stream>>

Init == x \in Digest /\ y \in Digest /\ stream \in Streams

PickX == \E v \in Digest : x' = v /\ UNCHANGED <<y, stream>>
PickY == \E v \in Digest : y' = v /\ UNCHANGED <<x, stream>>
PickStream == \E s \in Streams : stream' = s /\ UNCHANGED <<x, y>>

Next == PickX \/ PickY \/ PickStream

Spec == Init /\ [][Next]_vars

(***************************************************************************)
(* Ord::cmp is a total order that agrees with the derived PartialEq: it    *)
(* says Equal exactly of equal digests, swapping the arguments swaps Less  *)
(* and Greater, and Less is transitive.  The code compares Felt::inner,    *)
(* the Montgomery form, not the value; the comment at digest.rs:73 argues  *)
(* that this is sound because each limb is canonical.  A BTreeMap or a     *)
(* sort keyed by digests depends on it.                                    *)
(***************************************************************************)
CmpIsTotalOrder ==
  /\ (Cmp(x, y) = "Equal") <=> (x = y)
  /\ (Cmp(x, y) = "Less") <=> (Cmp(y, x) = "Greater")
  /\ \A z \in Digest :
       (Cmp(x, y) = "Less" /\ Cmp(y, z) = "Less") => Cmp(x, z) = "Less"

(***************************************************************************)
(* write_into followed by read_from returns the digest and consumes        *)
(* exactly DIGEST_BYTES bytes (the test digest_serialization, for every     *)
(* digest rather than a random one), and TryFrom<[u8; 32]> inverts         *)
(* as_bytes.                                                               *)
(***************************************************************************)
SerializationRoundTrip ==
  /\ ReadFrom(AsBytes(x)) = [ok |-> TRUE, digest |-> x, consumed |-> DigestBytes]
  /\ TryFromBytes(AsBytes(x)) = [ok |-> TRUE, digest |-> x]

\* The byte strings that as_bytes produces.
IsEncoding(bs) == \E e \in Digest : AsBytes(e) = bs

(***************************************************************************)
(* Decoding accepts exactly the canonical encodings: TryFrom accepts a     *)
(* 32-byte array iff it is as_bytes of some digest, and then of the digest *)
(* it returns; read_from succeeds iff the stream starts with such an       *)
(* encoding, and returns that digest.  So no two byte strings decode to    *)
(* one digest, which the reduction in Felt::new would otherwise allow.     *)
(***************************************************************************)
DecodingIsCanonical ==
  /\ Len(stream) = DigestBytes =>
       /\ TryFromBytes(stream).ok <=> IsEncoding(stream)
       /\ TryFromBytes(stream).ok => AsBytes(TryFromBytes(stream).digest) = stream
  /\ ReadFrom(stream).ok <=>
       (Len(stream) >= DigestBytes /\ IsEncoding(SubSeq(stream, 1, DigestBytes)))
  /\ ReadFrom(stream).ok =>
       AsBytes(ReadFrom(stream).digest) = SubSeq(stream, 1, DigestBytes)

=============================================================================
