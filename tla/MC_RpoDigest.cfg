\* Digests of two limbs, 3 binary digits per limb, in a field of 5 (so the
\* limb values 5, 6 and 7 are non-canonical); every pair of digests and every
\* byte stream up to one digit past a digest.
CONSTANTS
  DigestSize = 2
  ByteBase = 2
  LimbBytes = 3
  Modulus = 5
SPECIFICATION Spec
INVARIANTS
  CmpIsTotalOrder
  SerializationRoundTrip
  DecodingIsCanonical
