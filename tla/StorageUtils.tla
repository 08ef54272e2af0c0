----------------------------- MODULE StorageUtils -----------------------------
(***************************************************************************)
(* src/utils/StorageUtils.sol: a uint256 as an array of buckets of 8 bits, *)
(* a uint32 as an array of bits.  The widths are constants: TLC computes   *)
(* with words of at most 30 bits, the proofs hold for words of any width.  *)
(***************************************************************************)
EXTENDS Naturals

CONSTANTS
    BucketBits,     \* BUCKET_SIZE_IN_BITS, 8
    WordBits,       \* of a uint256
    HitBits         \* of a uint32

ASSUME WidthsAssumption ==
    /\ BucketBits \in 1 .. WordBits
    /\ WordBits \in Nat
    /\ HitBits \in Nat \ {0}

\* n << k, where bits beyond the width are lost, and n >> k.
ShiftLeft(n, k, bits) == IF k >= bits THEN 0 ELSE (n * 2^k) % 2^bits
ShiftRight(n, k) == n \div 2^k

\* Wrong form: buckets that are one bit too narrow.
setNarrowBucket(container, index, newValue) ==
    container + ShiftLeft(newValue, (BucketBits - 1) * index, WordBits)

setBucketValueByIndex(container, index, newValue) ==
    container + ShiftLeft(newValue, BucketBits * index, WordBits)

\* The addition is checked: the call reverts if the sum needs another bit.
setBucketReverts(container, index, newValue) ==
    setBucketValueByIndex(container, index, newValue) >= 2^WordBits

getBucketValueByIndex(container, index) ==
    ShiftRight(container, BucketBits * index) % 2^BucketBits

\* Bit k of a word, and the set of its 1 bits.
HasBit(word, k) == ShiftRight(word, k) % 2 = 1
Bits(word) == {k \in 0 .. HitBits - 1 : HasBit(word, k)}

\* Wrong form: the bit is added, as a bucket is.
addBitValueByIndex(board, location) ==
    board + ShiftLeft(1, location, HitBits)

\* board | 1 << location: a bit beyond the width is no bit at all.
setBitValueByIndex(board, location) ==
    IF HasBit(board, location) THEN board
    ELSE board + ShiftLeft(1, location, HitBits)

getBitValueByIndex(hitStorage, index) ==
    IF HasBit(hitStorage, index) THEN 1 ELSE 0
===============================================================================
