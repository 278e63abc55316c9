-------------------------------- MODULE Codec --------------------------------
(***************************************************************************)
(* How values become bytes (internal/codec): varints, zigzag, prefixed     *)
(* strings for what is stored, and keys whose bytes sort as the numbers    *)
(* do.  Words have WordBits bits instead of 64 and bytes ByteBits instead  *)
(* of 8, so that all of them can be enumerated; a word still is a whole    *)
(* number of bytes, and the last byte of a varint still carries one bit.   *)
(***************************************************************************)
EXTENDS Integers, Sequences, FiniteSets, FiniteSetsExt, Functions

CONSTANTS
  ByteBits,      \* bits of a byte
  WordBits,      \* bits of a uint64
  MantissaBits   \* bits of a float's mantissa; the rest are its sign and exponent

ASSUME BitsAssumption ==
  /\ ByteBits \in Nat \ {0, 1} /\ WordBits \in Nat /\ MantissaBits \in Nat
  /\ WordBits % ByteBits = 0
  /\ WordBits % (ByteBits - 1) = 1
  /\ MantissaBits \in 2 .. WordBits - 2

\* Arithmetic, of which the provers do not have it.
ASSUME PowersAssumption ==
  /\ 2 ^ 0 = 1
  /\ \A e \in 0 .. 2 * WordBits : 2 ^ e \in Nat \ {0} /\ 2 ^ (e + 1) = 2 * 2 ^ e
  /\ \A e \in 0 .. 2 ^ (WordBits - 1 - MantissaBits) :
       2 ^ e \in Nat \ {0} /\ 2 ^ (e + 1) = 2 * 2 ^ e

Byte   == 0 .. 2 ^ ByteBits - 1
Word   == 0 .. 2 ^ WordBits - 1
signBit == 2 ^ (WordBits - 1)
Signed == -signBit .. signBit - 1

More == 2 ^ (ByteBits - 1)     \* 0x80: another byte follows

MaxVarintLen == (WordBits + ByteBits - 2) \div (ByteBits - 1)

\* uint64(v), int64(u).
uint(v) == v % (2 ^ WordBits)
int(u)  == IF u >= signBit THEN u - 2 ^ WordBits ELSE u

Complement(u) == 2 ^ WordBits - 1 - u

\* What a decoder returns: a value and how many bytes it took, or an error.
Decoded(v, n) == [value |-> v, n |-> n, err |-> "none"]
Failed(err)   == [value |-> 0, n |-> 0, err |-> err]

-----------------------------------------------------------------------------
(* Values. *)

\* The bytes of a varint, the lowest bits first, and how many they are.
Groups[u \in Word] ==
  IF u >= More THEN <<More + (u % More)>> \o Groups[u \div More] ELSE <<u>>

AppendUvarint(dst, v) == dst \o Groups[v]

UvarintLen(v) ==
  LET len[u \in Word] == IF u >= More THEN 1 + len[u \div More] ELSE 1 IN len[v]

\* What bytes 1 .. n of src carry, as far as a word holds it.
Carried(src, n) ==
  LET x[i \in 0 .. n] ==
        IF i = 0 THEN 0
        ELSE uint(x[i - 1] + (src[i] % More) * 2 ^ ((ByteBits - 1) * (i - 1)))
  IN x[n]

\* Mutant: the last byte of a varint may carry as much as any other.
UvarintUnchecked(src) ==
  LET ends == {i \in DOMAIN src : src[i] < More}
      end  == Min(ends)
  IN IF ends = {} THEN Failed("truncated") ELSE Decoded(Carried(src, end), end)

\* The first byte that ends a varint, or that cannot be part of one.
Uvarint(src) ==
  LET over(i) == i = MaxVarintLen /\ src[i] > 1
      ends    == {i \in DOMAIN src : over(i) \/ src[i] < More}
      end     == Min(ends)
  IN IF ends = {} THEN Failed("truncated")
     ELSE IF over(end) THEN Failed("overflow")
     ELSE Decoded(Carried(src, end), end)

\* uint64(v<<1) ^ uint64(v>>63), and back.
zigzag(v)   == IF v < 0 THEN Complement(uint(2 * v)) ELSE uint(2 * v)
unzigzag(u) == IF u % 2 = 1 THEN int(Complement(u \div 2)) ELSE int(u \div 2)

AppendInt64(dst, v) == AppendUvarint(dst, zigzag(v))

Int64(src) ==
  LET u == Uvarint(src) IN IF u.err = "none" THEN [u EXCEPT !.value = unzigzag(@)] ELSE u

AppendBool(dst, b) == Append(dst, IF b THEN 1 ELSE 0)

Bool(src) == IF src = <<>> THEN Failed("truncated") ELSE Decoded(src[1] # 0, 1)

\* The bytes of a word, the highest first.
WordBytes == WordBits \div ByteBits
BigEndian(u) ==
  [i \in 1 .. WordBytes |-> (u \div 2 ^ (ByteBits * (WordBytes - i))) % 2 ^ ByteBits]
FromBigEndian(src) ==
  LET x[i \in 0 .. WordBytes] == IF i = 0 THEN 0 ELSE x[i - 1] * 2 ^ ByteBits + src[i]
  IN x[WordBytes]

\* A float is its bits.
AppendFloat64(dst, f) == dst \o BigEndian(f)

Float64(src) ==
  IF Len(src) < WordBytes THEN Failed("truncated") ELSE Decoded(FromBigEndian(src), WordBytes)

AppendString(dst, s) == AppendUvarint(dst, Len(s)) \o s

\* Mutant: the length is held against all the bytes, its own among them, only.
StringPastEnd(src) ==
  LET u == Uvarint(src) IN
  IF u.err # "none" THEN u
  ELSE IF u.value > Len(src) THEN Failed("truncated")
  ELSE Decoded(SubSeq(src, u.n + 1, Min({u.n + u.value, Len(src)})), u.n + u.value)

\* BytesRef, and its copies.
String(src) ==
  LET u   == Uvarint(src)
      end == u.n + u.value
  IN IF u.err # "none" THEN u
     ELSE IF u.value > Len(src) \/ end > Len(src) THEN Failed("truncated")
     ELSE Decoded(SubSeq(src, u.n + 1, end), end)

-----------------------------------------------------------------------------
(* Keys. *)

Zero     == 0
Infinity == (2 ^ (WordBits - 1 - MantissaBits) - 1) * 2 ^ MantissaBits
NaN      == Infinity + 2 ^ (MantissaBits - 1) + 1     \* math.NaN()

Negative(f)  == f >= signBit
Magnitude(f) == f % signBit
IsNaN(f)     == Magnitude(f) > Infinity

AppendKeyUint64(u) == BigEndian(u)

KeyUint64(src) ==
  IF Len(src) < WordBytes THEN Failed("truncated") ELSE Decoded(FromBigEndian(src), WordBytes)

AppendKeyInt64(v)   == BigEndian((uint(v) + signBit) % 2 ^ WordBits)

KeyInt64(src) ==
  IF Len(src) < WordBytes THEN Failed("truncated")
  ELSE Decoded(int((FromBigEndian(src) + signBit) % 2 ^ WordBits), WordBytes)

\* Mutant: a zero keeps its sign.
OneOfEachSigned(f) == IF IsNaN(f) THEN NaN ELSE f

\* One zero, and one NaN.
OneOfEach(f) == IF Magnitude(f) = 0 THEN Zero ELSE IF IsNaN(f) THEN NaN ELSE f

AppendKeyFloat64(f) ==
  LET b == OneOfEach(f) IN BigEndian(IF Negative(b) THEN Complement(b) ELSE b + signBit)

KeyFloat64(src) ==
  LET b == FromBigEndian(src)
  IN IF Len(src) < WordBytes THEN Failed("truncated")
     ELSE Decoded(IF b >= signBit THEN b - signBit ELSE Complement(b), WordBytes)

=============================================================================
