------------------------------- MODULE NullBits ------------------------------
(***************************************************************************)
(* Which fields of a record are null (internal/nullbits/nullbits.go), and  *)
(* what a comparison with a null says (logic.go).                          *)
(*                                                                         *)
(* A bitmap is its bytes, a byte the set of its bits that are set, counted *)
(* from 0.  Fields count from 0, as in the code.                           *)
(***************************************************************************)
EXTENDS Integers, Sequences, FiniteSets

CONSTANT ByteBits     \* bits of a byte

Size(fields) == IF fields <= 0 THEN 0 ELSE (fields + ByteBits - 1) \div ByteBits

New(fields) == [i \in 1 .. Size(fields) |-> {}]

Fields(bm) == Len(bm) * ByteBits

\* Calls for a field the bitmap has no bit of are ignored.
Has(bm, i)  == i >= 0 /\ i < Fields(bm)
ByteOf(i)   == i \div ByteBits + 1
BitOf(i)    == i % ByteBits

\* Mutant: a bit of the wrong byte once there are two.
SetNullFirstByte(bm, i) == IF Has(bm, i) THEN [bm EXCEPT ![1] = @ \cup {BitOf(i)}] ELSE bm

SetNull(bm, i)    == IF Has(bm, i) THEN [bm EXCEPT ![ByteOf(i)] = @ \cup {BitOf(i)}] ELSE bm
SetPresent(bm, i) == IF Has(bm, i) THEN [bm EXCEPT ![ByteOf(i)] = @ \ {BitOf(i)}] ELSE bm
IsNull(bm, i)     == Has(bm, i) /\ BitOf(i) \in bm[ByteOf(i)]

\* Mutant: padding is counted too.
CountAll(bm, fields) == Cardinality({i \in 0 .. Fields(bm) - 1 : IsNull(bm, i)})

\* Of the first `fields` fields only: the rest of the last byte is padding.
Count(bm, fields) == Cardinality({i \in 0 .. fields - 1 : IsNull(bm, i)})
Any(bm, fields)   == \E i \in 0 .. fields - 1 : IsNull(bm, i)

-----------------------------------------------------------------------------
(* Truth that may be unknown. *)

False   == 0
True    == 1
Unknown == 2

\* Mutant: what is none of the three is taken as it is.
normLeft(b) == b

norm(b) == IF b > Unknown THEN Unknown ELSE b

Not(b) == CASE norm(b) = True -> False [] norm(b) = False -> True [] OTHER -> Unknown

And(b, o) ==
  IF False \in {norm(b), norm(o)} THEN False
  ELSE IF Unknown \in {norm(b), norm(o)} THEN Unknown
  ELSE True

Or(b, o) ==
  IF True \in {norm(b), norm(o)} THEN True
  ELSE IF Unknown \in {norm(b), norm(o)} THEN Unknown
  ELSE False

IsTrue(b) == norm(b) = True

FromBool(v) == IF v THEN True ELSE False

\* What may be null is a set of at most one value, as a *int64 is nil or points to one.
EqualInt64(a, b) == IF {} \in {a, b} THEN Unknown ELSE FromBool(a = b)
LessInt64(a, b)  == IF {} \in {a, b} THEN Unknown ELSE FromBool(\E x \in a, y \in b : x < y)
IsNullValue(v)   == FromBool(v = {})

=============================================================================
