-------------------------------- MODULE Rows ---------------------------------
(***************************************************************************)
(* A row is encoded into a record, the record is cut short or damaged, it  *)
(* is decoded, and a condition decides whether the row is kept: what the   *)
(* demo does by hand with internal/codec, internal/nullbits and the Append *)
(* of internal/page (expEncode and expNulls), and no other code does yet.  *)
(*                                                                         *)
(* A record is a null bitmap and the values of the fields that are not     *)
(* null, one after another on a page; a page is its items and what is      *)
(* between its header and its free start.  Fields count from 1.            *)
(***************************************************************************)
EXTENDS Codec

INSTANCE NullBits

CONSTANTS
  Schema,      \* the kinds of a row's fields, in order
  Values,      \* kind -> the values rows have of it
  Room,        \* bytes of the page between its header and its end
  MaxDamage,   \* bound: bytes of the record that change
  MaxTerms,    \* bound: comparisons in a condition
  Thirty       \* the number that conditions compare with

ASSUME RowsAssumption ==
  /\ Schema \in Seq(DOMAIN Values)
  /\ "int" \in DOMAIN Values /\ Values["int"] \subseteq Signed /\ Thirty \in Int
  /\ \A kind \in DOMAIN Values : kind \in {"int", "string", "bool", "float"}
  /\ "string" \in DOMAIN Values => \A s \in Values["string"] : s \in Seq(Byte) /\ Len(s) \in Word
  /\ "bool" \in DOMAIN Values => Values["bool"] \subseteq BOOLEAN
  /\ "float" \in DOMAIN Values => Values["float"] \subseteq Word
  /\ Room \in Nat /\ MaxDamage \in Nat /\ MaxTerms \in Nat

VARIABLES
  row,      \* the fields encoded: sets of their value, empty for a null
  bm,       \* the null bitmap
  page,     \* [itemCount, body]
  fault,    \* what became of the record: <<bytes cut off, bytes changed>>
  reader,   \* [field, off, got, err]: what was decoded, and where the reader is
  cond      \* [terms, answer, truth, odd]: the condition so far

vars == <<row, bm, page, fault, reader, cond>>

Fieldset  == DOMAIN Schema
IntFields == {i \in Fieldset : Schema[i] = "int"}

-----------------------------------------------------------------------------
(* Encoding: expNulls 3, on a page as in expEncode 2. *)

FreeSpace(p) == Room - Len(p.body)

Encoded(kind, v) ==
  CASE kind = "int"    -> AppendInt64(<<>>, v)
    [] kind = "string" -> AppendString(<<>>, v)
    [] kind = "bool"   -> AppendBool(<<>>, v)
    [] kind = "float"  -> AppendFloat64(<<>>, v)

\* page.Append: an item is taken whole or not at all.
PutItem(p, b) == [itemCount |-> p.itemCount + 1, body |-> p.body \o b]

Writing == Len(row) < Len(Schema) /\ reader.field = 0 /\ fault = <<0, 0>>

WriteNull ==
  /\ Writing
  /\ row' = Append(row, {})
  /\ bm' = SetNull(bm, Len(row))
  /\ UNCHANGED <<page, fault, reader, cond>>

\* What does not fit is refused, and the page is as it was.
WriteValue ==
  /\ Writing
  /\ LET kind == Schema[Len(row) + 1] IN
     \E v \in Values[kind] :
       /\ Len(Encoded(kind, v)) <= FreeSpace(page)
       /\ page' = PutItem(page, Encoded(kind, v))
       /\ row' = Append(row, {v})
  /\ UNCHANGED <<bm, fault, reader, cond>>

\* A call for what is no field of the row: a padding bit, or no bit of the bitmap.
StrayBit ==
  /\ Len(row) = Len(Schema) /\ reader.field = 0 /\ fault = <<0, 0>>
  /\ \E i \in {-1} \cup Len(Schema) .. Fields(bm) : bm' \in {SetNull(bm, i), SetPresent(bm, i)}
  /\ UNCHANGED <<row, page, fault, reader, cond>>

-----------------------------------------------------------------------------
(* What may happen to the record before it is read. *)

Cut ==
  /\ reader.field = 0 /\ fault = <<0, 0>>
  /\ \E n \in 0 .. Len(page.body) - 1 :
       /\ page' = [page EXCEPT !.body = SubSeq(@, 1, n)]
       /\ fault' = <<Len(page.body) - n, 0>>
  /\ UNCHANGED <<row, bm, reader, cond>>

Damage ==
  /\ reader.field = 0 /\ fault[1] = 0 /\ fault[2] < MaxDamage
  /\ \E i \in DOMAIN page.body, b \in Byte :
       /\ b # page.body[i]
       /\ page' = [page EXCEPT !.body[i] = b]
  /\ fault' = <<0, fault[2] + 1>>
  /\ UNCHANGED <<row, bm, reader, cond>>

-----------------------------------------------------------------------------
(* Decoding: the bitmap tells the reader which fields to expect. *)

Rest == SubSeq(page.body, reader.off + 1, Len(page.body))

Decode(kind, src) ==
  CASE kind = "int"    -> Int64(src)
    [] kind = "string" -> String(src)
    [] kind = "bool"   -> Bool(src)
    [] kind = "float"  -> Float64(src)

Reading == reader.field \in 1 .. Len(row) /\ reader.err = "none"

StartReading ==
  /\ reader.field = 0 /\ row # <<>>
  /\ reader' = [reader EXCEPT !.field = 1]
  /\ UNCHANGED <<row, bm, page, fault, cond>>

\* Mutant: a null is skipped as if it had a byte of its own.
SkipNullByte(r) == [r EXCEPT !.field = @ + 1, !.off = @ + 1]

SkipNull(r) == [r EXCEPT !.field = @ + 1]

ReadNull ==
  /\ Reading /\ IsNull(bm, reader.field - 1)
  /\ reader' = SkipNull(reader)
  /\ UNCHANGED <<row, bm, page, fault, cond>>

ReadValue ==
  /\ Reading /\ ~IsNull(bm, reader.field - 1)
  /\ LET d == Decode(Schema[reader.field], Rest) IN
     reader' = IF d.err # "none" THEN [reader EXCEPT !.err = d.err]
               ELSE [reader EXCEPT !.field = @ + 1, !.off = @ + d.n,
                                   !.got = [@ EXCEPT ![reader.field] = {d.value}]]
  /\ UNCHANGED <<row, bm, page, fault, cond>>

-----------------------------------------------------------------------------
(* Conditions: expNulls 5 and 6. *)

Terms ==
  [op : {"=", "<"}, a : IntFields, b : IntFields] \cup
  [op : {"= 30", "is null"}, a : IntFields] \cup
  {[op |-> "odd"]}      \* a Bool3 that is none of the three

Says(t) ==
  LET val(f) == reader.got[f] IN
  CASE t.op = "="       -> EqualInt64(val(t.a), val(t.b))
    [] t.op = "<"       -> LessInt64(val(t.a), val(t.b))
    [] t.op = "= 30"    -> EqualInt64(val(t.a), {Thirty})
    [] t.op = "is null" -> IsNullValue(val(t.a))
    [] t.op = "odd"     -> Unknown + 1

\* What the fields might be, if each null had a value after all.
Completions ==
  [fields : {f \in [IntFields -> Values["int"] \cup {Thirty}] :
               \A i \in IntFields : reader.got[i] \subseteq {f[i]} \/ reader.got[i] = {}},
   odd : BOOLEAN]

Holds(t, c) ==
  CASE t.op = "="       -> c.fields[t.a] = c.fields[t.b]
    [] t.op = "<"       -> c.fields[t.a] < c.fields[t.b]
    [] t.op = "= 30"    -> c.fields[t.a] = Thirty
    [] t.op = "is null" -> reader.got[t.a] = {}
    [] t.op = "odd"     -> c.odd

\* A condition is put to a row that was read whole.
Read == reader.field = Len(Schema) + 1 /\ fault = <<0, 0>>

Compare(t) ==
  /\ Read /\ cond.terms = 0
  /\ cond' = [terms |-> 1, answer |-> Says(t), odd |-> t.op = "odd",
              truth |-> [c \in Completions |-> Holds(t, c)]]
  /\ UNCHANGED <<row, bm, page, fault, reader>>

Negate ==
  /\ cond.terms > 0
  /\ cond' = [cond EXCEPT !.answer = Not(@), !.truth = [c \in DOMAIN @ |-> ~@[c]]]
  /\ UNCHANGED <<row, bm, page, fault, reader>>

AndAlso(t) ==
  /\ cond.terms \in 1 .. MaxTerms - 1
  /\ cond' = [terms |-> cond.terms + 1, answer |-> And(cond.answer, Says(t)),
              odd |-> cond.odd \/ t.op = "odd",
              truth |-> [c \in DOMAIN cond.truth |-> cond.truth[c] /\ Holds(t, c)]]
  /\ UNCHANGED <<row, bm, page, fault, reader>>

OrElse(t) ==
  /\ cond.terms \in 1 .. MaxTerms - 1
  /\ cond' = [terms |-> cond.terms + 1, answer |-> Or(cond.answer, Says(t)),
              odd |-> cond.odd \/ t.op = "odd",
              truth |-> [c \in DOMAIN cond.truth |-> cond.truth[c] \/ Holds(t, c)]]
  /\ UNCHANGED <<row, bm, page, fault, reader>>

-----------------------------------------------------------------------------
Init ==
  /\ row = <<>>
  /\ bm = New(Len(Schema))
  /\ page = [itemCount |-> 0, body |-> <<>>]
  /\ fault = <<0, 0>>
  /\ reader = [field |-> 0, off |-> 0, got |-> [i \in Fieldset |-> {}], err |-> "none"]
  /\ cond = [terms |-> 0]

Next ==
  \/ WriteNull \/ WriteValue \/ StrayBit
  \/ Cut \/ Damage
  \/ StartReading \/ ReadNull \/ ReadValue
  \/ \E t \in Terms : Compare(t) \/ AndAlso(t) \/ OrElse(t)
  \/ Negate

Spec == Init /\ [][Next]_vars

-----------------------------------------------------------------------------
(* What a row may rely on. *)

Present == {i \in DOMAIN row : row[i] # {}}

\* A record decodes into the row it was made from, field by field, and to its last
\* byte; nulls took no byte, and the padding of the bitmap counts for nothing.  A
\* record that was cut short is an error, and what was decoded before it is right.
RowsReadBack ==
  fault[2] = 0 =>
    /\ \A i \in 1 .. reader.field - 1 : reader.got[i] = row[i]
    /\ reader.field = Len(row) + 1 => fault[1] = 0 /\ reader.off = Len(page.body)
    /\ fault[1] = 0 => reader.err = "none"
    /\ page.itemCount = Cardinality(Present)
    /\ Count(bm, Len(row)) = Len(row) - page.itemCount
    /\ Any(bm, Len(row)) <=> Present # DOMAIN row

\* What the first n bytes of src come to as the digits of a number, the lowest first,
\* with no bound; and the bytes up to the first that ends a varint.
Worth(src, n) ==
  LET y[i \in 1 .. n + 1] == IF i > n THEN 0 ELSE (src[i] % More) + More * y[i + 1] IN y[1]

Ends(src)  == {i \in DOMAIN src : src[i] < More}
Exact(src) == Worth(src, Min(Ends(src)))

\* Whatever bytes are read, a varint is the number they come to if that is a word and
\* they are no more than a word may take; an error says which of the two it was, that
\* the bytes end too early or that they do not; no shorter varint is that number's but
\* the one that is written; and a string lies in the bytes that were there.
DecodingIsExact ==
  LET src == Rest
      u   == Uvarint(src)
      s   == String(src)
      fits == Ends(src) # {} /\ Min(Ends(src)) <= MaxVarintLen /\ Exact(src) \in Word
  IN reader.field > 0 =>
     /\ u.err = "none" <=> fits
     /\ u.err = "truncated" <=> Ends(src) = {} /\ Len(src) < MaxVarintLen
     /\ fits => /\ u.value = Exact(src) /\ u.n = Min(Ends(src))
                /\ Len(AppendUvarint(<<>>, u.value)) = UvarintLen(u.value)
                /\ UvarintLen(u.value) <= u.n
     /\ s.err = "none" => s.n <= Len(src) /\ Len(s.value) = s.n - u.n
     /\ reader.off <= Len(page.body)

\* bytes.Compare.
Below(a, b) == \E i \in DOMAIN a : a[i] < b[i] /\ \A j \in 1 .. i - 1 : a[j] = b[j]

\* A float as a number, in units of the least there is.
Number(f) ==
  LET e == Magnitude(f) \div 2 ^ MantissaBits
      m == Magnitude(f) % 2 ^ MantissaBits
      n == IF e = 0 THEN m ELSE (2 ^ MantissaBits + m) * 2 ^ (e - 1)
  IN IF Negative(f) THEN -n ELSE n

\* a is before b in the order an index promises: numbers in theirs, every NaN last.
FloatBefore(a, b) == ~IsNaN(a) /\ (IsNaN(b) \/ Number(a) < Number(b))

\* The keys of all words, and their order as numbers.
UintKey  == [w \in Word |-> AppendKeyUint64(w)]
IntKey   == [w \in Word |-> AppendKeyInt64(int(w))]
FloatKey == [w \in Word |-> AppendKeyFloat64(w)]

\* The keys of two numbers compare as the numbers do: as unsigned, as signed and as
\* floats, where both zeros have one key and all NaNs have one, above every other.
\* A key decodes to its number again, to the one zero or the one NaN if it is one.
KeysKeepOrder ==
  \A i \in Fieldset : Schema[i] = "float" /\ cond.terms = 0 =>
    \A u \in reader.got[i] :
      /\ KeyUint64(UintKey[u]) = Decoded(u, WordBytes)
      /\ KeyInt64(IntKey[u]) = Decoded(int(u), WordBytes)
      /\ KeyFloat64(FloatKey[u]) = Decoded(OneOfEach(u), WordBytes)
      /\ \A w \in Word :
           /\ u < w             <=> Below(UintKey[u], UintKey[w])
           /\ int(u) < int(w)   <=> Below(IntKey[u], IntKey[w])
           /\ FloatBefore(u, w) <=> Below(FloatKey[u], FloatKey[w])
           /\ FloatBefore(w, u) <=> Below(FloatKey[w], FloatKey[u])

\* WHERE keeps no row it might not have kept: a condition is true only if it holds
\* whatever the nulls stand for, false only if it fails whatever they stand for, and
\* of a row without nulls it is never unknown.
LogicIsCautious ==
  cond.terms > 0 =>
    /\ IsTrue(cond.answer) => \A c \in DOMAIN cond.truth : cond.truth[c]
    /\ norm(cond.answer) = False => \A c \in DOMAIN cond.truth : ~cond.truth[c]
    /\ ~Any(bm, Len(Schema)) /\ ~cond.odd => norm(cond.answer) # Unknown

=============================================================================
