----------------------------- MODULE RaceProofs ------------------------------
(***************************************************************************)
(* How few records two writers that race may leave, whatever the number of *)
(* their records and the length of one.                                    *)
(***************************************************************************)
EXTENDS Race, FiniteSetTheorems, FunctionTheorems, TLAPS

-----------------------------------------------------------------------------
(* Arithmetic. *)

LEMMA Products ==
  /\ \A x, y \in Int : x * y \in Int
  /\ \A x, y \in Nat : x * y \in Nat
  /\ \A x, y, z \in Int : x <= y /\ 0 <= z => x * z <= y * z
  /\ \A x, z \in Int : (x + 1) * z = x * z + z
<1>1. \A x, y \in Int : x * y \in Int
  OBVIOUS
<1>2. \A x, y \in Nat : x * y \in Nat
  OBVIOUS
<1>3. ASSUME NEW x \in Int, NEW y \in Int, NEW z \in Int, x <= y, 0 <= z
      PROVE  x * z <= y * z
  <2>1. PICK d \in Nat : y = x + d
    <3>1. y - x \in Nat /\ y = x + (y - x)
      BY <1>3
    <3> QED BY <3>1
  <2>2. d * z \in Nat
    BY <1>3
  <2>3. (x + d) * z = x * z + d * z
    OBVIOUS
  <2> QED BY <2>1, <2>2, <2>3
<1>4. \A x, z \in Int : (x + 1) * z = x * z + z
  OBVIOUS
<1> QED BY <1>1, <1>2, <1>3, <1>4

\* The places of records lie side by side: a byte is in one of them.
LEMMA PlacesApart ==
  ASSUME NEW L \in Nat \ {0}, NEW k \in Nat, NEW u \in Nat, NEW i \in 0 .. L - 1
  PROVE  /\ k * L \in Nat /\ u * L \in Nat
         /\ k * L + i \in u * L .. u * L + L - 1 <=> k = u
         /\ k < u => k * L + i \in 0 .. u * L - 1
<1>1. k * L \in Nat /\ u * L \in Nat
  BY Products
<1>2. ASSUME k < u PROVE k * L + L <= u * L
  <2>1. k + 1 <= u
    BY <1>2
  <2>2. (k + 1) * L <= u * L /\ (k + 1) * L = k * L + L
    BY <2>1, Products
  <2> QED BY <2>2
<1>3. ASSUME u < k PROVE u * L + L <= k * L
  <2>1. u + 1 <= k
    BY <1>3
  <2>2. (u + 1) * L <= k * L /\ (u + 1) * L = u * L + L
    BY <2>1, Products
  <2> QED BY <2>2
<1>4. PICK kl \in Nat : kl = k * L
  BY <1>1, Zenon
<1>5. PICK ul \in Nat : ul = u * L
  BY <1>1, Zenon
<1>6. /\ k < u => kl + L <= ul
      /\ u < k => ul + L <= kl
      /\ k = u => kl = ul
  BY <1>2, <1>3, <1>4, <1>5, Zenon
<1>7. /\ kl + i \in ul .. ul + L - 1 <=> k = u
      /\ k < u => kl + i \in 0 .. ul - 1
  BY <1>6
<1> QED BY <1>1, <1>4, <1>5, <1>7, Zenon

\* What is left of a whole number of places is that number.
LEMMA PlacesCounted ==
  ASSUME NEW L \in Nat \ {0}, NEW k \in Nat
  PROVE  (k * L) \div L = k /\ (k * L) % L = 0
<1>1. k * L \in Nat
  BY Products
<1>2. PICK x \in Nat : x = k * L
  BY <1>1, Zenon
<1>3. x % L \in 0 .. L - 1 /\ x \div L \in Nat /\ x = (x \div L) * L + (x % L)
  OBVIOUS
<1>4. PICK q \in Nat : q = x \div L
  BY <1>3, Zenon
<1>5. PICK r \in 0 .. L - 1 : r = x % L
  BY <1>3, Zenon
<1>6. x = q * L + r
  BY <1>3, <1>4, <1>5, Zenon
<1>7. q * L + r = k * L + 0
  BY <1>1, <1>2, <1>6
<1>8. q = k
  <2>1. q * L + r \in k * L .. k * L + L - 1
    BY <1>1, <1>7
  <2> QED BY <2>1, PlacesApart
<1>9. r = 0
  BY <1>1, <1>7, <1>8
<1> QED BY <1>2, <1>4, <1>5, <1>8, <1>9, Zenon

-----------------------------------------------------------------------------
(* How many puts it takes to fill so many places.                          *)

\* Twice the puts that can still be made without a new place, when there are t of them
\* and the writers are to write at the places lo and hi: the one at hi runs to the end,
\* then the one at lo sets both back to lo + 1, and so on.
Left(t, lo, hi) == 2 * (t - hi) + (t - lo) * (t - lo + 1)

LEMMA Squares ==
  \A x \in Int : /\ x * (x + 1) \in Int
                 /\ (x - 1) * ((x - 1) + 1) = x * (x + 1) - 2 * x
                 /\ (x + 1) * ((x + 1) + 1) = x * (x + 1) + 2 * x + 2
                 /\ (x + 1) * ((x + 1) + 3) = x * (x + 3) + 2 * x + 4
                 /\ x * (x + 3) \in Int
                 /\ x >= 0 => x * (x + 1) >= 0
OBVIOUS

\* A new place makes room for as many puts as it adds.
LEMMA LeftMore ==
  ASSUME NEW t \in Nat, NEW lo \in 0 .. t
  PROVE  (t + 1) * ((t + 1) + 3) - Left(t + 1, lo, t) >= t * (t + 3) - Left(t, lo, t)
<1>1. PICK k \in Nat : k = t - lo
  OBVIOUS
<1>2. (t + 1) - lo = k + 1 /\ t - lo = k /\ k <= t /\ (t + 1) - t = 1 /\ t - t = 0
  BY <1>1
<1>3. PICK s \in Int : s = k * (k + 1)
  BY Squares
<1>4. (k + 1) * ((k + 1) + 1) = s + 2 * k + 2
  BY <1>3, Squares
<1>5. PICK f \in Int : f = t * (t + 3)
  BY Squares
<1>6. (t + 1) * ((t + 1) + 3) = f + 2 * t + 4
  BY <1>5, Squares
<1>7. Left(t + 1, lo, t) = 2 * 1 + (s + 2 * k + 2) /\ Left(t, lo, t) = 2 * 0 + s
  BY <1>2, <1>3, <1>4, Zenon DEF Left
<1>8. (f + 2 * t + 4) - (2 * 1 + (s + 2 * k + 2)) >= f - (2 * 0 + s)
  BY <1>2
<1> QED BY <1>5, <1>6, <1>7, <1>8, Zenon

\* A put takes at least its own room, whichever of the two made it, and whether the
\* other is in a put itself (then it stays where it is) or not (then it follows).
LEMMA LeftLess ==
  ASSUME NEW t \in Nat, NEW lo \in Nat, NEW hi \in Nat, lo <= hi, hi <= t
  PROVE  /\ hi < t => Left(t, lo, hi + 1) + 2 <= Left(t, lo, hi)
         /\ lo < hi => Left(t, lo + 1, hi) + 2 <= Left(t, lo, hi)
         /\ lo < t => Left(t, lo + 1, lo + 1) + 2 <= Left(t, lo, hi)
         /\ hi < t => Left(t, hi + 1, hi + 1) + 2 <= Left(t, lo, hi)
         /\ Left(t, lo, hi) >= 0
<1>1. PICK k \in Nat : k = t - lo
  OBVIOUS
<1>2. PICK j \in Nat : j = t - hi
  OBVIOUS
<1>3. j <= k /\ t - (hi + 1) = j - 1 /\ t - (lo + 1) = k - 1
      /\ (hi < t <=> 0 < j) /\ (lo < hi <=> j < k) /\ (lo < t <=> 0 < k)
  BY <1>1, <1>2
<1>4. PICK s \in Int : s = k * (k + 1)
  BY Squares
<1>5. PICK r \in Int : r = j * (j + 1)
  BY Squares
<1>6. (k - 1) * ((k - 1) + 1) = s - 2 * k /\ (j - 1) * ((j - 1) + 1) = r - 2 * j /\ s >= 0
  BY <1>4, <1>5, Squares
<1>7. r <= s
  <2>1. j * (j + 1) <= k * (j + 1)
    BY <1>3, Products
  <2>2. (j + 1) * k <= (k + 1) * k
    BY <1>3, Products
  <2>3. k * (j + 1) = (j + 1) * k /\ (k + 1) * k = k * (k + 1)
    OBVIOUS
  <2>4. j * (j + 1) \in Int /\ k * (j + 1) \in Int /\ k * (k + 1) \in Int
    BY Products
  <2>5. \A a, b, c \in Int : a <= b /\ b <= c => a <= c
    OBVIOUS
  <2>6. r <= k * (j + 1) /\ k * (j + 1) <= s
    BY <1>4, <1>5, <2>1, <2>2, <2>3, Zenon
  <2> QED BY <2>4, <2>5, <2>6, Zenon
<1>8. /\ Left(t, lo, hi) = 2 * j + s
      /\ Left(t, lo, hi + 1) = 2 * (j - 1) + s
      /\ Left(t, lo + 1, hi) = 2 * j + (s - 2 * k)
      /\ Left(t, lo + 1, lo + 1) = 2 * (k - 1) + (s - 2 * k)
      /\ Left(t, hi + 1, hi + 1) = 2 * (j - 1) + (r - 2 * j)
  BY <1>1, <1>2, <1>3, <1>4, <1>5, <1>6, Zenon DEF Left
<1>9. /\ 0 < j => (2 * (j - 1) + s) + 2 <= 2 * j + s
      /\ j < k => (2 * j + (s - 2 * k)) + 2 <= 2 * j + s
      /\ 0 < k => (2 * (k - 1) + (s - 2 * k)) + 2 <= 2 * j + s
      /\ 0 < j => (2 * (j - 1) + (r - 2 * j)) + 2 <= 2 * j + s
      /\ 2 * j + s >= 0
  BY <1>3, <1>6, <1>7
<1> QED BY <1>3, <1>8, <1>9, Zenon

-----------------------------------------------------------------------------
(* The inductive invariant. *)

\* The place at which a writer is to write: the one it read, or will read if it read now.
PlaceOf(w, o, at) == IF pc[w] = "read" THEN o ELSE at[w]

\* Records of w that were written: the one it is at counts before the offset is set.
Written(w) == done[w] + (IF pc[w] = "set" THEN 1 ELSE 0)

\* Place k holds record n of writer w.
RecordAt(k, w, n) ==
  \A i \in 0 .. RecordLen - 1 : file[k * RecordLen + i] = <<w, n, i>>

RaceType ==
  /\ done \in [Writers -> 0 .. Records]
  /\ pc \in [Writers -> {"read", "write", "set"}]
  /\ DOMAIN off = Writers
  /\ \A w \in Writers : pc[w] # "read" => Running(w)

\* The offsets are those of places, none is past the t there are, and one where a record
\* was written is one of them.
Placed(t, o, at) ==
  /\ offset = o * RecordLen
  /\ \A w \in Writers : /\ off[w] = at[w] * RecordLen
                        /\ PlaceOf(w, o, at) <= t
                        /\ pc[w] = "set" => at[w] < t

\* Each place holds a record, and no two the same.
FullPlaces(t) ==
  /\ DOMAIN file = 0 .. t * RecordLen - 1
  /\ \A k \in 0 .. t - 1 : \E w \in Writers, n \in 1 .. Records : n <= Written(w) /\ RecordAt(k, w, n)
  /\ \A k, l \in 0 .. t - 1, w \in Writers, n \in 1 .. Records :
       RecordAt(k, w, n) /\ RecordAt(l, w, n) => k = l

\* No more puts were made than the places have room for.
PutsFit(t, o, at) ==
  \A a, b \in Writers :
    a # b /\ PlaceOf(a, o, at) <= PlaceOf(b, o, at) =>
      2 * (done[a] + done[b]) + Left(t, PlaceOf(a, o, at), PlaceOf(b, o, at)) <= t * (t + 3)

InvAt(t, o, at) == RaceType /\ Placed(t, o, at) /\ FullPlaces(t) /\ PutsFit(t, o, at)

Inv == \E t, o \in Nat, at \in [Writers -> Nat] : InvAt(t, o, at)

-----------------------------------------------------------------------------
(* Init and the steps of a Put. *)

LEMMA InitInv ==
  ASSUME Init
  PROVE  Inv
<1> DEFINE at == [w \in Writers |-> 0]
<1>1. at \in [Writers -> Nat] /\ 0 \in Nat /\ \A w \in Writers : at[w] = 0
  OBVIOUS
<1>2. RaceType
  BY RecordsAssumption DEF Init, RaceType, Running
<1>3. \A w \in Writers : pc[w] = "read" /\ off[w] = 0 /\ done[w] = 0 /\ PlaceOf(w, 0, at) = 0
  BY DEF Init, PlaceOf
<1>4. 0 * RecordLen = 0
  BY RecordsAssumption
<1>5. Placed(0, 0, at)
  BY <1>1, <1>3, <1>4 DEF Init, Placed
<1>6. FullPlaces(0)
  <2>1. DOMAIN file = {} /\ 0 .. 0 - 1 = {}
    BY DEF Init
  <2> QED BY <1>4, <2>1 DEF FullPlaces
<1>7. PutsFit(0, 0, at)
  <2>1. Left(0, 0, 0) = 0
    BY DEF Left
  <2>2. 2 * (0 + 0) + 0 <= 0 * (0 + 3)
    OBVIOUS
  <2> QED BY <1>3, <2>1, <2>2 DEF PutsFit
<1> HIDE DEF at
<1> QED BY <1>1, <1>2, <1>5, <1>6, <1>7 DEF Inv, InvAt

LEMMA ReadOffsetInv ==
  ASSUME NEW t \in Nat, NEW o \in Nat, NEW at \in [Writers -> Nat], InvAt(t, o, at),
         NEW w \in Writers, ReadOffset(w)
  PROVE  Inv'
<1> DEFINE now == [at EXCEPT ![w] = o]
<1>1. /\ RaceType /\ Placed(t, o, at) /\ FullPlaces(t) /\ PutsFit(t, o, at)
      /\ Running(w) /\ pc[w] = "read"
      /\ off' = [off EXCEPT ![w] = offset] /\ pc' = [pc EXCEPT ![w] = "write"]
      /\ file' = file /\ offset' = offset /\ done' = done
  BY DEF InvAt, ReadOffset
<1>2. now \in [Writers -> Nat] /\ now[w] = o /\ \A v \in Writers \ {w} : now[v] = at[v]
  OBVIOUS
<1>3. RaceType'
  BY <1>1 DEF RaceType, Running
<1>4. pc'[w] = "write" /\ off'[w] = offset
      /\ \A v \in Writers \ {w} : pc'[v] = pc[v] /\ off'[v] = off[v]
  BY <1>1 DEF RaceType
<1> HIDE DEF now
<1>5. \A v \in Writers : PlaceOf(v, o, now)' = PlaceOf(v, o, at) /\ Written(v)' = Written(v)
  BY <1>1, <1>2, <1>4 DEF PlaceOf, Written
<1>6. Placed(t, o, now)'
  BY <1>1, <1>2, <1>4, <1>5 DEF Placed
<1>7. FullPlaces(t)'
  <2>1. \A k, v, m : RecordAt(k, v, m)' <=> RecordAt(k, v, m)
    BY <1>1 DEF RecordAt
  <2> QED BY <1>1, <1>5, <2>1, Zenon DEF FullPlaces
<1>8. PutsFit(t, o, now)'
  BY <1>1, <1>5 DEF PutsFit
<1> QED BY <1>2, <1>3, <1>6, <1>7, <1>8 DEF Inv, InvAt

LEMMA WriteInv ==
  ASSUME NEW t \in Nat, NEW o \in Nat, NEW at \in [Writers -> Nat], InvAt(t, o, at),
         NEW w \in Writers, Write(w)
  PROVE  Inv'
<1> DEFINE u == at[w]
<1>0. done[w] \in 0 .. Records /\ done[w] + 1 \in 1 .. Records
  BY RecordsAssumption DEF InvAt, RaceType, Write, Running
<1> PICK n \in 1 .. Records : n = done[w] + 1
  BY <1>0
<1>1. /\ RaceType /\ Placed(t, o, at) /\ FullPlaces(t) /\ PutsFit(t, o, at)
      /\ pc[w] = "write" /\ file' = WriteAt(w, n, off[w])
      /\ pc' = [pc EXCEPT ![w] = "set"]
      /\ offset' = offset /\ off' = off /\ done' = done
  BY DEF InvAt, Write
<1>2. u \in Nat /\ u <= t /\ off[w] = u * RecordLen
  BY <1>1 DEF Placed, PlaceOf
<1>3. RecordLen \in Nat \ {0} /\ Records \in Nat
  BY RecordsAssumption
<1>4. n \in 1 .. Records /\ done[w] \in 0 .. Records /\ n = done[w] + 1
  BY <1>0
<1>5. PICK more \in Nat : /\ more = IF u = t THEN t + 1 ELSE t
                          /\ u < more /\ t <= more /\ (u # t => more = t) /\ (u = t => more = t + 1)
  BY <1>2
<1>6. /\ pc'[w] = "set"
      /\ \A v \in Writers \ {w} : pc'[v] = pc[v]
  BY <1>1 DEF RaceType
<1>7. /\ Written(w)' = n /\ Written(w) = done[w]
      /\ \A v \in Writers \ {w} : Written(v)' = Written(v)
      /\ \A v \in Writers : Written(v) \in Nat /\ Written(v) <= Written(v)'
      /\ \A v \in Writers : PlaceOf(v, o, at)' = PlaceOf(v, o, at)
  BY <1>1, <1>4, <1>6 DEF RaceType, Written, PlaceOf
<1>8. RaceType'
  BY <1>1 DEF RaceType, Running
<1>9. Placed(more, o, at)'
  <2>1. ASSUME NEW v \in Writers PROVE PlaceOf(v, o, at) \in Nat
    BY DEF PlaceOf
  <2>2. \A v \in Writers : PlaceOf(v, o, at)' <= more
    BY <1>1, <1>5, <1>7, <2>1 DEF Placed
  <2>3. \A v \in Writers : pc'[v] = "set" => at[v] < more
    BY <1>1, <1>5, <1>6 DEF Placed
  <2> QED BY <1>1, <2>2, <2>3 DEF Placed
<1>10. PutsFit(more, o, at)'
  <2>1. CASE u # t
    BY <1>1, <1>5, <1>7, <2>1 DEF PutsFit
  <2>2. CASE u = t
    <3> SUFFICES ASSUME NEW a \in Writers, NEW b \in Writers, a # b,
                        PlaceOf(a, o, at) <= PlaceOf(b, o, at)
                 PROVE  2 * (done[a] + done[b]) + Left(t + 1, PlaceOf(a, o, at), PlaceOf(b, o, at))
                          <= (t + 1) * ((t + 1) + 3)
      BY <1>1, <1>5, <1>7, <2>2 DEF PutsFit
    <3>1. PICK lo \in Nat : lo = PlaceOf(a, o, at)
      BY DEF PlaceOf
    <3>2. PICK hi \in Nat : hi = PlaceOf(b, o, at)
      BY DEF PlaceOf
    <3>3. lo <= hi /\ hi <= t
      BY <1>1, <3>1, <3>2, Zenon DEF Placed
    <3>4. hi = t
      <4>1. a = w \/ b = w
        BY WritersAssumption
      <4>2. PlaceOf(w, o, at) = t
        BY <1>1, <2>2 DEF PlaceOf
      <4>3. lo = t \/ hi = t
        BY <3>1, <3>2, <4>1, <4>2, Zenon
      <4> QED BY <3>3, <4>3
    <3>5. PICK d \in Int : d = 2 * (done[a] + done[b])
      BY <1>1 DEF RaceType
    <3>6. d + Left(t, lo, t) <= t * (t + 3)
      BY <1>1, <3>1, <3>2, <3>4, <3>5, Zenon DEF PutsFit
    <3>7. (t + 1) * ((t + 1) + 3) - Left(t + 1, lo, t) >= t * (t + 3) - Left(t, lo, t)
      BY <3>3, LeftMore
    <3>8. Left(t, lo, t) \in Int /\ Left(t + 1, lo, t) \in Int /\ t * (t + 3) \in Int
          /\ (t + 1) * ((t + 1) + 3) \in Int
      BY DEF Left
    <3>9. d + Left(t + 1, lo, t) <= (t + 1) * ((t + 1) + 3)
      <4> DEFINE x == Left(t, lo, t)
      <4> DEFINE y == Left(t + 1, lo, t)
      <4> DEFINE f == t * (t + 3)
      <4> DEFINE g == (t + 1) * ((t + 1) + 3)
      <4>1. x \in Int /\ y \in Int /\ f \in Int /\ g \in Int /\ d + x <= f /\ g - y >= f - x
        BY <3>6, <3>7, <3>8, Zenon
      <4> HIDE DEF x, y, f, g
      <4>2. d + y <= g
        BY <4>1
      <4> QED BY <4>2 DEF y, g
    <3> QED BY <3>1, <3>2, <3>4, <3>5, <3>9, Zenon
  <2> QED BY <2>1, <2>2
<1>11. FullPlaces(more)'
  <2> DEFINE start == u * RecordLen
  <2>1. start \in Nat /\ t * RecordLen \in Nat
    BY <1>2, <1>3, Products
  <2>2. /\ DOMAIN file' = DOMAIN file \cup start .. start + RecordLen - 1
        /\ \A b \in DOMAIN file' :
             /\ b \in start .. start + RecordLen - 1 => file'[b] = <<w, n, b - start>>
             /\ ~ (b \in start .. start + RecordLen - 1) => file'[b] = file[b]
    BY <1>1, <1>2 DEF WriteAt
  <2>3. DOMAIN file' = 0 .. more * RecordLen - 1
    <3>1. DOMAIN file = 0 .. t * RecordLen - 1
      BY <1>1 DEF FullPlaces
    <3>2. CASE u = t
      <4>1. more * RecordLen = start + RecordLen /\ t * RecordLen = start
        BY <1>3, <1>5, <3>2, Products
      <4>2. 0 .. start - 1 \cup start .. start + RecordLen - 1 = 0 .. (start + RecordLen) - 1
        BY <1>3, <2>1
      <4> QED BY <2>2, <3>1, <4>1, <4>2, Zenon
    <3>3. CASE u # t
      <4>1. more = t /\ u + 1 <= t
        BY <1>2, <1>5, <3>3
      <4>2. (u + 1) * RecordLen <= t * RecordLen /\ (u + 1) * RecordLen = start + RecordLen
        BY <1>2, <1>3, <4>1, Products
      <4>3. 0 .. t * RecordLen - 1 \cup start .. start + RecordLen - 1 = 0 .. t * RecordLen - 1
        BY <1>3, <2>1, <4>2
      <4> QED BY <2>2, <3>1, <4>1, <4>3, Zenon
    <3> QED BY <3>2, <3>3
  <2>4. ASSUME NEW k \in 0 .. more - 1, NEW v, NEW m
        PROVE  /\ k # u => k \in 0 .. t - 1 /\ (RecordAt(k, v, m)' <=> RecordAt(k, v, m))
               /\ RecordAt(u, w, n)'
               /\ RecordAt(u, v, m)' => v = w /\ m = n
    <3>1. \A i \in 0 .. RecordLen - 1 :
            k * RecordLen + i \in DOMAIN file' /\ u * RecordLen + i \in DOMAIN file'
      <4>1. k \in Nat /\ k < more
        BY <1>5
      <4> QED BY <1>2, <1>3, <1>5, <2>3, <4>1, PlacesApart
    <3>2. \A i \in 0 .. RecordLen - 1 : file'[u * RecordLen + i] = <<w, n, i>>
      <4> SUFFICES ASSUME NEW i \in 0 .. RecordLen - 1
                   PROVE  file'[u * RecordLen + i] = <<w, n, i>>
        OBVIOUS
      <4>1. start + i \in start .. start + RecordLen - 1 /\ (start + i) - start = i
        BY <2>1, <1>3
      <4> QED BY <2>2, <3>1, <4>1, Zenon
    <3>3. RecordAt(u, w, n)'
      BY <3>2 DEF RecordAt
    <3>4. ASSUME RecordAt(u, v, m)' PROVE v = w /\ m = n
      <4>1. 0 \in 0 .. RecordLen - 1
        BY <1>3
      <4>2. <<w, n, 0>> = <<v, m, 0>>
        BY <3>2, <3>4, <4>1, Zenon DEF RecordAt
      <4> QED BY <4>2
    <3>5. ASSUME k # u PROVE k \in 0 .. t - 1 /\ (RecordAt(k, v, m)' <=> RecordAt(k, v, m))
      <4>1. k \in Nat
        BY <1>5
      <4>2. \A i \in 0 .. RecordLen - 1 : ~ (k * RecordLen + i \in start .. start + RecordLen - 1)
        BY <1>2, <1>3, <3>5, <4>1, PlacesApart, Zenon
      <4>3. \A i \in 0 .. RecordLen - 1 : file'[k * RecordLen + i] = file[k * RecordLen + i]
        BY <2>2, <3>1, <4>2, Zenon
      <4>4. RecordAt(k, v, m)' <=> RecordAt(k, v, m)
        BY <4>3 DEF RecordAt
      <4>5. k \in 0 .. t - 1
        BY <1>2, <1>5, <3>5, <4>1
      <4> QED BY <4>4, <4>5
    <3> QED BY <3>3, <3>4, <3>5
  <2>5. ASSUME NEW k \in 0 .. more - 1
        PROVE  \E v \in Writers, m \in 1 .. Records : m <= Written(v)' /\ RecordAt(k, v, m)'
    <3>1. CASE k = u
      <4>1. RecordAt(k, w, n)' /\ n <= n
        BY <1>4, <2>4, <3>1
      <4> QED BY <1>7, <4>1, Zenon
    <3>2. CASE k # u
      <4>1. k \in 0 .. t - 1
        BY <2>4, <3>2
      <4>2. PICK v \in Writers, m \in 1 .. Records : m <= Written(v) /\ RecordAt(k, v, m)
        BY <1>1, <4>1 DEF FullPlaces
      <4>3. RecordAt(k, v, m)'
        BY <2>4, <3>2, <4>2
      <4>4. Written(v) \in Nat /\ Written(v) <= Written(v)' /\ Written(v)' \in Nat
        BY <1>4, <1>7
      <4>5. m <= Written(v)'
        BY <4>2, <4>4
      <4> QED BY <4>3, <4>5
    <3> QED BY <3>1, <3>2
  <2>6. \A k \in 0 .. t - 1 : ~ RecordAt(k, w, n)
    <3> SUFFICES ASSUME NEW k \in 0 .. t - 1, RecordAt(k, w, n) PROVE FALSE
      OBVIOUS
    <3>1. PICK v \in Writers, m \in 1 .. Records : m <= Written(v) /\ RecordAt(k, v, m)
      BY <1>1 DEF FullPlaces
    <3>2. 0 \in 0 .. RecordLen - 1
      BY <1>3
    <3>3. <<w, n, 0>> = <<v, m, 0>>
      BY <3>1, <3>2, Zenon DEF RecordAt
    <3>4. w = v /\ n = m
      BY <3>3
    <3> QED BY <1>4, <1>7, <3>1, <3>4
  <2>7. ASSUME NEW k \in 0 .. more - 1, NEW l \in 0 .. more - 1,
               NEW v \in Writers, NEW m \in 1 .. Records, RecordAt(k, v, m)', RecordAt(l, v, m)'
        PROVE  k = l
    <3>1. CASE k = u /\ l = u
      BY <3>1
    <3>2. CASE k = u /\ l # u
      <4>1. v = w /\ m = n /\ l \in 0 .. t - 1 /\ RecordAt(l, v, m)
        BY <2>4, <2>7, <3>2
      <4> QED BY <2>6, <4>1
    <3>3. CASE k # u /\ l = u
      <4>1. v = w /\ m = n /\ k \in 0 .. t - 1 /\ RecordAt(k, v, m)
        BY <2>4, <2>7, <3>3
      <4> QED BY <2>6, <4>1
    <3>4. CASE k # u /\ l # u
      <4>1. k \in 0 .. t - 1 /\ l \in 0 .. t - 1 /\ RecordAt(k, v, m) /\ RecordAt(l, v, m)
        BY <2>4, <2>7, <3>4
      <4> QED BY <1>1, <4>1 DEF FullPlaces
    <3> QED BY <3>1, <3>2, <3>3, <3>4
  <2> QED BY <2>3, <2>5, <2>7 DEF FullPlaces
<1> QED BY <1>8, <1>9, <1>10, <1>11 DEF Inv, InvAt

LEMMA SetOffsetInv ==
  ASSUME NEW t \in Nat, NEW o \in Nat, NEW at \in [Writers -> Nat], InvAt(t, o, at),
         NEW w \in Writers, SetOffset(w)
  PROVE  Inv'
<1> DEFINE u == at[w]
<1>1. /\ RaceType /\ Placed(t, o, at) /\ FullPlaces(t) /\ PutsFit(t, o, at)
      /\ pc[w] = "set" /\ offset' = off[w] + RecordLen
      /\ done' = [done EXCEPT ![w] = @ + 1] /\ pc' = [pc EXCEPT ![w] = "read"]
      /\ file' = file /\ off' = off
  BY DEF InvAt, SetOffset, Past
<1>2. RecordLen \in Nat \ {0} /\ Records \in Nat
  BY RecordsAssumption
<1>3. u \in Nat /\ u < t /\ u + 1 \in Nat /\ u + 1 <= t
  BY <1>1 DEF Placed
<1>4. done[w] \in Nat /\ done[w] < Records /\ done' \in [Writers -> 0 .. Records]
  BY <1>1, <1>2 DEF RaceType, Running
<1>5. /\ pc'[w] = "read" /\ done'[w] = done[w] + 1
      /\ \A v \in Writers \ {w} : pc'[v] = pc[v] /\ done'[v] = done[v]
  BY <1>1 DEF RaceType
<1>6. RaceType'
  BY <1>1, <1>4, <1>5 DEF RaceType, Running
<1>7. \A v \in Writers : Written(v)' = Written(v)
  <2>1. Written(w)' = Written(w)
    BY <1>1, <1>4, <1>5 DEF Written
  <2>2. \A v \in Writers \ {w} : Written(v)' = Written(v)
    BY <1>5 DEF Written
  <2> QED BY <2>1, <2>2
<1>8. FullPlaces(t)'
  <2>1. \A k, v, m : RecordAt(k, v, m)' <=> RecordAt(k, v, m)
    BY <1>1 DEF RecordAt
  <2> QED BY <1>1, <1>7, <2>1, Zenon DEF FullPlaces
<1>9. /\ PlaceOf(w, o, at) = u /\ PlaceOf(w, u + 1, at)' = u + 1
      /\ \A v \in Writers \ {w} :
           PlaceOf(v, u + 1, at)' = IF pc[v] = "read" THEN u + 1 ELSE PlaceOf(v, o, at)
      /\ \A v \in Writers : PlaceOf(v, o, at) \in Nat /\ PlaceOf(v, o, at) <= t
  <2>1. \A v \in Writers : PlaceOf(v, o, at) \in Nat /\ PlaceOf(v, o, at) <= t
    BY <1>1 DEF Placed, PlaceOf
  <2> QED BY <1>1, <1>5, <2>1 DEF PlaceOf
<1>10. Placed(t, u + 1, at)'
  <2>1. offset' = (u + 1) * RecordLen
    <3>1. off[w] = u * RecordLen /\ (u + 1) * RecordLen = u * RecordLen + RecordLen
      BY <1>1, <1>2, <1>3, Products DEF Placed
    <3> QED BY <1>1, <3>1
  <2>2. \A v \in Writers : PlaceOf(v, u + 1, at)' <= t
    BY <1>3, <1>9
  <2>3. \A v \in Writers : off'[v] = at[v] * RecordLen
    BY <1>1 DEF Placed
  <2>4. \A v \in Writers : pc'[v] = "set" => at[v] < t
    BY <1>1, <1>5 DEF Placed
  <2> QED BY <2>1, <2>2, <2>3, <2>4 DEF Placed
<1>11. PutsFit(t, u + 1, at)'
  <2>1. PICK z \in Writers \ {w} : Writers = {w, z}
    BY WritersAssumption
  <2>2. PICK q \in Nat : q = PlaceOf(z, o, at)
    BY <1>9
  <2>3. q <= t
    BY <1>9, <2>2
  <2>4. PICK q2 \in Nat : q2 = PlaceOf(z, u + 1, at)' /\ (q2 = q \/ q2 = u + 1)
    BY <1>3, <1>9, <2>2
  <2>5. PICK d \in Int : d = done[w] + done[z]
    BY <1>1 DEF RaceType
  <2>6. done'[w] + done'[z] = d + 1 /\ done'[z] + done'[w] = d + 1 /\ done[z] + done[w] = d
    BY <1>1, <1>5, <2>5 DEF RaceType
  <2>7. PICK f \in Int : f = t * (t + 3)
    OBVIOUS
  <2>8. /\ u <= q => 2 * d + Left(t, u, q) <= f
        /\ q <= u => 2 * d + Left(t, q, u) <= f
    BY <1>1, <1>9, <2>1, <2>2, <2>5, <2>6, <2>7, Zenon DEF PutsFit
  <2>9. \A x, y \in Nat : Left(t, x, y) \in Int
    BY DEF Left
  <2>10. /\ u + 1 <= q2 => 2 * (d + 1) + Left(t, u + 1, q2) <= f
         /\ q2 <= u + 1 => 2 * (d + 1) + Left(t, q2, u + 1) <= f
    <3> HIDE DEF u
    <3>1. ASSUME NEW x \in Int, NEW y \in Int, x + 2 <= y, 2 * d + y <= f
          PROVE  2 * (d + 1) + x <= f
      BY <3>1
    <3>2. CASE q2 = u + 1 /\ u <= q
      <4>1. Left(t, u + 1, u + 1) + 2 <= Left(t, u, q)
        BY <1>3, <2>3, <3>2, LeftLess
      <4> QED BY <1>3, <2>8, <2>9, <3>1, <3>2, <4>1, Zenon
    <3>3. CASE q2 = u + 1 /\ q <= u
      <4>1. Left(t, u + 1, u + 1) + 2 <= Left(t, q, u)
        BY <1>3, <2>3, <3>3, LeftLess
      <4> QED BY <1>3, <2>8, <2>9, <3>1, <3>3, <4>1, Zenon
    <3>4. CASE q2 = q /\ q2 # u + 1 /\ u < q
      <4>1. Left(t, u + 1, q) + 2 <= Left(t, u, q) /\ u <= q /\ ~ (q2 <= u + 1)
        BY <1>3, <2>3, <3>4, LeftLess
      <4> QED BY <1>3, <2>8, <2>9, <3>1, <3>4, <4>1, Zenon
    <3>5. CASE q2 = q /\ q <= u
      <4>1. Left(t, q, u + 1) + 2 <= Left(t, q, u) /\ ~ (u + 1 <= q2)
        BY <1>3, <2>3, <3>5, LeftLess
      <4> QED BY <1>3, <2>8, <2>9, <3>1, <3>5, <4>1, Zenon
    <3>6. q <= u \/ u < q
      BY <1>3
    <3> QED BY <2>4, <3>2, <3>3, <3>4, <3>5, <3>6, <1>3
  <2> QED BY <1>9, <2>1, <2>4, <2>6, <2>7, <2>10, Zenon DEF PutsFit
<1> HIDE DEF u
<1> QED BY <1>3, <1>6, <1>8, <1>10, <1>11 DEF Inv, InvAt

LEMMA NextInv ==
  ASSUME Inv, [Next]_vars
  PROVE  Inv'
<1>1. PICK t \in Nat, o \in Nat, at \in [Writers -> Nat] : InvAt(t, o, at)
  BY DEF Inv
<1>2. CASE Next
  <2>1. PICK w \in Writers : ReadOffset(w) \/ Write(w) \/ SetOffset(w)
    BY <1>2 DEF Next
  <2> QED BY <1>1, <2>1, ReadOffsetInv, WriteInv, SetOffsetInv
<1>3. CASE UNCHANGED vars
  <2>1. file' = file /\ offset' = offset /\ off' = off /\ pc' = pc /\ done' = done
    BY <1>3 DEF vars
  <2>2. /\ \A v : Written(v)' = Written(v) /\ PlaceOf(v, o, at)' = PlaceOf(v, o, at)
        /\ \A k, v, m : RecordAt(k, v, m)' <=> RecordAt(k, v, m)
    BY <2>1 DEF Written, PlaceOf, RecordAt
  <2>3. RaceType'
    BY <1>1, <2>1 DEF InvAt, RaceType, Running
  <2>4. Placed(t, o, at)'
    BY <1>1, <2>1, <2>2 DEF InvAt, Placed
  <2>5. FullPlaces(t)'
    BY <1>1, <2>1, <2>2, Zenon DEF InvAt, FullPlaces
  <2>6. PutsFit(t, o, at)'
    BY <1>1, <2>1, <2>2 DEF InvAt, PutsFit
  <2> QED BY <2>3, <2>4, <2>5, <2>6 DEF Inv, InvAt
<1> QED BY <1>2, <1>3

-----------------------------------------------------------------------------
(* The theorems. *)

\* After every step, the offsets are those of places, each place holds a record of its
\* own, and no more puts were made than the places have room for.
THEOREM RaceInvariant == Spec => []Inv
<1>1. Init => Inv
  BY InitInv
<1>2. Inv /\ [Next]_vars => Inv'
  BY NextInv
<1> QED BY <1>1, <1>2, PTL DEF Spec

\* As many records survive as there are places.
LEMMA SurvivorsCounted ==
  ASSUME NEW t \in Nat, FullPlaces(t)
  PROVE  Cardinality({<<file[k * RecordLen][1], file[k * RecordLen][2]>> : k \in 0 .. t - 1}) = t
<1> DEFINE P == 0 .. t - 1
<1> DEFINE record(k) == <<file[k * RecordLen][1], file[k * RecordLen][2]>>
<1> DEFINE S == {record(k) : k \in P}
<1> DEFINE f == [k \in P |-> record(k)]
<1>1. \A k \in P : \E w \in Writers, n \in 1 .. Records : RecordAt(k, w, n) /\ record(k) = <<w, n>>
  <2> SUFFICES ASSUME NEW k \in P
               PROVE  \E w \in Writers, n \in 1 .. Records : RecordAt(k, w, n) /\ record(k) = <<w, n>>
    OBVIOUS
  <2>1. PICK w \in Writers, n \in 1 .. Records : RecordAt(k, w, n)
    BY DEF FullPlaces
  <2>2. 0 \in 0 .. RecordLen - 1 /\ k * RecordLen \in Nat /\ k * RecordLen + 0 = k * RecordLen
    BY RecordsAssumption, Products
  <2>3. file[k * RecordLen] = <<w, n, 0>>
    BY <2>1, <2>2, Zenon DEF RecordAt
  <2>4. record(k) = <<w, n>>
    BY <2>3
  <2> HIDE DEF record
  <2> QED BY <2>1, <2>4, Zenon
<1>2. \A k, l \in P : record(k) = record(l) => k = l
  <2> SUFFICES ASSUME NEW k \in P, NEW l \in P, record(k) = record(l) PROVE k = l
    OBVIOUS
  <2> HIDE DEF record
  <2>1. PICK w \in Writers, n \in 1 .. Records : RecordAt(k, w, n) /\ record(k) = <<w, n>>
    BY <1>1, Zenon
  <2>2. PICK v \in Writers, m \in 1 .. Records : RecordAt(l, v, m) /\ record(l) = <<v, m>>
    BY <1>1, Zenon
  <2>3. <<w, n>> = <<v, m>>
    BY <2>1, <2>2, Zenon
  <2>4. w = v /\ n = m
    BY <2>3
  <2>5. RecordAt(k, w, n) /\ RecordAt(l, w, n)
    BY <2>1, <2>2, <2>4, Zenon
  <2> QED BY <2>5, Zenon DEF FullPlaces
<1> HIDE DEF record
<1>3. f \in Bijection(P, S)
  <2>1. f \in [P -> S] /\ \A k \in P : f[k] = record(k)
    OBVIOUS
  <2>2. \A k, l \in P : f[k] = f[l] => k = l
    BY <1>2, <2>1
  <2>3. \A s \in S : \E k \in P : f[k] = s
    BY <2>1
  <2> HIDE DEF f, S
  <2> QED BY <2>1, <2>2, <2>3, Fun_IsBij, Zenon
<1>4. IsFiniteSet(P) /\ Cardinality(P) = t
  <2>1. 0 \in Int /\ t - 1 \in Int
    OBVIOUS
  <2>2. IsFiniteSet(P) /\ Cardinality(P) = IF 0 > t - 1 THEN 0 ELSE (t - 1) - 0 + 1
    BY <2>1, FS_Interval, Zenon
  <2> HIDE DEF P
  <2>3. CASE t = 0
    BY <2>2, <2>3
  <2>4. CASE t > 0
    BY <2>2, <2>4
  <2> QED BY <2>3, <2>4
<1>5. Cardinality(S) = t
  <2>1. ExistsBijection(P, S)
    BY <1>3, Zenon DEF ExistsBijection
  <2> QED BY <1>4, <2>1, FS_Bijection, Zenon
<1> QED BY <1>5, Zenon DEF S, record

\* Two writers that race lose records and never tear one, and leave n with n * (n + 3) at
\* least four times what each of them wrote: whatever that is, however long a record, and
\* however their reads, writes and stores of the offset fall.
THEOREM RaceLosesWholeRecords == Spec => []LosesWholeRecords
<1>1. ASSUME Inv PROVE LosesWholeRecords
  <2>1. PICK t \in Nat, o \in Nat, at \in [Writers -> Nat] : InvAt(t, o, at)
    BY <1>1 DEF Inv
  <2>2. RaceType /\ Placed(t, o, at) /\ FullPlaces(t) /\ PutsFit(t, o, at)
    BY <2>1 DEF InvAt
  <2>3. RecordLen \in Nat \ {0} /\ Records \in Nat
    BY RecordsAssumption
  <2>4. PICK size \in Nat : size = t * RecordLen
    BY <2>3, Products
  <2>5. DOMAIN file = 0 .. size - 1
    BY <2>2, <2>4 DEF FullPlaces
  <2>6. Cardinality(DOMAIN file) = size
    <3>1. 0 \in Int /\ size - 1 \in Int
      OBVIOUS
    <3>2. Cardinality(0 .. size - 1) = IF 0 > size - 1 THEN 0 ELSE (size - 1) - 0 + 1
      BY <3>1, FS_Interval, Zenon
    <3>3. (IF 0 > size - 1 THEN 0 ELSE (size - 1) - 0 + 1) = size
      OBVIOUS
    <3> QED BY <2>5, <3>2, <3>3, Zenon
  <2>7. size \div RecordLen = t /\ size % RecordLen = 0
    BY <2>3, <2>4, PlacesCounted, Zenon
  <2>8. Places = 0 .. t - 1
    BY <2>6, <2>7, Zenon DEF Places
  <2>9. \A k \in Places : Whole(k)
    <3> SUFFICES ASSUME NEW k \in 0 .. t - 1 PROVE Whole(k)
      BY <2>8
    <3>1. PICK w \in Writers, n \in 1 .. Records : RecordAt(k, w, n)
      BY <2>2 DEF FullPlaces
    <3>2. \A i \in 0 .. RecordLen - 1 : k * RecordLen + i \in 0 .. t * RecordLen - 1
      <4>1. k \in Nat /\ k < t
        OBVIOUS
      <4> QED BY <2>3, <4>1, PlacesApart
    <3>3. \A i \in 0 .. RecordLen - 1 : k * RecordLen + i \in DOMAIN file
      BY <2>4, <2>5, <3>2, Zenon
    <3> QED BY <3>1, <3>3, Zenon DEF RecordAt, Whole
  <2>10. Cardinality(Survivors) = t
    BY <2>2, <2>8, SurvivorsCounted, Zenon DEF Survivors
  <2>11. ASSUME \A w \in Writers : ~ Running(w) PROVE t * (t + 3) >= 4 * Records
    <3>1. PICK a \in Writers, b \in Writers : a # b /\ Writers = {a, b}
      BY WritersAssumption
    <3>2. done[a] = Records /\ done[b] = Records
      BY <2>2, <2>3, <2>11 DEF RaceType, Running
    <3>3. PICK x \in Nat : x = PlaceOf(a, o, at)
      BY DEF PlaceOf
    <3>4. PICK y \in Nat : y = PlaceOf(b, o, at)
      BY DEF PlaceOf
    <3>5. x <= t /\ y <= t
      BY <2>2, <3>3, <3>4, Zenon DEF Placed
    <3>6. /\ x <= y => 2 * (Records + Records) + Left(t, x, y) <= t * (t + 3)
          /\ y <= x => 2 * (Records + Records) + Left(t, y, x) <= t * (t + 3)
      BY <2>2, <3>1, <3>2, <3>3, <3>4, Zenon DEF PutsFit
    <3>7. /\ x <= y => Left(t, x, y) >= 0
          /\ y <= x => Left(t, y, x) >= 0
      BY <3>5, LeftLess
    <3>8. Left(t, x, y) \in Int /\ Left(t, y, x) \in Int
      BY DEF Left
    <3>9. PICK f \in Int : f = t * (t + 3)
      OBVIOUS
    <3>10. f >= 4 * Records
      <4>1. ASSUME NEW l \in Int, l >= 0, 2 * (Records + Records) + l <= f PROVE f >= 4 * Records
        BY <2>3, <4>1
      <4>2. x <= y \/ y <= x
        OBVIOUS
      <4> QED BY <3>6, <3>7, <3>8, <3>9, <4>1, <4>2, Zenon
    <3> QED BY <3>9, <3>10, Zenon
  <2> QED BY <2>5, <2>6, <2>7, <2>9, <2>10, <2>11, Zenon DEF LosesWholeRecords
<1> QED BY <1>1, RaceInvariant, PTL

=============================================================================
