----------------------------- MODULE SlotsProofs -----------------------------
(***************************************************************************)
(* Theorems about records in slots, for every page size, width of an int,  *)
(* record size, alignment and length of a page.                            *)
(***************************************************************************)
EXTENDS Slots, FiniteSetTheorems, WellFoundedInduction, TLAPS

-----------------------------------------------------------------------------
(* Arithmetic. *)

LEMMA Products ==
  /\ \A x, y \in Int : x * y \in Int
  /\ \A x, y \in Nat : x * y \in Nat
  /\ \A x, y, z \in Int : x <= y /\ 0 <= z => x * z <= y * z
  /\ \A x, z \in Int : (x + 1) * z = x * z + z /\ (x - 1) * z = x * z - z
<1>1. \A x, y \in Int : x * y \in Int
  OBVIOUS
<1>2. \A x, y \in Nat : x * y \in Nat
  OBVIOUS
<1>3. ASSUME NEW x \in Int, NEW y \in Int, NEW z \in Int, x <= y, 0 <= z
      PROVE  x * z <= y * z
  <2>1. PICK d \in Nat : y = x + d
    <3>1. y - x \in Nat /\ y = x + (y - x)
      BY <1>3
    <3> QED BY <3>1
  <2>2. d * z \in Nat
    BY <1>3
  <2>3. (x + d) * z = x * z + d * z
    OBVIOUS
  <2> QED BY <2>1, <2>2, <2>3
<1>4. \A x, z \in Int : (x + 1) * z = x * z + z /\ (x - 1) * z = x * z - z
  OBVIOUS
<1> QED BY <1>1, <1>2, <1>3, <1>4

\* Division with remainder.
LEMMA Division ==
  ASSUME NEW a \in Int, NEW b \in Nat \ {0}
  PROVE  /\ a % b \in 0 .. b - 1
         /\ a \div b \in Int
         /\ a = (a \div b) * b + (a % b)
OBVIOUS

\* Quotient and remainder are the only ones.
LEMMA DivisionUnique ==
  ASSUME NEW a \in Int, NEW b \in Nat \ {0}, NEW q \in Int, NEW r \in 0 .. b - 1, a = q * b + r
  PROVE  a \div b = q /\ a % b = r
<1> DEFINE Q == a \div b
<1> DEFINE R == a % b
<1>1. R \in 0 .. b - 1 /\ Q \in Int /\ a = Q * b + R
  BY Division
<1> HIDE DEF Q, R
<1>2. ~ q < Q
  <2> SUFFICES ASSUME q < Q PROVE FALSE
    OBVIOUS
  <2>1. q + 1 <= Q
    BY <1>1
  <2>2. (q + 1) * b <= Q * b
    BY <2>1, <1>1, Products
  <2>3. (q + 1) * b = q * b + b
    BY Products
  <2>4. q * b \in Int /\ Q * b \in Int
    BY <1>1, Products
  <2> QED BY <2>2, <2>3, <2>4, <1>1
<1>3. ~ Q < q
  <2> SUFFICES ASSUME Q < q PROVE FALSE
    OBVIOUS
  <2>1. Q + 1 <= q
    BY <1>1
  <2>2. (Q + 1) * b <= q * b
    BY <2>1, <1>1, Products
  <2>3. (Q + 1) * b = Q * b + b
    BY <1>1, Products
  <2>4. q * b \in Int /\ Q * b \in Int
    BY <1>1, Products
  <2> QED BY <2>2, <2>3, <2>4, <1>1
<1>4. Q = q
  BY <1>1, <1>2, <1>3
<1>5. R = r
  <2>1. q * b \in Int
    BY Products
  <2> QED BY <1>1, <1>4, <2>1
<1> QED BY <1>4, <1>5 DEF Q, R

\* Two multiples less than one step apart are in order.
LEMMA MultiplesApart ==
  ASSUME NEW b \in Nat \ {0}, NEW x \in Int, NEW y \in Int, x * b < y * b + b
  PROVE  x * b <= y * b
<1>1. ~ y + 1 <= x
  <2> SUFFICES ASSUME y + 1 <= x PROVE FALSE
    OBVIOUS
  <2>1. (y + 1) * b <= x * b
    BY Products
  <2>2. (y + 1) * b = y * b + b /\ x * b \in Int /\ y * b \in Int
    BY Products
  <2> QED BY <2>1, <2>2
<1>2. x <= y
  BY <1>1
<1> QED BY <1>2, Products

\* The least-number principle, for sets.
LEMMA LeastNumber ==
  ASSUME NEW T \in SUBSET Nat, T # {}
  PROVE  \E n \in T : \A m \in T : n <= m
<1>1. PICK n \in T : \A m \in T : ~ (<<m, n>> \in OpToRel(<, Nat))
  BY NatLessThanWellFounded, WFMin, Zenon
<1>2. ASSUME NEW m \in T, m < n PROVE FALSE
  <2>1. <<m, n>> \in Nat \X Nat
    OBVIOUS
  <2>2. <<m, n>> \in OpToRel(<, Nat)
    BY <1>2, <2>1 DEF OpToRel
  <2> QED BY <1>1, <2>2
<1> QED BY <1>2

-----------------------------------------------------------------------------
(* Ints. *)

\* The largest power of two an int holds.
Largest == 2 ^ (IntBits - 2)

\* An int is less than twice the largest power of two; four times it is where it wraps.
LEMMA Widths ==
  /\ Largest \in Nat \ {0} /\ PageSize < Largest
  /\ 2 ^ (IntBits - 1) = 2 * Largest
  /\ 2 ^ IntBits = 4 * Largest
  /\ PageSize \in Nat /\ HeaderSize \in Nat \ {0} /\ HeaderSize < PageSize
<1>1. /\ IntBits \in Nat /\ IntBits - 2 \in 0 .. IntBits - 1 /\ IntBits - 1 \in 0 .. IntBits - 1
      /\ (IntBits - 2) + 1 = IntBits - 1 /\ (IntBits - 1) + 1 = IntBits
  BY SizeAssumption
<1>2. /\ 2 ^ (IntBits - 2) \in Nat \ {0} /\ 2 ^ (IntBits - 1) = 2 * 2 ^ (IntBits - 2)
      /\ 2 ^ IntBits = 2 * 2 ^ (IntBits - 1)
  BY <1>1, PowersAssumption, Zenon
<1>3. 2 ^ IntBits = 4 * 2 ^ (IntBits - 2)
  BY <1>2
<1> QED BY <1>2, <1>3, SizeAssumption DEF Largest

\* Every power of two an int holds divides the largest.
LEMMA PowersDivide ==
  ASSUME NEW e \in 0 .. IntBits - 2
  PROVE  2 ^ e \in Nat \ {0} /\ \E c \in Nat : Largest = c * 2 ^ e
<1> DEFINE top == IntBits - 2
<1> DEFINE divides(x) == \E c \in Nat : Largest = c * 2 ^ x
<1> DEFINE bad == {d \in 0 .. top : ~ divides(top - d)}
<1>1. IntBits \in Nat /\ top \in Nat
  BY SizeAssumption
<1>2. \A x \in 0 .. top : 2 ^ x \in Nat \ {0} /\ 2 ^ (x + 1) = 2 * 2 ^ x
  BY <1>1, PowersAssumption
<1>3. divides(top - 0)
  <2>1. top - 0 = top
    BY <1>1
  <2>2. Largest = 1 * 2 ^ top /\ 1 \in Nat
    BY <1>1, <1>2 DEF Largest
  <2> QED BY <2>1, <2>2, Zenon
<1>4. bad = {}
  <2> SUFFICES ASSUME bad # {} PROVE FALSE
    OBVIOUS
  <2>1. bad \in SUBSET Nat
    BY <1>1
  <2>2. PICK d \in bad : \A x \in bad : d <= x
    BY <2>1, LeastNumber, Zenon
  <2>3. d \in 0 .. top /\ d # 0 /\ ~ divides(top - d)
    BY <1>3
  <2>4. d - 1 \in 0 .. top /\ ~ (d <= d - 1) /\ top - d \in 0 .. top /\ top - (d - 1) = (top - d) + 1
    BY <2>3, <1>1
  <2>5. divides(top - (d - 1))
    BY <2>2, <2>4
  <2>6. PICK c \in Nat : Largest = c * 2 ^ ((top - d) + 1)
    BY <2>4, <2>5, Zenon
  <2>7. 2 ^ (top - d) \in Nat /\ 2 ^ ((top - d) + 1) = 2 * 2 ^ (top - d)
    BY <1>2, <2>4, Zenon
  <2>8. PICK y \in Nat : y = 2 ^ (top - d)
    BY <2>7, Zenon
  <2>9. 2 * c \in Nat /\ c * (2 * y) = (2 * c) * y
    OBVIOUS
  <2>10. Largest = (2 * c) * 2 ^ (top - d)
    BY <2>6, <2>7, <2>8, <2>9, Zenon
  <2> QED BY <2>3, <2>9, <2>10, Zenon
<1>5. top - e \in 0 .. top /\ top - (top - e) = e
  BY <1>1
<1>6. divides(e)
  BY <1>4, <1>5
<1> HIDE DEF divides
<1>7. 2 ^ e \in Nat \ {0}
  BY <1>2
<1> QED BY <1>6, <1>7 DEF divides

\* What an int holds is what it is; the first sum too large comes out at the other end.
LEMMA IntHolds ==
  /\ \A x \in -(2 * Largest) .. 2 * Largest - 1 : int(x) = x
  /\ int(2 * Largest) = -(2 * Largest)
<1> DEFINE L == Largest
<1>1. L \in Nat \ {0} /\ 2 ^ (IntBits - 1) = 2 * L /\ 2 ^ IntBits = 4 * L
  BY Widths
<1> HIDE DEF L
<1>2. ASSUME NEW x \in -(2 * L) .. 2 * L - 1
      PROVE  ((x + 2 * L) % (4 * L)) - 2 * L = x
  <2>1. /\ 0 \in Int /\ x + 2 * L \in Int /\ 4 * L \in Nat \ {0} /\ x + 2 * L \in 0 .. 4 * L - 1
        /\ x + 2 * L = 0 * (4 * L) + (x + 2 * L)
    BY <1>1
  <2>2. (x + 2 * L) % (4 * L) = x + 2 * L
    BY <2>1, DivisionUnique, Zenon
  <2>3. (x + 2 * L) - 2 * L = x
    BY <1>1
  <2> QED BY <2>2, <2>3, Zenon
<1>3. ((2 * L + 2 * L) % (4 * L)) - 2 * L = -(2 * L)
  <2>1. /\ 2 * L + 2 * L \in Int /\ 4 * L \in Nat \ {0} /\ 0 \in 0 .. 4 * L - 1 /\ 1 \in Int
        /\ 2 * L + 2 * L = 1 * (4 * L) + 0
    BY <1>1
  <2>2. (2 * L + 2 * L) % (4 * L) = 0
    BY <2>1, DivisionUnique, Zenon
  <2>3. 0 - 2 * L = -(2 * L)
    BY <1>1
  <2> QED BY <2>2, <2>3, Zenon
<1>4. \A x : int(x) = ((x + 2 * L) % (4 * L)) - 2 * L
  BY <1>1, Zenon DEF int
<1>5. /\ \A x \in -(2 * L) .. 2 * L - 1 : int(x) = x
      /\ int(2 * L) = -(2 * L)
  BY <1>2, <1>3, <1>4, Zenon
<1> QED BY <1>5, Zenon DEF L

-----------------------------------------------------------------------------
(* Layouts. *)

\* Align answers the least multiple there is, no more than the largest power of two.
LEMMA AlignIsLeast ==
  ASSUME NEW n \in 1 .. PageSize, NEW to, isPowerOfTwo(to)
  PROVE  /\ to \in Nat \ {0}
         /\ Align(n, to) \in n .. Largest
         /\ Align(n, to) % to = 0
         /\ \A x \in Int : x >= n /\ x % to = 0 => Align(n, to) <= x
<1>1. PICK e \in 0 .. IntBits - 2 : to = 2 ^ e
  BY DEF isPowerOfTwo
<1>2. to \in Nat \ {0} /\ \E c \in Nat : Largest = c * to
  BY <1>1, PowersDivide, Zenon
<1>3. PICK b \in Nat \ {0} : b = to
  BY <1>2, Zenon
<1>4. PICK c \in Nat : Largest = c * b
  BY <1>2, <1>3, Zenon
<1>5. PICK L \in Nat : L = Largest
  BY Widths, Zenon
<1>6. L # 0 /\ L = c * b /\ n < L /\ n \in Nat \ {0}
  BY <1>4, <1>5, Widths
<1>7. b <= L
  <2>1. c # 0
    BY <1>6
  <2>2. 1 * b <= c * b
    BY <2>1, Products
  <2> QED BY <1>6, <2>2
<1>8. /\ n % b \in 0 .. b - 1 /\ n \div b \in Int /\ n = (n \div b) * b + (n % b)
  BY Division
<1>9. PICK m \in Int : m = n % b
  <2>1. n % b \in Int
    BY <1>8
  <2> QED BY <2>1, Zenon
<1>10. PICK q \in Int : q = n \div b
  BY <1>8, Zenon
<1>11. m \in 0 .. b - 1 /\ n = q * b + m
  BY <1>8, <1>9, <1>10, Zenon
<1>12. CASE m = 0
  <2>1. Align(n, b) = n
    BY <1>9, <1>12 DEF Align
  <2>2. Align(n, b) \in n .. Largest
    BY <1>5, <1>6, <2>1
  <2>3. Align(n, b) % b = 0
    BY <1>9, <1>12, <2>1, Zenon
  <2>4. \A x \in Int : x >= n => n <= x
    OBVIOUS
  <2> QED BY <1>2, <1>3, <2>1, <2>2, <2>3, <2>4, Zenon
<1>13. CASE m # 0
  <2>1. b # 1 /\ ~ (b <= 1 \/ n <= 0)
    BY <1>6, <1>11, <1>13
  <2>2. Align(n, b) = int(int(n + b) - m)
    BY <1>9, <1>13, <2>1, Zenon DEF Align
  <2>3. n + b \in -(2 * L) .. 2 * L - 1 /\ (n + b) - m \in -(2 * L) .. 2 * L - 1
    BY <1>6, <1>7, <1>11
  <2>4. \A x \in -(2 * L) .. 2 * L - 1 : int(x) = x
    BY <1>5, IntHolds, Zenon
  <2>5. Align(n, b) = (n + b) - m
    BY <2>2, <2>3, <2>4, Zenon
  <2>6. /\ q + 1 \in Int /\ (q + 1) * b \in Int /\ q * b \in Int /\ (q + 1) * b = q * b + b
    BY Products
  <2>7. PICK y \in Int : y = (q + 1) * b
    BY <2>6, Zenon
  <2>8. (n + b) - m = q * b + b /\ q * b < n /\ n < q * b + b
    BY <1>11, <1>13, <2>6
  <2>9. Align(n, b) = y
    BY <2>5, <2>6, <2>7, <2>8, Zenon
  <2>10. y % b = 0
    <3>1. y = (q + 1) * b + 0 /\ 0 \in 0 .. b - 1
      BY <2>6, <2>7
    <3> QED BY <2>6, <3>1, DivisionUnique, Zenon
  <2>11. \A k \in Int : n <= k * b => y <= k * b
    <3> SUFFICES ASSUME NEW k \in Int, n <= k * b PROVE y <= k * b
      OBVIOUS
    <3>1. k * b \in Int
      BY Products
    <3>2. (q + 1) * b < k * b + b
      BY <2>6, <2>8, <3>1
    <3>3. (q + 1) * b <= k * b
      BY <2>6, <3>2, MultiplesApart
    <3> QED BY <2>7, <3>3, Zenon
  <2>12. y <= L
    <3>1. n <= c * b /\ c \in Int
      BY <1>6
    <3> QED BY <1>6, <2>11, <3>1, Zenon
  <2>13. n <= y
    BY <2>6, <2>7, <2>8
  <2>14. \A x \in Int : x >= n /\ x % b = 0 => y <= x
    <3> SUFFICES ASSUME NEW x \in Int, x >= n, x % b = 0 PROVE y <= x
      OBVIOUS
    <3>1. x \div b \in Int /\ x = (x \div b) * b + (x % b)
      BY Division
    <3>2. PICK k \in Int : k = x \div b
      BY <3>1, Zenon
    <3>3. k * b \in Int
      BY Products
    <3>4. x = k * b + 0
      BY <3>1, <3>2, Zenon
    <3>5. x = k * b /\ n <= k * b
      BY <3>3, <3>4
    <3> QED BY <2>11, <3>5, Zenon
  <2>15. y \in n .. L
    BY <2>7, <2>12, <2>13
  <2> QED BY <1>2, <1>3, <1>5, <2>9, <2>10, <2>14, <2>15, Zenon
<1> QED BY <1>12, <1>13

\* Where one slot has room, as many are counted as have, and no sum wraps.
LEMMA RoomForSlots ==
  ASSUME NEW base \in 1 .. Largest, NEW slot \in 1 .. Largest, base + slot <= PageSize
  PROVE  /\ int(base + slot) = base + slot
         /\ quot(int(PageSize - base), slot) = (PageSize - base) \div slot
         /\ (PageSize - base) \div slot \in Nat \ {0}
         /\ int(base + int(((PageSize - base) \div slot) * slot))
              = base + ((PageSize - base) \div slot) * slot
         /\ base + ((PageSize - base) \div slot) * slot <= PageSize
         /\ PageSize < base + ((PageSize - base) \div slot) * slot + slot
<1>1. PICK L \in Nat \ {0} : L = Largest
  BY Widths, Zenon
<1>2. PICK P \in Nat : P = PageSize
  BY Widths, Zenon
<1>3. P < L /\ base \in 1 .. L /\ slot \in 1 .. L /\ base + slot <= P
  BY <1>1, <1>2, Widths
<1>4. \A x \in -(2 * L) .. 2 * L - 1 : int(x) = x
  BY <1>1, IntHolds, Zenon
<1>5. base + slot \in -(2 * L) .. 2 * L - 1 /\ P - base \in -(2 * L) .. 2 * L - 1
      /\ P - base \in Nat /\ P - base >= 0 /\ slot \in Nat \ {0}
  BY <1>3
<1>6. PICK room \in Nat : room = P - base
  BY <1>5, Zenon
<1>7. /\ room % slot \in 0 .. slot - 1 /\ room \div slot \in Int
      /\ room = (room \div slot) * slot + (room % slot)
  <2>1. room \in Int
    OBVIOUS
  <2> QED BY <1>5, <2>1, Division, Zenon
<1>8. PICK c \in Int : c = room \div slot
  BY <1>7, Zenon
<1>9. PICK m \in 0 .. slot - 1 : m = room % slot
  BY <1>7, Zenon
<1>10. room = c * slot + m
  BY <1>7, <1>8, <1>9, Zenon
<1>11. c * slot \in Int
  BY <1>3, Products
<1>12. PICK w \in Int : w = c * slot
  BY <1>11, Zenon
<1>13. room = w + m
  BY <1>10, <1>12, Zenon
<1>14. slot <= room /\ w <= room /\ room < w + slot /\ w >= 1
  BY <1>3, <1>5, <1>6, <1>13
<1>15. c >= 1
  <2> SUFFICES ASSUME c <= 0 PROVE FALSE
    OBVIOUS
  <2>1. c * slot <= 0 * slot
    BY <1>5, Products
  <2>2. w <= 0
    BY <2>1, <1>12, <1>5
  <2> QED BY <2>2, <1>14
<1>16. c \in Nat \ {0}
  BY <1>15
<1>17. w \in -(2 * L) .. 2 * L - 1 /\ base + w \in -(2 * L) .. 2 * L - 1
       /\ base + w <= P /\ P < base + w + slot
  BY <1>3, <1>6, <1>14
<1>18. int(base + slot) = base + slot
  BY <1>4, <1>5, Zenon
<1>19. int(P - base) = room /\ room >= 0
  BY <1>4, <1>5, <1>6, Zenon
<1>20. quot(int(P - base), slot) = c
  BY <1>8, <1>19, Zenon DEF quot
<1>21. int(base + int(w)) = base + w
  BY <1>4, <1>17, Zenon
<1>22. (P - base) \div slot = c /\ (PageSize - base) \div slot = c
  BY <1>2, <1>6, <1>8, Zenon
<1> QED BY <1>2, <1>12, <1>16, <1>17, <1>18, <1>20, <1>21, <1>22, Zenon

\* Where not even one has room, one of the two checks says so: the first, or the
\* second where the first sum is one too large for an int.
LEMMA NoRoomForSlots ==
  ASSUME NEW base \in 1 .. Largest, NEW slot \in 1 .. Largest, ~ (base + slot <= PageSize)
  PROVE  ~ (/\ int(base + slot) <= PageSize
            /\ int(base + int(quot(int(PageSize - base), slot) * slot)) <= PageSize)
<1>1. PICK L \in Nat \ {0} : L = Largest
  BY Widths, Zenon
<1>2. PICK P \in Nat : P = PageSize
  BY Widths, Zenon
<1>3. P < L /\ base \in 1 .. L /\ slot \in 1 .. L /\ ~ (base + slot <= P) /\ P > 0
  BY <1>1, <1>2, Widths
<1>4. \A x \in -(2 * L) .. 2 * L - 1 : int(x) = x
  BY <1>1, IntHolds, Zenon
<1>5. CASE base + slot # 2 * L
  <2>1. base + slot \in -(2 * L) .. 2 * L - 1
    BY <1>3, <1>5
  <2>2. int(base + slot) = base + slot
    BY <1>4, <2>1, Zenon
  <2> QED BY <1>2, <1>3, <2>2, Zenon
<1>6. CASE base + slot = 2 * L
  <2>1. base = L /\ slot = L
    BY <1>3, <1>6
  <2>2. P - L \in -(2 * L) .. 2 * L - 1 /\ ~ (P - L >= 0) /\ L \in -(2 * L) .. 2 * L - 1
        /\ 0 \in -(2 * L) .. 2 * L - 1 /\ 0 * L = 0 /\ L + 0 = L /\ ~ (L <= P)
    BY <1>3
  <2>3. int(P - L) = P - L
    BY <1>4, <2>2, Zenon
  <2>4. (-(P - L)) \div L = 0
    <3>1. PICK d \in Int : d = -(P - L)
      OBVIOUS
    <3>2. d \in 0 .. L - 1 /\ d = 0 * L + d /\ 0 \in Int
      BY <1>3, <3>1
    <3>3. d \div L = 0
      BY <3>2, DivisionUnique, Zenon
    <3> QED BY <3>1, <3>3, Zenon
  <2>5. -0 = 0
    <3>1. /\ \A z \in Int : -z \in Int /\ (z <= 0 => -z >= 0) /\ (z >= 0 => -z <= 0)
          /\ 0 \in Int /\ 0 <= 0 /\ 0 >= 0
      OBVIOUS
    <3>2. PICK y \in Int : y = -0
      BY <3>1, Zenon
    <3>3. y >= 0 /\ y <= 0
      BY <3>1, <3>2, Zenon
    <3>4. y = 0
      BY <3>3
    <3> QED BY <3>2, <3>4, Zenon
  <2>6. quot(int(P - L), L) = 0
    BY <2>2, <2>3, <2>4, <2>5, Zenon DEF quot
  <2>7. int(L + int(quot(int(P - L), L) * L)) = L
    BY <1>4, <2>2, <2>6, Zenon
  <2> QED BY <1>2, <2>1, <2>2, <2>7, Zenon
<1> QED BY <1>5, <1>6

\* NewLayout grants what has room, and nothing else.
LEMMA LayoutDivides ==
  ASSUME NEW size \in 0 .. PageSize + 1, NEW align, isPowerOfTwo(align)
  PROVE  LET base == Align(HeaderSize, align)
             slot == Align(size, align) IN
         NewLayout(size, align) =
           IF size > 0 /\ size <= PageSize /\ base + slot <= PageSize
           THEN Divided(size, base, slot, (PageSize - base) \div slot)
           ELSE NoLayout
<1> DEFINE base == Align(HeaderSize, align)
<1> DEFINE slot == Align(size, align)
<1>1. size \in 1 .. PageSize <=> size > 0 /\ size <= PageSize
  BY Widths
<1>2. CASE ~ (size \in 1 .. PageSize)
  BY <1>1, <1>2, Zenon DEF NewLayout
<1>3. CASE size \in 1 .. PageSize
  <2>1. HeaderSize \in 1 .. PageSize
    BY Widths
  <2>2. base \in HeaderSize .. Largest /\ slot \in size .. Largest
    BY <1>3, <2>1, AlignIsLeast, Zenon
  <2>3. base \in 1 .. Largest /\ slot \in 1 .. Largest /\ slot > 0
    BY <1>3, <2>2, Widths
  <2> HIDE DEF base, slot
  <2>4. CASE base + slot <= PageSize
    <3>1. /\ int(base + slot) <= PageSize
          /\ quot(int(PageSize - base), slot) = (PageSize - base) \div slot
          /\ int(base + int(((PageSize - base) \div slot) * slot)) <= PageSize
      BY <2>3, <2>4, RoomForSlots, Zenon
    <3> QED BY <1>1, <1>3, <2>3, <2>4, <3>1, Zenon DEF NewLayout, base, slot
  <2>5. CASE ~ (base + slot <= PageSize)
    <3>1. ~ (/\ int(base + slot) <= PageSize
             /\ int(base + int(quot(int(PageSize - base), slot) * slot)) <= PageSize)
      BY <2>3, <2>5, NoRoomForSlots, Zenon
    <3> QED BY <2>5, <3>1, Zenon DEF NewLayout, base, slot
  <2> QED BY <2>4, <2>5
<1> QED BY <1>2, <1>3

-----------------------------------------------------------------------------
(* The inductive invariant. *)

\* The layout is what NewLayout answers.
Asked ==
  /\ asked.recordSize \in 0 .. PageSize + 1
  /\ layout = NewLayout(asked.recordSize, asked.align)

PageType ==
  /\ page.itemCount \in Nat /\ page.freeStart \in Nat
  /\ \E length \in Lengths : page.bytes \in [HeaderSize .. length - 1 -> Bytes \cup Stale \cup {0}]

\* Every record stored is in its slot, whole, with zeros behind it.
Kept ==
  \A i \in DOMAIN stored :
    /\ i \in 0 .. layout.capacity - 1
    /\ stored[i] \in [1 .. layout.recordSize -> Bytes]
    /\ \A j \in 0 .. layout.slotSize - 1 :
         /\ Offset(layout, i) + j \in DOMAIN page.bytes
         /\ page.bytes[Offset(layout, i) + j] =
              IF j < layout.recordSize THEN stored[i][j + 1] ELSE 0

\* The count is one more than the last slot with a record, and the free start is behind
\* that slot; from there on the page is as it was.
Covered ==
  /\ \A i \in DOMAIN stored : i + 1 <= page.itemCount
  /\ page.itemCount # 0 => page.itemCount - 1 \in DOMAIN stored
  /\ page.freeStart = IF page.itemCount = 0 THEN HeaderSize ELSE Offset(layout, page.itemCount)
  /\ \E old \in Stale : \A b \in DOMAIN page.bytes : b >= page.freeStart => page.bytes[b] = old

Inv == Asked /\ PageType /\ Kept /\ Covered

-----------------------------------------------------------------------------
(* Slots. *)

\* A layout with a slot in it has records that fit their slots, behind the header.
LEMMA LayoutGranted ==
  ASSUME Asked, NEW i \in 0 .. layout.capacity - 1
  PROVE  /\ layout.recordSize \in Nat \ {0} /\ layout.slotSize \in Nat \ {0}
         /\ layout.recordSize <= layout.slotSize
         /\ layout.base \in Nat /\ HeaderSize <= layout.base
         /\ layout.capacity \in Nat
<1> DEFINE size == asked.recordSize
<1> DEFINE align == asked.align
<1> DEFINE base == Align(HeaderSize, align)
<1> DEFINE slot == Align(size, align)
<1> DEFINE capacity == (PageSize - base) \div slot
<1>1. layout # NoLayout
  <2>1. NoLayout.capacity = 0
    BY DEF NoLayout
  <2> QED BY <2>1
<1>2. isPowerOfTwo(align)
  BY <1>1 DEF Asked, NewLayout
<1>3. size \in 0 .. PageSize + 1 /\ layout = NewLayout(size, align)
  BY DEF Asked
<1>4. layout = IF size > 0 /\ size <= PageSize /\ base + slot <= PageSize
               THEN Divided(size, base, slot, capacity) ELSE NoLayout
  BY <1>2, <1>3, LayoutDivides, Zenon
<1> HIDE DEF size, align, base, slot, capacity
<1>5. size > 0 /\ size <= PageSize /\ base + slot <= PageSize
      /\ layout = Divided(size, base, slot, capacity)
  BY <1>1, <1>4, Zenon
<1>6. /\ layout.recordSize = size /\ layout.slotSize = slot
      /\ layout.base = base /\ layout.capacity = capacity
  BY <1>5 DEF Divided
<1>7. size \in 1 .. PageSize /\ HeaderSize \in 1 .. PageSize
  BY <1>3, <1>5, Widths
<1>8. base \in HeaderSize .. Largest /\ slot \in size .. Largest
  BY <1>2, <1>7, AlignIsLeast, Zenon DEF base, slot
<1>9. base \in 1 .. Largest /\ slot \in 1 .. Largest
  BY <1>7, <1>8, Widths
<1>10. capacity \in Nat \ {0}
  BY <1>5, <1>9, RoomForSlots, Zenon DEF capacity
<1>11. size \in Nat \ {0} /\ slot \in Nat \ {0} /\ size <= slot /\ base \in Nat /\ HeaderSize <= base
       /\ capacity \in Nat
  BY <1>7, <1>8, <1>9, <1>10, Widths
<1> QED BY <1>6, <1>11, Zenon

\* Slots follow one another.
LEMMA SlotsApart ==
  ASSUME NEW l, l.base \in Nat, l.slotSize \in Nat, NEW i \in Nat
  PROVE  /\ Offset(l, i) \in Nat /\ l.base <= Offset(l, i)
         /\ Offset(l, i + 1) = Offset(l, i) + l.slotSize
         /\ \A s \in Nat : i < s => Offset(l, i) + l.slotSize <= Offset(l, s)
<1>1. PICK base \in Nat : base = l.base
  BY Zenon
<1>2. PICK slot \in Nat : slot = l.slotSize
  BY Zenon
<1>3. \A s \in Nat : Offset(l, s) = base + s * slot
  BY <1>1, <1>2, Zenon DEF Offset
<1>4. \A s \in Nat : s * slot \in Nat
  BY Products
<1>5. (i + 1) * slot = i * slot + slot
  BY Products
<1>6. ASSUME NEW s \in Nat, i < s
      PROVE  (base + i * slot) + slot <= base + s * slot
  <2>1. (i + 1) * slot <= s * slot
    BY <1>6, Products
  <2> QED BY <1>4, <1>5, <2>1
<1>7. /\ base + i * slot \in Nat /\ base <= base + i * slot /\ i + 1 \in Nat
      /\ base + (i + 1) * slot = (base + i * slot) + slot
  BY <1>4, <1>5
<1> QED BY <1>1, <1>2, <1>3, <1>6, <1>7, Zenon

LEMMA MaxIs ==
  ASSUME NEW S, NEW m \in S, S \subseteq Int, \A x \in S : x <= m
  PROVE  Max(S) = m
<1>1. Max(S) = CHOOSE x \in S : \A y \in S : x >= y
  BY DEF Max
<1>2. \A x \in S : (\A y \in S : x >= y) <=> x = m
  <2> SUFFICES ASSUME NEW x \in S PROVE (\A y \in S : x >= y) <=> x = m
    OBVIOUS
  <2>1. ASSUME \A y \in S : x >= y PROVE x = m
    <3>1. x >= m /\ x <= m /\ x \in Int /\ m \in Int
      BY <2>1
    <3> QED BY <3>1
  <2>2. ASSUME NEW y \in S PROVE m >= y
    <3>1. y \in Int /\ m \in Int /\ y <= m
      OBVIOUS
    <3> QED BY <3>1
  <2> QED BY <2>1, <2>2, Zenon
<1> QED BY <1>1, <1>2

\* The count after a record was put in slot i.
LEMMA ItemsAfterIs ==
  ASSUME page.itemCount \in Nat, NEW i \in Nat
  PROVE  /\ ItemsAfter(page, i) \in Nat \ {0}
         /\ page.itemCount <= ItemsAfter(page, i) /\ i + 1 <= ItemsAfter(page, i)
         /\ ItemsAfter(page, i) \in {page.itemCount, i + 1}
<1> DEFINE n == page.itemCount
<1>1. n \in Nat
  OBVIOUS
<1> HIDE DEF n
<1>2. CASE n >= i + 1
  <2>1. n \in {n, i + 1} /\ {n, i + 1} \subseteq Int /\ \A x \in {n, i + 1} : x <= n
    BY <1>1, <1>2
  <2>2. Max({n, i + 1}) = n
    BY <2>1, MaxIs, Zenon
  <2>3. ItemsAfter(page, i) = n
    BY <2>2, Zenon DEF ItemsAfter, n
  <2>4. n \in Nat \ {0} /\ n <= n /\ i + 1 <= n
    BY <1>1, <1>2
  <2> QED BY <2>3, <2>4, Zenon DEF n
<1>3. CASE ~ (n >= i + 1)
  <2>1. i + 1 \in {n, i + 1} /\ {n, i + 1} \subseteq Int /\ \A x \in {n, i + 1} : x <= i + 1
    BY <1>1, <1>3
  <2>2. Max({n, i + 1}) = i + 1
    BY <2>1, MaxIs, Zenon
  <2>3. ItemsAfter(page, i) = i + 1
    BY <2>2, Zenon DEF ItemsAfter, n
  <2>4. i + 1 \in Nat \ {0} /\ n <= i + 1 /\ i + 1 <= i + 1
    BY <1>1, <1>3
  <2> QED BY <2>3, <2>4, Zenon DEF n
<1> QED BY <1>2, <1>3

\* A sequence that fills a slot.
LEMMA RecordLength ==
  ASSUME NEW n \in Nat, NEW B, NEW rec \in [1 .. n -> B]
  PROVE  Len(rec) = n
OBVIOUS

-----------------------------------------------------------------------------
(* Init and Put. *)

LEMMA InitInv ==
  ASSUME Init
  PROVE  Inv
<1>1. Asked
  BY DEF Init, Asked
<1>2. PICK length \in Lengths, old \in Stale :
        page = [itemCount |-> 0, freeStart |-> HeaderSize,
                bytes |-> [b \in HeaderSize .. length - 1 |-> old]]
  BY DEF Init
<1>3. page.itemCount = 0 /\ page.freeStart = HeaderSize
      /\ page.bytes = [b \in HeaderSize .. length - 1 |-> old]
  BY <1>2
<1>4. HeaderSize \in Nat
  BY SizeAssumption
<1>5. PageType
  <2>1. page.bytes \in [HeaderSize .. length - 1 -> Bytes \cup Stale \cup {0}]
    BY <1>3
  <2> QED BY <1>3, <1>4, <2>1 DEF PageType
<1>6. DOMAIN stored = {}
  BY DEF Init
<1>7. Kept
  BY <1>6 DEF Kept
<1>8. Covered
  <2>1. \A b \in DOMAIN page.bytes : b >= page.freeStart => page.bytes[b] = old
    BY <1>3
  <2> QED BY <1>3, <1>6, <2>1, Zenon DEF Covered
<1> QED BY <1>1, <1>5, <1>7, <1>8 DEF Inv

LEMMA PutInv ==
  ASSUME Inv, NEW i \in 0 .. layout.capacity - 1, NEW rec \in [1 .. layout.recordSize -> Bytes],
         Put(i, rec)
  PROVE  Inv'
<1> DEFINE start == Offset(layout, i)
<1> DEFINE size == layout.slotSize
<1> DEFINE D == DOMAIN page.bytes
<1> DEFINE after == ItemsAfter(page, i)
<1>1. Asked /\ PageType /\ Kept /\ Covered
  BY DEF Inv
<1>2. /\ layout.recordSize \in Nat \ {0} /\ size \in Nat \ {0}
      /\ layout.recordSize <= size /\ layout.base \in Nat /\ HeaderSize <= layout.base
      /\ layout.capacity \in Nat
  BY <1>1, LayoutGranted, Zenon
<1>3. i \in Nat
  BY <1>2
<1>4. /\ asked' = asked /\ layout' = layout
      /\ page' = [itemCount |-> after, freeStart |-> Offset(layout, after),
                  bytes |-> Filled(page, start, start + size, rec)]
      /\ stored' = [s \in DOMAIN stored \cup {i} |-> IF s = i THEN rec ELSE stored[s]]
      /\ \A b \in start .. start + size - 1 : b \in D
  BY DEF Put, slotRange
<1>5. page'.itemCount = after /\ page'.freeStart = Offset(layout, after)
      /\ page'.bytes = Filled(page, start, start + size, rec)
  BY <1>4
<1>6. /\ after \in Nat \ {0} /\ page.itemCount <= after /\ i + 1 <= after
      /\ after \in {page.itemCount, i + 1}
  <2>1. page.itemCount \in Nat
    BY <1>1 DEF PageType
  <2> QED BY <1>3, <2>1, ItemsAfterIs, Zenon
<1>7. Asked'
  BY <1>1, <1>4 DEF Asked
<1>8. start \in Nat
  BY <1>2, <1>3, SlotsApart, Zenon
<1>9. Len(rec) = layout.recordSize
  BY <1>2, RecordLength, Zenon
<1>10. /\ DOMAIN page'.bytes = D
       /\ \A b \in D :
            /\ ~ (b \in start .. start + size - 1) => page'.bytes[b] = page.bytes[b]
            /\ b \in start .. start + size - 1 /\ b - start < layout.recordSize =>
                 page'.bytes[b] = rec[b - start + 1]
            /\ b \in start .. start + size - 1 /\ ~ (b - start < layout.recordSize) =>
                 page'.bytes[b] = 0
  <2>1. start .. start + size - 1 = start .. (start + size) - 1
    BY <1>2, <1>8
  <2>2. PICK n : n = layout.recordSize
    OBVIOUS
  <2>3. n = Len(rec)
    BY <1>9, <2>2, Zenon
  <2>4. PICK f : f = page'.bytes
    OBVIOUS
  <2>5. f = Filled(page, start, start + size, rec)
    BY <1>5, <2>4, Zenon
  <2> HIDE DEF start, size
  <2>6. /\ DOMAIN f = D
        /\ \A b \in D :
             /\ ~ (b \in start .. (start + size) - 1) => f[b] = page.bytes[b]
             /\ b \in start .. (start + size) - 1 /\ b - start < n => f[b] = rec[b - start + 1]
             /\ b \in start .. (start + size) - 1 /\ ~ (b - start < n) => f[b] = 0
    BY <2>3, <2>5 DEF Filled
  <2> QED BY <2>1, <2>2, <2>4, <2>6, Zenon
<1>11. PICK length \in Lengths : page.bytes \in [HeaderSize .. length - 1 -> Bytes \cup Stale \cup {0}]
  BY <1>1 DEF PageType
<1>12. \A b \in start .. start + size - 1 :
         /\ b - start \in Nat
         /\ b - start < layout.recordSize => rec[b - start + 1] \in Bytes
  BY <1>2, <1>8
<1>13. PageType'
  <2>1. D = HeaderSize .. length - 1
    BY <1>11
  <2>2. \A b \in D : page'.bytes[b] \in Bytes \cup Stale \cup {0}
    BY <1>10, <1>11, <1>12, <2>1
  <2>3. page'.bytes = [b \in D |-> page'.bytes[b]]
    BY <1>5 DEF Filled
  <2>4. page'.bytes \in [HeaderSize .. length - 1 -> Bytes \cup Stale \cup {0}]
    BY <2>1, <2>2, <2>3
  <2>5. page'.freeStart \in Nat
    BY <1>2, <1>5, <1>6, SlotsApart
  <2> QED BY <1>5, <1>6, <2>4, <2>5 DEF PageType
<1>14. DOMAIN stored' = DOMAIN stored \cup {i} /\ stored'[i] = rec
       /\ \A s \in DOMAIN stored : s # i => stored'[s] = stored[s]
  BY <1>4
<1>15. Kept'
  <2> SUFFICES ASSUME NEW s \in DOMAIN stored'
               PROVE  /\ s \in 0 .. layout.capacity - 1
                      /\ stored'[s] \in [1 .. layout.recordSize -> Bytes]
                      /\ \A j \in 0 .. size - 1 :
                           /\ Offset(layout, s) + j \in DOMAIN page'.bytes
                           /\ page'.bytes[Offset(layout, s) + j] =
                                IF j < layout.recordSize THEN stored'[s][j + 1] ELSE 0
    BY <1>4 DEF Kept
  <2>1. CASE s = i
    <3> SUFFICES ASSUME NEW j \in 0 .. size - 1
                 PROVE  /\ start + j \in DOMAIN page'.bytes
                        /\ page'.bytes[start + j] =
                             IF j < layout.recordSize THEN rec[j + 1] ELSE 0
      BY <1>14, <2>1
    <3>1. start + j \in start .. start + size - 1 /\ (start + j) - start = j
      BY <1>2, <1>8
    <3>2. start + j \in D
      BY <1>4, <3>1
    <3> QED BY <1>10, <3>1, <3>2, Zenon
  <2>2. CASE s # i
    <3>1. s \in DOMAIN stored
      BY <1>14, <2>2
    <3>2. /\ s \in 0 .. layout.capacity - 1
          /\ stored[s] \in [1 .. layout.recordSize -> Bytes]
          /\ \A j \in 0 .. size - 1 :
               /\ Offset(layout, s) + j \in D
               /\ page.bytes[Offset(layout, s) + j] =
                    IF j < layout.recordSize THEN stored[s][j + 1] ELSE 0
      BY <1>1, <3>1 DEF Kept
    <3>3. s \in Nat /\ (s < i \/ i < s)
      BY <1>2, <1>3, <2>2, <3>2
    <3>4. /\ Offset(layout, s) \in Nat
          /\ s < i => Offset(layout, s) + size <= start
          /\ i < s => start + size <= Offset(layout, s)
      BY <1>2, <1>3, <3>3, SlotsApart, Zenon
    <3>5. \A j \in 0 .. size - 1 : ~ (Offset(layout, s) + j \in start .. start + size - 1)
      BY <1>2, <1>8, <3>3, <3>4
    <3>6. \A j \in 0 .. size - 1 : page'.bytes[Offset(layout, s) + j] = page.bytes[Offset(layout, s) + j]
      BY <1>10, <3>2, <3>5, Zenon
    <3>7. stored'[s] = stored[s]
      BY <1>14, <2>2, <3>1, Zenon
    <3> DEFINE padded(rec_, j) == IF j < layout.recordSize THEN rec_[j + 1] ELSE 0
    <3>8. \A j \in 0 .. size - 1 : page.bytes[Offset(layout, s) + j] = padded(stored[s], j)
      BY <3>2
    <3> HIDE DEF padded
    <3>9. \A j \in 0 .. size - 1 :
            /\ Offset(layout, s) + j \in DOMAIN page'.bytes
            /\ page'.bytes[Offset(layout, s) + j] = padded(stored'[s], j)
      BY <1>10, <3>2, <3>6, <3>7, <3>8, Zenon
    <3>10. stored'[s] \in [1 .. layout.recordSize -> Bytes]
      BY <3>2, <3>7, Zenon
    <3> QED BY <3>2, <3>9, <3>10 DEF padded
  <2> QED BY <2>1, <2>2
<1>16. Covered'
  <2>1. \A s \in DOMAIN stored' : s + 1 <= after
    <3>1. \A s \in DOMAIN stored : s \in Nat /\ s + 1 <= page.itemCount
      BY <1>1, <1>2 DEF Covered, Kept
    <3>2. page.itemCount \in Nat
      BY <1>1 DEF PageType
    <3> QED BY <1>6, <1>14, <3>1, <3>2
  <2>2. after - 1 \in DOMAIN stored'
    <3>1. CASE after = i + 1
      <4>1. after - 1 = i
        BY <1>3, <3>1
      <4> QED BY <1>14, <4>1
    <3>2. CASE after # i + 1
      <4>1. page.itemCount # 0 /\ page.itemCount = after
        BY <1>6, <3>2
      <4> QED BY <1>1, <1>14, <4>1 DEF Covered
    <3> QED BY <3>1, <3>2
  <2>3. Offset(layout, after) \in Nat /\ start + size <= Offset(layout, after)
        /\ page.freeStart \in Nat /\ page.freeStart <= Offset(layout, after)
    <3>1. Offset(layout, after) \in Nat /\ layout.base <= Offset(layout, after)
      BY <1>2, <1>6, SlotsApart
    <3>2. start + size <= Offset(layout, after)
      <4>1. i < after
        BY <1>3, <1>6
      <4> QED BY <1>2, <1>3, <1>6, <4>1, SlotsApart
    <3>3. page.itemCount \in Nat /\ page.freeStart \in Nat
      BY <1>1 DEF PageType
    <3>4. CASE page.itemCount = 0
      <4>1. page.freeStart = HeaderSize
        BY <1>1, <3>4 DEF Covered
      <4> QED BY <1>2, <3>1, <3>2, <3>3, <4>1
    <3>5. CASE page.itemCount # 0
      <4>1. page.freeStart = Offset(layout, page.itemCount)
        BY <1>1, <3>5 DEF Covered
      <4>2. CASE page.itemCount = after
        BY <3>1, <3>2, <3>3, <4>1, <4>2
      <4>3. CASE page.itemCount # after
        <5>1. page.itemCount < after
          BY <1>6, <3>3, <4>3
        <5>2. page.freeStart + size <= Offset(layout, after)
          BY <1>2, <1>6, <3>3, <4>1, <5>1, SlotsApart
        <5> QED BY <1>2, <3>1, <3>2, <3>3, <5>2
      <4> QED BY <4>2, <4>3
    <3> QED BY <3>4, <3>5
  <2>4. PICK old \in Stale : \A b \in D : b >= page.freeStart => page.bytes[b] = old
    BY <1>1 DEF Covered
  <2>5. D \subseteq Int
    <3>1. HeaderSize \in Int /\ length \in Int
      BY SizeAssumption, LengthsAssumption
    <3>2. D = HeaderSize .. length - 1
      BY <1>11
    <3> QED BY <3>1, <3>2
  <2>6. \A b \in D : b >= page'.freeStart => page'.bytes[b] = old
    <3> SUFFICES ASSUME NEW b \in D, b >= page'.freeStart PROVE page'.bytes[b] = old
      OBVIOUS
    <3>1. b \in Int /\ b >= Offset(layout, after)
      BY <1>5, <2>5
    <3>2. b >= page.freeStart /\ ~ (b \in start .. start + size - 1)
      BY <1>2, <1>8, <2>3, <3>1
    <3> QED BY <1>10, <2>4, <3>2, Zenon
  <2> QED BY <1>4, <1>5, <1>6, <1>10, <2>1, <2>2, <2>6, Zenon DEF Covered
<1> QED BY <1>7, <1>13, <1>15, <1>16 DEF Inv

LEMMA NextInv ==
  ASSUME Inv, [Next]_vars
  PROVE  Inv'
<1>1. CASE Next
  <2>1. PICK i \in 0 .. layout.capacity - 1 : \E rec \in [1 .. layout.recordSize -> Bytes] : Put(i, rec)
    BY <1>1 DEF Next
  <2>2. PICK rec \in [1 .. layout.recordSize -> Bytes] : Put(i, rec)
    BY <2>1
  <2> QED BY <2>2, PutInv
<1>2. CASE UNCHANGED vars
  <2>1. asked' = asked /\ layout' = layout /\ page' = page /\ stored' = stored
    BY <1>2 DEF vars
  <2> QED BY <2>1 DEF Inv, Asked, PageType, Kept, Covered
<1> QED BY <1>1, <1>2

-----------------------------------------------------------------------------
(* The theorems. *)

\* In every state the layout is what NewLayout answers, each record that was put is
\* whole in its slot, and the header and the untouched bytes are as Put leaves them.
THEOREM SlotsInvariant == Spec => []Inv
<1>1. Init => Inv
  BY InitInv
<1>2. Inv /\ [Next]_vars => Inv'
  BY NextInv
<1> QED BY <1>1, <1>2, PTL DEF Spec

LEMMA MinIs ==
  ASSUME NEW S, NEW m \in S, S \subseteq Int, \A x \in S : m <= x
  PROVE  Min(S) = m
<1>1. Min(S) = CHOOSE x \in S : \A y \in S : x =< y
  BY DEF Min
<1>2. \A x \in S : (\A y \in S : x =< y) <=> x = m
  <2> SUFFICES ASSUME NEW x \in S PROVE (\A y \in S : x =< y) <=> x = m
    OBVIOUS
  <2>1. ASSUME \A y \in S : x =< y PROVE x = m
    <3>1. x <= m /\ m <= x /\ x \in Int /\ m \in Int
      BY <2>1
    <3> QED BY <3>1
  <2> QED BY <2>1, Zenon
<1> QED BY <1>1, <1>2

\* Among the sizes of a page, Align answers the least multiple, if there is one.
LEMMA LeastMultiple ==
  ASSUME NEW n \in 1 .. PageSize, NEW align, isPowerOfTwo(align)
  PROVE  LET multiples == {b \in n .. PageSize : b % align = 0} IN
         /\ multiples # {} <=> Align(n, align) <= PageSize
         /\ multiples # {} => Min(multiples) = Align(n, align)
<1> DEFINE multiples == {b \in n .. PageSize : b % align = 0}
<1>1. PICK a \in Int : a = Align(n, align)
  <2>1. Align(n, align) \in n .. Largest
    BY AlignIsLeast, Zenon
  <2> QED BY <2>1, Widths
<1>2. a \in n .. Largest /\ a % align = 0 /\ \A x \in Int : x >= n /\ x % align = 0 => a <= x
  BY <1>1, AlignIsLeast, Zenon
<1>3. n \in Int /\ PageSize \in Int /\ Largest \in Int
  BY Widths
<1>4. multiples \subseteq Int /\ \A x \in multiples : a <= x /\ x <= PageSize
  BY <1>2, <1>3
<1>5. a <= PageSize => a \in multiples
  BY <1>2, <1>3
<1>6. multiples # {} => a <= PageSize
  <2> SUFFICES ASSUME NEW x \in multiples PROVE a <= PageSize
    OBVIOUS
  <2>1. x \in Int /\ a <= x /\ x <= PageSize
    BY <1>4
  <2> HIDE DEF multiples
  <2> QED BY <1>3, <2>1
<1> HIDE DEF multiples
<1>7. multiples # {} => Min(multiples) = a
  BY <1>4, <1>5, <1>6, MinIs, Zenon
<1> QED BY <1>1, <1>5, <1>6, <1>7, Zenon DEF multiples

\* What NewLayout answers is tight.
LEMMA AskedIsTight ==
  ASSUME Asked
  PROVE  LayoutIsTight
<1> DEFINE size == asked.recordSize
<1> DEFINE align == asked.align
<1> DEFINE bases == {b \in HeaderSize .. PageSize : b % align = 0}
<1> DEFINE slots == {s \in size .. PageSize : s % align = 0}
<1> DEFINE base == Align(HeaderSize, align)
<1> DEFINE slot == Align(size, align)
<1> DEFINE capacity == (PageSize - base) \div slot
<1> DEFINE room == /\ bases # {} /\ slots # {} /\ Min(bases) + Min(slots) <= PageSize
                   /\ size > 0
<1> SUFFICES ASSUME isPowerOfTwo(align)
             PROVE  /\ room <=> layout # NoLayout
                    /\ room => /\ layout.base = Min(bases) /\ layout.slotSize = Min(slots)
                               /\ Offset(layout, layout.capacity) <= PageSize
                               /\ Offset(layout, layout.capacity + 1) > PageSize
  BY DEF LayoutIsTight
<1>1. size \in 0 .. PageSize + 1 /\ layout = NewLayout(size, align)
  BY DEF Asked
<1>2. layout = IF size > 0 /\ size <= PageSize /\ base + slot <= PageSize
               THEN Divided(size, base, slot, capacity) ELSE NoLayout
  BY <1>1, LayoutDivides, Zenon
<1>3. HeaderSize \in 1 .. PageSize /\ PageSize \in Nat
  BY Widths
<1>4. base \in HeaderSize .. Largest /\ (bases # {} <=> base <= PageSize) /\ (bases # {} => Min(bases) = base)
  BY <1>3, AlignIsLeast, LeastMultiple, Zenon
<1>5. base \in 1 .. Largest
  BY <1>3, <1>4, Widths
<1>6. CASE ~ (size > 0 /\ size <= PageSize)
  <2>1. layout = NoLayout
    BY <1>2, <1>6, Zenon
  <2>2. ~ room
    <3> SUFFICES ASSUME room PROVE FALSE
      OBVIOUS
    <3>1. size > 0 /\ \E s \in size .. PageSize : TRUE
      OBVIOUS
    <3>2. size <= PageSize
      BY <1>1, <1>3, <3>1
    <3> QED BY <1>6, <3>1, <3>2
  <2> QED BY <2>1, <2>2, Zenon
<1>7. CASE size > 0 /\ size <= PageSize
  <2>1. size \in 1 .. PageSize
    BY <1>1, <1>3, <1>7
  <2>2. slot \in size .. Largest /\ (slots # {} <=> slot <= PageSize) /\ (slots # {} => Min(slots) = slot)
    BY <2>1, AlignIsLeast, LeastMultiple, Zenon
  <2>3. slot \in 1 .. Largest
    BY <2>1, <2>2, Widths
  <2> HIDE DEF size, base, slot, capacity, bases, slots
  <2>4. CASE ~ (base + slot <= PageSize)
    <3>1. layout = NoLayout
      BY <1>2, <2>4, Zenon
    <3>2. ~ room
      BY <1>4, <2>2, <2>4, Zenon
    <3> QED BY <3>1, <3>2, Zenon
  <2>5. CASE base + slot <= PageSize
    <3>1. layout = Divided(size, base, slot, capacity)
      BY <1>2, <1>7, <2>5, Zenon
    <3>2. /\ layout.base = base /\ layout.slotSize = slot /\ layout.capacity = capacity
      BY <3>1 DEF Divided
    <3>3. /\ capacity \in Nat \ {0}
          /\ base + capacity * slot <= PageSize
          /\ PageSize < base + capacity * slot + slot
      BY <1>5, <2>3, <2>5, RoomForSlots, Zenon DEF capacity
    <3>4. layout # NoLayout
      <4>1. NoLayout.capacity = 0
        BY DEF NoLayout
      <4> QED BY <3>2, <3>3, <4>1
    <3>5. base <= PageSize /\ slot <= PageSize
      BY <1>3, <1>5, <2>3, <2>5, Widths
    <3>6. room
      BY <1>4, <1>7, <2>2, <2>5, <3>5, Zenon
    <3>7. capacity \in Nat /\ base \in Nat /\ slot \in Nat
      BY <1>5, <2>3, <3>3, Widths
    <3>8. Offset(layout, capacity) = base + capacity * slot
      BY <3>2, Zenon DEF Offset
    <3>9. Offset(layout, capacity + 1) = (base + capacity * slot) + slot
      BY <3>2, <3>7, <3>8, SlotsApart, Zenon
    <3>10. (base + capacity * slot) + slot > PageSize
      <4>1. capacity * slot \in Nat
        BY <3>7, Products
      <4>2. PICK w \in Nat : w = capacity * slot
        BY <4>1, Zenon
      <4>3. PageSize < base + w + slot
        BY <3>3, <4>2, Zenon
      <4>4. (base + w) + slot > PageSize
        BY <1>3, <3>7, <4>3
      <4> QED BY <4>2, <4>4, Zenon
    <3> QED BY <1>4, <2>2, <3>2, <3>3, <3>4, <3>5, <3>6, <3>8, <3>9, <3>10, Zenon
  <2> QED BY <2>4, <2>5
<1> QED BY <1>6, <1>7

\* NewLayout grants a layout to exactly the records that have room at one aligned place,
\* at the first such place and in the least aligned slots, and as many slots as fit;
\* for every page size and every width of an int, sums that wrap included.
THEOREM LayoutsAreTight == Spec => []LayoutIsTight
<1>1. Inv => LayoutIsTight
  BY AskedIsTight DEF Inv
<1> QED BY <1>1, SlotsInvariant, PTL

\* A record reads back as it was last put, whatever was put in other slots since, and
\* its padding holds nothing of what the page held before: for every layout NewLayout
\* grants, and every length of the page.
THEOREM RecordsAreKept == Spec => []RecordsKeep
<1>1. ASSUME Inv PROVE RecordsKeep
  <2> SUFFICES ASSUME NEW i \in DOMAIN stored
               PROVE  /\ GetRef(layout, page, i) = stored[i]
                      /\ \A b \in Offset(layout, i) + layout.recordSize .. Offset(layout, i + 1) - 1 :
                           page.bytes[b] = 0
    BY DEF RecordsKeep
  <2> DEFINE start == Offset(layout, i)
  <2> DEFINE n == layout.recordSize
  <2> DEFINE size == layout.slotSize
  <2>1. /\ i \in 0 .. layout.capacity - 1
        /\ stored[i] \in [1 .. n -> Bytes]
        /\ \A j \in 0 .. size - 1 :
             page.bytes[start + j] = IF j < n THEN stored[i][j + 1] ELSE 0
    BY <1>1 DEF Inv, Kept
  <2>2. /\ n \in Nat \ {0} /\ size \in Nat \ {0} /\ n <= size /\ layout.base \in Nat
        /\ layout.capacity \in Nat
    BY <1>1, <2>1, LayoutGranted, Zenon DEF Inv
  <2>3. i \in Nat
    BY <2>1, <2>2
  <2>4. start \in Nat /\ Offset(layout, i + 1) = start + size
    BY <2>2, <2>3, SlotsApart, Zenon
  <2> HIDE DEF start, n, size
  <2>5. ASSUME NEW j \in 1 .. n PROVE page.bytes[start + j - 1] = stored[i][j]
    <3>1. /\ j - 1 \in 0 .. size - 1 /\ j - 1 < n /\ (j - 1) + 1 = j
          /\ start + (j - 1) = start + j - 1
      BY <2>2, <2>4
    <3> QED BY <2>1, <3>1
  <2>6. GetRef(layout, page, i) = [j \in 1 .. n |-> page.bytes[start + j - 1]]
    BY Zenon DEF GetRef, start, n
  <2>7. stored[i] = [j \in 1 .. n |-> stored[i][j]]
    BY <2>1
  <2>8. GetRef(layout, page, i) = stored[i]
    BY <2>5, <2>6, <2>7, Zenon
  <2>9. ASSUME NEW b \in start + n .. (start + size) - 1 PROVE page.bytes[b] = 0
    <3>1. PICK j \in 0 .. size - 1 : start + j = b /\ ~ (j < n)
      <4>1. b - start \in 0 .. size - 1 /\ start + (b - start) = b /\ ~ (b - start < n)
        BY <2>2, <2>4
      <4> QED BY <4>1
    <3>2. page.bytes[start + j] = 0
      BY <2>1, <3>1
    <3> QED BY <3>1, <3>2
  <2> QED BY <2>4, <2>8, <2>9, Zenon DEF start, n, size
<1> QED BY <1>1, SlotsInvariant, PTL

\* The header's count is one more than the last slot that holds a record, the free start
\* is where that slot ends, inside the page, and no byte behind it was ever written.
THEOREM HeadersCoverRecords == Spec => []HeaderCoversRecords
<1>1. ASSUME Inv PROVE HeaderCoversRecords
  <2> DEFINE used == {i + 1 : i \in DOMAIN stored}
  <2> DEFINE n == page.itemCount
  <2> DEFINE D == DOMAIN page.bytes
  <2>1. Asked /\ PageType /\ Kept /\ Covered
    BY <1>1 DEF Inv
  <2>2. n \in Nat /\ page.freeStart \in Nat
    BY <2>1 DEF PageType
  <2>3. \A i \in DOMAIN stored :
          /\ i \in Nat /\ i + 1 <= n
          /\ layout.slotSize \in Nat \ {0} /\ layout.base \in Nat
    <3> SUFFICES ASSUME NEW i \in DOMAIN stored
                 PROVE  /\ i \in Nat /\ i + 1 <= n
                        /\ layout.slotSize \in Nat \ {0} /\ layout.base \in Nat
      OBVIOUS
    <3>1. i \in 0 .. layout.capacity - 1 /\ i + 1 <= n
      BY <2>1 DEF Kept, Covered
    <3>2. layout.slotSize \in Nat \ {0} /\ layout.base \in Nat /\ layout.capacity \in Nat
      BY <2>1, <3>1, LayoutGranted, Zenon
    <3> QED BY <3>1, <3>2
  <2>4. n # 0 => n - 1 \in DOMAIN stored
    BY <2>1 DEF Covered
  <2>5. n = Max(used \cup {0})
    <3>1. n \in used \cup {0}
      <4>1. n # 0 => (n - 1) + 1 = n
        BY <2>2
      <4> QED BY <2>4, <4>1
    <3>2. used \cup {0} \subseteq Int /\ \A x \in used \cup {0} : x <= n
      BY <2>2, <2>3
    <3> HIDE DEF used
    <3> QED BY <3>1, <3>2, MaxIs, Zenon
  <2>6. used # {} => page.freeStart = Offset(layout, n)
    <3> SUFFICES ASSUME NEW i \in DOMAIN stored PROVE page.freeStart = Offset(layout, n)
      OBVIOUS
    <3>1. n # 0
      BY <2>2, <2>3
    <3> QED BY <2>1, <3>1 DEF Covered
  <2>7. PICK length \in Lengths : D = HeaderSize .. length - 1
    BY <2>1 DEF PageType
  <2>8. HeaderSize \in Nat /\ length \in Nat /\ HeaderSize <= length
    BY SizeAssumption, LengthsAssumption
  <2>9. HeaderSize + Cardinality(D) = length
    <3>1. HeaderSize \in Int /\ length - 1 \in Int
      BY <2>8
    <3>2. Cardinality(HeaderSize .. length - 1) =
            IF HeaderSize > length - 1 THEN 0 ELSE (length - 1) - HeaderSize + 1
      BY <3>1, FS_Interval, Zenon
    <3>3. (IF HeaderSize > length - 1 THEN 0 ELSE (length - 1) - HeaderSize + 1) = length - HeaderSize
      BY <2>8
    <3>4. HeaderSize + (length - HeaderSize) = length
      BY <2>8
    <3> QED BY <2>7, <3>2, <3>3, <3>4, Zenon
  <2>10. page.freeStart <= length
    <3>1. CASE n = 0
      <4>1. page.freeStart = HeaderSize
        BY <2>1, <3>1 DEF Covered
      <4> QED BY <2>8, <4>1
    <3>2. CASE n # 0
      <4>1. PICK i \in DOMAIN stored : i = n - 1
        BY <2>4, <3>2
      <4>2. /\ i \in Nat /\ i + 1 = n /\ layout.slotSize \in Nat \ {0} /\ layout.base \in Nat
        BY <2>2, <2>3, <4>1
      <4>3. page.freeStart = Offset(layout, n)
        BY <2>1, <3>2 DEF Covered
      <4>4. Offset(layout, i) \in Nat /\ Offset(layout, n) = Offset(layout, i) + layout.slotSize
        BY <4>2, SlotsApart, Zenon
      <4>5. \A j \in 0 .. layout.slotSize - 1 : Offset(layout, i) + j \in D
        BY <2>1 DEF Kept
      <4>6. PICK last \in 0 .. layout.slotSize - 1 : last = layout.slotSize - 1
        BY <4>2
      <4>7. Offset(layout, i) + last \in HeaderSize .. length - 1
        BY <2>7, <4>5, Zenon
      <4> QED BY <2>8, <4>2, <4>3, <4>4, <4>6, <4>7
    <3> QED BY <3>1, <3>2
  <2>11. \E old \in Stale : \A b \in D : b >= page.freeStart => page.bytes[b] = old
    BY <2>1 DEF Covered
  <2> QED BY <2>5, <2>6, <2>9, <2>10, <2>11, Zenon DEF HeaderCoversRecords
<1> QED BY <1>1, SlotsInvariant, PTL

=============================================================================
