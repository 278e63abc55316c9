----------------------------- MODULE RowsProofs ------------------------------
(***************************************************************************)
(* A row reads back as it was written, its keys sort as its numbers do,    *)
(* and conditions never keep a row they might not have kept: for every     *)
(* schema, every set of values, words and bytes of every width, and        *)
(* conditions of any length.                                               *)
(*                                                                         *)
(* The codec computes with recursive functions over words and bytes.  They *)
(* unfold because such functions exist, which is proved by induction, and  *)
(* induction is the least element of a set of numbers.                     *)
(***************************************************************************)
EXTENDS Rows, SequenceTheorems, FiniteSetTheorems, FunctionTheorems, WellFoundedInduction, TLAPS

-----------------------------------------------------------------------------
(* Arithmetic, and induction over sets of numbers.                         *)

\* What the provers need to be told of products.
LEMMA Products ==
  /\ \A x, y \in Int : x * y \in Int
  /\ \A x, y \in Nat : x * y \in Nat
  /\ \A x, y, z \in Int : x <= y /\ 0 <= z => x * z <= y * z
  /\ \A x, z \in Int : (x + 1) * z = x * z + z /\ (x - 1) * z = x * z - z
<1>1. \A x, y \in Int : x * y \in Int
  OBVIOUS
<1>2. \A x, y \in Nat : x * y \in Nat
  OBVIOUS
<1>3. ASSUME NEW x \in Int, NEW y \in Int, NEW z \in Int, x <= y, 0 <= z
      PROVE  x * z <= y * z
  <2>1. PICK d \in Nat : y = x + d
    <3>1. y - x \in Nat /\ y = x + (y - x)
      BY <1>3
    <3> QED BY <3>1
  <2>2. d * z \in Nat
    BY <1>3
  <2>3. (x + d) * z = x * z + d * z
    OBVIOUS
  <2> QED BY <2>1, <2>2, <2>3
<1>4. \A x, z \in Int : (x + 1) * z = x * z + z /\ (x - 1) * z = x * z - z
  OBVIOUS
<1> QED BY <1>1, <1>2, <1>3, <1>4

\* Division with remainder.
LEMMA Division ==
  ASSUME NEW a \in Int, NEW b \in Nat \ {0}
  PROVE  /\ a % b \in 0 .. b - 1
         /\ a \div b \in Int
         /\ a = (a \div b) * b + (a % b)
OBVIOUS

\* Quotient and remainder are the only ones.
LEMMA DivisionUnique ==
  ASSUME NEW a \in Int, NEW b \in Nat \ {0}, NEW q \in Int, NEW r \in 0 .. b - 1, a = q * b + r
  PROVE  a \div b = q /\ a % b = r
<1> DEFINE Q == a \div b
<1> DEFINE R == a % b
<1>1. R \in 0 .. b - 1 /\ Q \in Int /\ a = Q * b + R
  BY Division
<1> HIDE DEF Q, R
<1>2. ~ q < Q
  <2> SUFFICES ASSUME q < Q PROVE FALSE
    OBVIOUS
  <2>1. q + 1 <= Q
    BY <1>1
  <2>2. (q + 1) * b <= Q * b
    BY <2>1, <1>1, Products
  <2>3. (q + 1) * b = q * b + b
    BY Products
  <2>4. q * b \in Int /\ Q * b \in Int
    BY <1>1, Products
  <2> QED BY <2>2, <2>3, <2>4, <1>1
<1>3. ~ Q < q
  <2> SUFFICES ASSUME Q < q PROVE FALSE
    OBVIOUS
  <2>1. Q + 1 <= q
    BY <1>1
  <2>2. (Q + 1) * b <= q * b
    BY <2>1, <1>1, Products
  <2>3. (Q + 1) * b = Q * b + b
    BY <1>1, Products
  <2>4. q * b \in Int /\ Q * b \in Int
    BY <1>1, Products
  <2> QED BY <2>2, <2>3, <2>4, <1>1
<1>4. Q = q
  BY <1>1, <1>2, <1>3
<1>5. R = r
  <2>1. q * b \in Int
    BY Products
  <2> QED BY <1>1, <1>4, <2>1
<1> QED BY <1>4, <1>5 DEF Q, R

\* A factor on both sides.
LEMMA Cancel ==
  ASSUME NEW x \in Int, NEW y \in Int, NEW z \in Nat \ {0}
  PROVE  /\ x * z < y * z <=> x < y
         /\ x * z = y * z <=> x = y
<1>1. ASSUME NEW a \in Int, NEW b \in Int, a < b PROVE a * z < b * z
  <2>1. a + 1 <= b
    BY <1>1
  <2>2. (a + 1) * z <= b * z
    BY <2>1, Products
  <2>3. (a + 1) * z = a * z + z /\ a * z \in Int /\ b * z \in Int
    BY Products
  <2> QED BY <2>2, <2>3
<1>2. x < y \/ x = y \/ y < x
  OBVIOUS
<1>3. x * z \in Int /\ y * z \in Int
  BY Products
<1>4. CASE x < y
  BY <1>1, <1>3, <1>4
<1>5. CASE x = y
  BY <1>3, <1>5
<1>6. CASE y < x
  BY <1>1, <1>3, <1>6
<1> QED BY <1>2, <1>4, <1>5, <1>6

\* The greater number has the greater quotient, if any.
LEMMA QuotientsGrow ==
  ASSUME NEW a \in Int, NEW b \in Int, NEW z \in Nat \ {0}, a <= b
  PROVE  a \div z <= b \div z
<1>1. PICK q \in Int, r \in 0 .. z - 1 : q = a \div z /\ r = a % z /\ a = q * z + r
  BY Division
<1>2. PICK p \in Int, s \in 0 .. z - 1 : p = b \div z /\ s = b % z /\ b = p * z + s
  BY Division
<1>3. ~ (p < q)
  <2> SUFFICES ASSUME p < q PROVE FALSE
    OBVIOUS
  <2>1. (p + 1) * z <= q * z
    <3>1. p + 1 <= q
      OBVIOUS
    <3> QED BY <3>1, Products
  <2>2. (p + 1) * z = p * z + z /\ p * z \in Int /\ q * z \in Int
    BY Products
  <2> QED BY <1>1, <1>2, <2>1, <2>2
<1> QED BY <1>1, <1>2, <1>3

\* To divide by two numbers is to divide by their product.
LEMMA QuotientOfQuotient ==
  ASSUME NEW a \in Int, NEW y \in Nat \ {0}, NEW z \in Nat \ {0}
  PROVE  y * z \in Nat \ {0} /\ a \div (y * z) = (a \div z) \div y
<1>1. PICK q \in Int, r \in 0 .. z - 1 : q = a \div z /\ a = q * z + r
  BY Division
<1>2. PICK p \in Int, s \in 0 .. y - 1 : p = q \div y /\ q = p * y + s
  BY Division
<1>3. PICK w \in Nat \ {0} : w = y * z /\ \A x \in Int : (x * y) * z = x * w
  <2>1. y * z \in Nat \ {0}
    <3>1. 0 * z < y * z /\ y * z \in Nat
      BY Cancel, Products
    <3> QED BY <3>1
  <2>2. \A x \in Int : (x * y) * z = x * (y * z)
    OBVIOUS
  <2> QED BY <2>1, <2>2
<1>4. s * z + r \in 0 .. w - 1 /\ a = p * w + (s * z + r)
  <2>1. (p * y + s) * z = (p * y) * z + s * z
    OBVIOUS
  <2>2. s * z \in Int /\ p * w \in Int /\ 0 * z <= s * z /\ (s + 1) * z <= y * z
    <3>1. s + 1 <= y /\ 0 <= s
      OBVIOUS
    <3> QED BY <3>1, Products
  <2>3. (s + 1) * z = s * z + z /\ 0 * z = 0
    BY Products
  <2>4. a = p * w + s * z + r
    BY <1>1, <1>2, <1>3, <2>1
  <2> QED BY <1>3, <2>2, <2>3, <2>4
<1>5. a \div w = p
  BY <1>4, DivisionUnique
<1> QED BY <1>1, <1>2, <1>3, <1>5

\* Min of the community modules is the least number.
LEMMA LeastNumber ==
  ASSUME NEW T \in SUBSET Nat, T # {}
  PROVE  Min(T) \in T /\ \A m \in T : Min(T) <= m
<1>1. PICK R : R = {ss \in Nat \X Nat : ss[1] < ss[2]} /\ IsWellFoundedOn(R, Nat)
  BY NatLessThanWellFounded DEF OpToRel
<1>2. PICK n \in T : \A m \in T : ~ (<<m, n>> \in R)
  BY <1>1, WFMin, Zenon
<1>3. ASSUME NEW m \in T PROVE n <= m
  <2>1. m \in Nat /\ n \in Nat
    OBVIOUS
  <2>2. m < n => <<m, n>> \in R
    BY <1>1, <2>1
  <2> QED BY <1>2, <2>1, <2>2
<1> QED BY <1>3, Zenon DEF Min

\* Induction, for sets.
LEMMA Induction ==
  ASSUME NEW T \in SUBSET Nat, 0 \in T, \A n \in T : n + 1 \in T
  PROVE  T = Nat
<1> SUFFICES ASSUME T # Nat PROVE FALSE
  OBVIOUS
<1>1. Nat \ T # {} /\ Nat \ T \in SUBSET Nat
  OBVIOUS
<1>2. PICK n \in Nat \ T : \A m \in Nat \ T : n <= m
  BY <1>1, LeastNumber, Zenon
<1>3. n # 0 /\ n - 1 \in Nat /\ n - 1 \in T
  BY <1>2
<1>4. (n - 1) + 1 \in T /\ (n - 1) + 1 = n
  BY <1>3
<1> QED BY <1>2, <1>4

\* Induction, up to a bound.
LEMMA InductionUpTo ==
  ASSUME NEW n \in Nat, NEW T \in SUBSET Nat, 0 \in T, \A i \in 0 .. n - 1 : i \in T => i + 1 \in T
  PROVE  0 .. n \subseteq T
<1> DEFINE S == {i \in Nat : i <= n => i \in T}
<1>1. ASSUME NEW i \in S PROVE i + 1 \in S
  <2>1. i + 1 <= n => i \in 0 .. n - 1 /\ i \in T
    OBVIOUS
  <2> QED BY <2>1
<1>2. S = Nat
  <2>1. S \in SUBSET Nat /\ 0 \in S
    OBVIOUS
  <2> HIDE DEF S
  <2> QED BY <1>1, <2>1, Induction
<1>3. \A i \in 0 .. n : i \in S /\ i <= n
  BY <1>2
<1> QED BY <1>3

-----------------------------------------------------------------------------
(* Powers of two.                                                          *)

\* Powers of two, as far as PowersAssumption has them.
LEMMA PowersMultiply ==
  ASSUME NEW n \in Nat, \A e \in 0 .. n : 2 ^ e \in Nat \ {0} /\ 2 ^ (e + 1) = 2 * 2 ^ e,
         NEW a \in Nat, NEW b \in Nat, a + b <= n
  PROVE  2 ^ (a + b) = 2 ^ a * 2 ^ b
<1> DEFINE T == {c \in Nat : a + c <= n => 2 ^ (a + c) = 2 ^ a * 2 ^ c}
<1>1. 0 \in T
  <2>1. a + 0 = a /\ 2 ^ a \in Nat
    OBVIOUS
  <2>2. 2 ^ 0 = 1
    BY PowersAssumption
  <2> QED BY <2>1, <2>2
<1>2. ASSUME NEW c \in Nat, c \in T, a + (c + 1) <= n
      PROVE  2 ^ (a + (c + 1)) = 2 ^ a * 2 ^ (c + 1)
  <2>1. PICK d \in 0 .. n : d = a + c /\ a + (c + 1) = d + 1 /\ a + c <= n
    BY <1>2
  <2>2. PICK x \in Nat, y \in Nat, z \in Nat : x = 2 ^ a /\ y = 2 ^ c /\ z = 2 ^ d
    <3>1. a \in 0 .. n /\ c \in 0 .. n
      BY <1>2
    <3> QED BY <3>1
  <2>3. z = x * y
    BY <1>2, <2>1, <2>2
  <2>4. 2 ^ (d + 1) = 2 * z /\ 2 ^ (c + 1) = 2 * y
    <3>1. c \in 0 .. n
      BY <1>2
    <3> QED BY <2>1, <2>2, <3>1
  <2>5. 2 * (x * y) = x * (2 * y)
    OBVIOUS
  <2> QED BY <2>1, <2>2, <2>3, <2>4, <2>5
<1>3. T = Nat
  <2>1. T \in SUBSET Nat /\ \A c \in T : c + 1 \in T
    BY <1>2
  <2> HIDE DEF T
  <2> QED BY <1>1, <2>1, Induction
<1> QED BY <1>3

W == 2 ^ WordBits
B == 2 ^ ByteBits

\* What BitsAssumption comes to.
LEMMA WidthsAre ==
  /\ ByteBits \in Nat /\ ByteBits >= 3 /\ WordBits \in Nat /\ WordBits >= 4
  /\ MantissaBits \in Nat /\ MantissaBits >= 2 /\ MantissaBits <= WordBits - 2
  /\ WordBytes \in Nat \ {0} /\ WordBits = WordBytes * ByteBits
<1>1. ByteBits \in Nat \ {0, 1} /\ WordBits \in Nat /\ MantissaBits \in Nat
      /\ MantissaBits >= 2 /\ MantissaBits <= WordBits - 2 /\ WordBits >= 4
  BY BitsAssumption
<1>2. ByteBits # 2
  <2> SUFFICES ASSUME ByteBits = 2 PROVE FALSE
    OBVIOUS
  <2>1. WordBits % 1 = 1
    BY BitsAssumption
  <2>2. WordBits % 1 = 0
    BY <1>1
  <2> QED BY <2>1, <2>2
<1>3. PICK n \in Int : n = WordBytes /\ WordBits = n * ByteBits
  <2>1. WordBits = (WordBits \div ByteBits) * ByteBits + (WordBits % ByteBits)
        /\ WordBits \div ByteBits \in Int
    BY <1>1, Division
  <2>2. WordBits % ByteBits = 0
    BY BitsAssumption
  <2>3. (WordBits \div ByteBits) * ByteBits \in Int
    BY <1>1, <2>1, Products
  <2> QED BY <2>1, <2>2, <2>3 DEF WordBytes
<1>4. n > 0
  <2>1. 0 * ByteBits < n * ByteBits
    BY <1>1, <1>3
  <2> QED BY <1>1, <2>1, Cancel
<1> QED BY <1>1, <1>2, <1>3, <1>4

\* Words and bytes, by how many there are.
LEMMA WordIs ==
  /\ W \in Nat \ {0} /\ B \in Nat \ {0} /\ signBit \in Nat \ {0} /\ W = 2 * signBit
  /\ Word = 0 .. W - 1 /\ Byte = 0 .. B - 1 /\ Signed = -signBit .. signBit - 1
<1>1. WordBits \in 0 .. 2 * WordBits /\ ByteBits \in 0 .. 2 * WordBits
      /\ WordBits - 1 \in 0 .. 2 * WordBits /\ (WordBits - 1) + 1 = WordBits
  <2>1. 1 * ByteBits <= WordBytes * ByteBits
    BY WidthsAre, Products
  <2> QED BY <2>1, WidthsAre
<1>2. 2 ^ ((WordBits - 1) + 1) = 2 * 2 ^ (WordBits - 1)
  BY <1>1, PowersAssumption
<1> QED BY <1>1, <1>2, PowersAssumption DEF W, B, signBit, Word, Byte, Signed

\* What a byte of a word counts in.
LEMMA BytePowers ==
  /\ 2 ^ (ByteBits * 0) = 1 /\ 2 ^ (ByteBits * WordBytes) = W
  /\ \A k \in 0 .. WordBytes : 2 ^ (ByteBits * k) \in Nat \ {0}
  /\ \A k \in 0 .. WordBytes - 1 : 2 ^ (ByteBits * (k + 1)) = B * 2 ^ (ByteBits * k)
<1>1. ByteBits * 0 = 0 /\ ByteBits * WordBytes = WordBits
  BY WidthsAre
<1>2. ASSUME NEW k \in 0 .. WordBytes PROVE ByteBits * k \in 0 .. WordBits
  <2>1. k * ByteBits <= WordBytes * ByteBits /\ k * ByteBits \in Nat
    <3>1. k \in Int /\ k <= WordBytes /\ k \in Nat
      BY WidthsAre
    <3> QED BY <3>1, WidthsAre, Products
  <2>2. k * ByteBits = ByteBits * k
    BY WidthsAre
  <2> QED BY <2>1, <2>2, WidthsAre
<1>3. ASSUME NEW k \in 0 .. WordBytes - 1
      PROVE  2 ^ (ByteBits * (k + 1)) = B * 2 ^ (ByteBits * k)
  <2>1. k + 1 \in 0 .. WordBytes /\ k \in 0 .. WordBytes
    BY WidthsAre
  <2>2. PICK a \in Nat : a = ByteBits * k
    BY <1>2, <2>1
  <2>3. ByteBits * (k + 1) = ByteBits + a /\ ByteBits + a <= 2 * WordBits
    <3>1. ByteBits * (k + 1) = ByteBits * k + ByteBits
      BY WidthsAre
    <3>2. ByteBits * (k + 1) <= WordBits
      BY <1>2, <2>1
    <3> QED BY <2>2, <3>1, <3>2, WidthsAre
  <2>4. PICK n \in Nat : n = 2 * WordBits
    BY WidthsAre
  <2>5. 2 ^ (ByteBits + a) = 2 ^ ByteBits * 2 ^ a
    <3>1. \A e \in 0 .. n : 2 ^ e \in Nat \ {0} /\ 2 ^ (e + 1) = 2 * 2 ^ e
      BY <2>4, PowersAssumption
    <3>2. ByteBits \in Nat /\ a \in Nat /\ ByteBits + a <= n
      BY <2>2, <2>3, <2>4, WidthsAre
    <3> QED BY <3>1, <3>2, PowersMultiply, Zenon
  <2> QED BY <2>2, <2>3, <2>5 DEF B
<1>4. ASSUME NEW k \in 0 .. WordBytes PROVE 2 ^ (ByteBits * k) \in Nat \ {0}
  <2>1. ByteBits * k \in 0 .. 2 * WordBits
    BY <1>2, WidthsAre
  <2> QED BY <2>1, PowersAssumption
<1>5. 2 ^ (ByteBits * 0) = 1 /\ 2 ^ (ByteBits * WordBytes) = W
  BY <1>1, PowersAssumption DEF W
<1> QED BY <1>3, <1>4, <1>5

-----------------------------------------------------------------------------
(* The bytes of a word, the highest first.                                 *)

\* What the first i bytes of a word say.
Upper(u, i) == u \div 2 ^ (ByteBits * (WordBytes - i))

\* The first i bytes are those before and one byte more.
LEMMA UpperIs ==
  ASSUME NEW u \in Word
  PROVE  /\ Upper(u, 0) = 0 /\ Upper(u, WordBytes) = u
         /\ \A i \in 0 .. WordBytes : Upper(u, i) \in Int
         /\ DOMAIN BigEndian(u) = 1 .. WordBytes
         /\ \A i \in 1 .. WordBytes :
              /\ BigEndian(u)[i] \in 0 .. B - 1
              /\ Upper(u, i) = Upper(u, i - 1) * B + BigEndian(u)[i]
<1>1. u \in Nat /\ u < W /\ W \in Nat \ {0} /\ B \in Nat \ {0}
  BY WordIs
<1>2. PICK n \in Nat \ {0} : n = WordBytes
  BY WidthsAre
<1>3. Upper(u, 0) = 0
  <2>1. n - 0 = n
    OBVIOUS
  <2>2. u = 0 * W + u /\ u \in 0 .. W - 1
    BY <1>1
  <2>3. u \div W = 0
    BY <1>1, <2>2, DivisionUnique
  <2> QED BY <1>2, <2>1, <2>3, BytePowers DEF Upper
<1>4. Upper(u, WordBytes) = u
  <2>1. n - n = 0
    OBVIOUS
  <2>2. u = u * 1 + 0 /\ 0 \in 0 .. 1 - 1
    BY <1>1
  <2>3. u \div 1 = u
    BY <1>1, <2>2, DivisionUnique
  <2> QED BY <1>2, <2>1, <2>3, BytePowers DEF Upper
<1>5. ASSUME NEW i \in 0 .. WordBytes PROVE Upper(u, i) \in Int
  <2>1. n - i \in 0 .. n
    BY <1>2
  <2>2. 2 ^ (ByteBits * (n - i)) \in Nat \ {0}
    BY <1>2, <2>1, BytePowers
  <2> QED BY <1>1, <1>2, <2>2, Division DEF Upper
<1>6. ASSUME NEW i \in 1 .. WordBytes
      PROVE  /\ BigEndian(u)[i] \in 0 .. B - 1
             /\ Upper(u, i) = Upper(u, i - 1) * B + BigEndian(u)[i]
  <2>1. PICK k \in 0 .. n - 1 : k = n - i /\ k + 1 = n - (i - 1)
    BY <1>2
  <2>2. PICK p \in Nat \ {0} : p = 2 ^ (ByteBits * k) /\ 2 ^ (ByteBits * (k + 1)) = B * p
    <3>1. k \in 0 .. WordBytes /\ k \in 0 .. WordBytes - 1
      BY <1>2
    <3> QED BY <3>1, BytePowers
  <2>3. Upper(u, i) = u \div p /\ Upper(u, i - 1) = u \div (B * p)
    BY <1>2, <2>1, <2>2 DEF Upper
  <2>0. u \in Int /\ p \in Nat \ {0} /\ B \in Nat \ {0}
    BY <1>1
  <2>4. u \div (B * p) = (u \div p) \div B
    BY <2>0, QuotientOfQuotient, ZenonT(30)
  <2>5. PICK q \in Int : q = u \div p
    <3>1. u \div p \in Int
      BY <2>0, Division, ZenonT(30)
    <3> QED BY <3>1
  <2>6. q % B \in 0 .. B - 1 /\ q = (q \div B) * B + (q % B)
    BY <1>1, Division
  <2>7. BigEndian(u)[i] = q % B
    BY <1>2, <2>1, <2>2, <2>5 DEF BigEndian, B
  <2> QED BY <2>3, <2>4, <2>5, <2>6, <2>7
<1>7. DOMAIN BigEndian(u) = 1 .. WordBytes
  BY DEF BigEndian
<1> QED BY <1>3, <1>4, <1>5, <1>6, <1>7

\* The greater word has the greater first bytes, if any.
LEMMA UpperGrows ==
  ASSUME NEW u \in Word, NEW w \in Word, u <= w, NEW i \in 0 .. WordBytes
  PROVE  Upper(u, i) <= Upper(w, i)
<1>1. WordBytes - i \in 0 .. WordBytes
  BY WidthsAre
<1>2. PICK p \in Nat \ {0} : p = 2 ^ (ByteBits * (WordBytes - i))
  BY <1>1, BytePowers
<1>3. u \in Int /\ w \in Int
  BY WordIs
<1>4. u \div p <= w \div p
  BY <1>3, QuotientsGrow
<1> QED BY <1>2, <1>4 DEF Upper

\* Words agree in their first bytes when the bytes are the same.
LEMMA UpperAgrees ==
  ASSUME NEW u \in Word, NEW w \in Word, NEW n \in 0 .. WordBytes,
         \A j \in 1 .. n : BigEndian(u)[j] = BigEndian(w)[j]
  PROVE  Upper(u, n) = Upper(w, n)
<1> DEFINE T == {i \in Nat : i <= n => Upper(u, i) = Upper(w, i)}
<1>1. 0 \in T
  BY UpperIs
<1>2. ASSUME NEW i \in T, i + 1 <= n PROVE Upper(u, i + 1) = Upper(w, i + 1)
  <2>1. PICK k \in 1 .. WordBytes : k = i + 1 /\ k - 1 = i /\ k \in 1 .. n
    BY <1>2, WidthsAre
  <2>2. Upper(u, k) = Upper(u, k - 1) * B + BigEndian(u)[k]
        /\ Upper(w, k) = Upper(w, k - 1) * B + BigEndian(w)[k]
    BY UpperIs
  <2>3. i <= n
    BY <1>2
  <2> QED BY <1>2, <2>1, <2>2, <2>3
<1>3. T = Nat
  <2>1. T \in SUBSET Nat /\ \A i \in T : i + 1 \in T
    BY <1>2
  <2> HIDE DEF T
  <2> QED BY <1>1, <2>1, Induction
<1>4. n \in T
  BY <1>3
<1> QED BY <1>4

\* The first byte apart says which word is greater.
LEMMA FirstByteApart ==
  ASSUME NEW u \in Word, NEW w \in Word, NEW i \in 1 .. WordBytes,
         \A j \in 1 .. i - 1 : BigEndian(u)[j] = BigEndian(w)[j]
  PROVE  BigEndian(u)[i] < BigEndian(w)[i] <=> Upper(u, i) < Upper(w, i)
<1>1. i - 1 \in 0 .. WordBytes
  BY WidthsAre
<1>2. Upper(u, i - 1) = Upper(w, i - 1)
  BY <1>1, UpperAgrees
<1>3. PICK a \in Int, x \in Int, y \in Int :
        /\ a = Upper(u, i - 1) * B
        /\ x = BigEndian(u)[i] /\ y = BigEndian(w)[i]
        /\ Upper(u, i) = a + x /\ Upper(w, i) = a + y
  <2>1. Upper(u, i - 1) \in Int /\ B \in Int
    BY <1>1, UpperIs, WordIs
  <2>2. Upper(u, i - 1) * B \in Int
    BY <2>1, Products
  <2>3. BigEndian(u)[i] \in 0 .. B - 1 /\ BigEndian(w)[i] \in 0 .. B - 1
    BY UpperIs
  <2>4. BigEndian(u)[i] \in Int /\ BigEndian(w)[i] \in Int
    BY <2>1, <2>3
  <2>5. Upper(u, i) = Upper(u, i - 1) * B + BigEndian(u)[i]
        /\ Upper(w, i) = Upper(w, i - 1) * B + BigEndian(w)[i]
    BY UpperIs
  <2> QED BY <1>2, <2>2, <2>4, <2>5
<1> QED BY <1>3

\* Bytes compare as the words do.
LEMMA BytesCompare ==
  ASSUME NEW u \in Word, NEW w \in Word
  PROVE  u < w <=> Below(BigEndian(u), BigEndian(w))
<1>1. u \in Int /\ w \in Int /\ WordBytes \in Nat \ {0}
  BY WordIs, WidthsAre
<1>2. ASSUME Below(BigEndian(u), BigEndian(w)) PROVE u < w
  <2>1. PICK i \in 1 .. WordBytes :
          /\ BigEndian(u)[i] < BigEndian(w)[i]
          /\ \A j \in 1 .. i - 1 : BigEndian(u)[j] = BigEndian(w)[j]
    BY <1>2, UpperIs DEF Below
  <2>2. Upper(u, i) < Upper(w, i)
    BY <2>1, FirstByteApart
  <2>3. i \in 0 .. WordBytes
    OBVIOUS
  <2>4. Upper(u, i) \in Int /\ Upper(w, i) \in Int
    BY <2>3, UpperIs
  <2>5. w <= u => Upper(w, i) <= Upper(u, i)
    BY <2>3, UpperGrows
  <2> QED BY <1>1, <2>2, <2>4, <2>5
<1>3. ASSUME u < w PROVE Below(BigEndian(u), BigEndian(w))
  <2> DEFINE T == {i \in 1 .. WordBytes : BigEndian(u)[i] # BigEndian(w)[i]}
  <2>1. T # {}
    <3>1. SUFFICES ASSUME T = {} PROVE FALSE
      OBVIOUS
    <3>2. WordBytes \in 0 .. WordBytes
      BY <1>1
    <3>3. Upper(u, WordBytes) = Upper(w, WordBytes)
      BY <3>1, <3>2, UpperAgrees
    <3> QED BY <1>1, <1>3, <3>3, UpperIs
  <2>2. PICK i \in T : \A j \in T : i <= j
    <3>1. T \in SUBSET Nat
      OBVIOUS
    <3> HIDE DEF T
    <3> QED BY <2>1, <3>1, LeastNumber
  <2>3. ASSUME NEW j \in 1 .. i - 1 PROVE BigEndian(u)[j] = BigEndian(w)[j]
    <3>1. j \in 1 .. WordBytes /\ ~ (i <= j)
      BY <1>1
    <3> QED BY <2>2, <3>1
  <2>4. BigEndian(u)[i] \in Int /\ BigEndian(w)[i] \in Int /\ BigEndian(u)[i] # BigEndian(w)[i]
    <3>1. BigEndian(u)[i] \in 0 .. B - 1 /\ BigEndian(w)[i] \in 0 .. B - 1 /\ B \in Int
      BY UpperIs, WordIs
    <3> QED BY <3>1
  <2>5. Upper(u, i) <= Upper(w, i)
    BY <1>1, <1>3, UpperGrows
  <2>6. ~ (BigEndian(w)[i] < BigEndian(u)[i])
    <3>1. \A j \in 1 .. i - 1 : BigEndian(w)[j] = BigEndian(u)[j]
      BY <2>3
    <3>2. BigEndian(w)[i] < BigEndian(u)[i] <=> Upper(w, i) < Upper(u, i)
      <4>1. i \in 1 .. WordBytes
        OBVIOUS
      <4> HIDE DEF T
      <4> QED BY <3>1, <4>1, FirstByteApart
    <3>3. Upper(u, i) \in Int /\ Upper(w, i) \in Int
      BY UpperIs
    <3> QED BY <2>5, <3>2, <3>3
  <2>7. BigEndian(u)[i] < BigEndian(w)[i]
    BY <2>4, <2>6
  <2> QED BY <2>3, <2>7, UpperIs DEF Below
<1> QED BY <1>2, <1>3

-----------------------------------------------------------------------------
(* What is computed byte by byte: the recursive functions of the decoders  *)
(* are there, and unfold.                                                  *)

\* x is d, and then what the steps make of it.
Stepwise(x, n, d, step) == x[0] = d /\ \A i \in 1 .. n : x[i] = step[<<i, x[i - 1]>>]

\* Steps can be taken: by induction over their number.
LEMMA StepwiseExists ==
  ASSUME NEW n \in Nat, NEW D, NEW d \in D, NEW step \in [(1 .. n) \X D -> D]
  PROVE  \E x \in [0 .. n -> D] : Stepwise(x, n, d, step)
<1> DEFINE T == {k \in Nat : k <= n =>
                   \E x \in [0 .. k -> D] : x[0] = d /\ \A i \in 1 .. k : x[i] = step[<<i, x[i - 1]>>]}
<1>1. 0 \in T
  <2>1. PICK x : x = [i \in 0 .. 0 |-> d]
    OBVIOUS
  <2>2. x \in [0 .. 0 -> D] /\ x[0] = d /\ \A i \in 1 .. 0 : x[i] = step[<<i, x[i - 1]>>]
    BY <2>1
  <2> QED BY <2>2
<1>2. ASSUME NEW k \in T, k + 1 <= n
      PROVE  \E x \in [0 .. k + 1 -> D] :
                x[0] = d /\ \A i \in 1 .. k + 1 : x[i] = step[<<i, x[i - 1]>>]
  <2>1. PICK y \in [0 .. k -> D] : y[0] = d /\ \A i \in 1 .. k : y[i] = step[<<i, y[i - 1]>>]
    BY <1>2
  <2>2. k + 1 \in 1 .. n /\ k \in 0 .. k /\ y[k] \in D
    BY <1>2
  <2>3. PICK e \in D : e = step[<<k + 1, y[k]>>]
    BY <2>2
  <2>4. PICK x : x = [i \in 0 .. k + 1 |-> IF i = k + 1 THEN e ELSE y[i]]
    OBVIOUS
  <2>5. \A i \in 0 .. k + 1 : i \in 0 .. k \/ i = k + 1
    OBVIOUS
  <2>6. x \in [0 .. k + 1 -> D] /\ x[0] = d
    BY <2>1, <2>4, <2>5
  <2>7. ASSUME NEW i \in 1 .. k + 1 PROVE x[i] = step[<<i, x[i - 1]>>]
    <3>1. i - 1 \in 0 .. k /\ i - 1 # k + 1 /\ i - 1 \in 0 .. k + 1
      OBVIOUS
    <3>2. x[i - 1] = y[i - 1]
      BY <2>4, <3>1
    <3>3. CASE i = k + 1
      <4>1. x[i] = e /\ i - 1 = k
        BY <2>4, <3>3
      <4> QED BY <2>3, <3>2, <3>3, <4>1
    <3>4. CASE i # k + 1
      <4>1. i \in 1 .. k /\ x[i] = y[i]
        BY <2>4, <3>4
      <4> QED BY <2>1, <3>2, <4>1
    <3> QED BY <3>3, <3>4
  <2> QED BY <2>6, <2>7
<1>3. T = Nat
  <2>1. T \in SUBSET Nat /\ \A k \in T : k + 1 \in T
    BY <1>2
  <2> HIDE DEF T
  <2> QED BY <1>1, <2>1, Induction
<1>4. n \in T
  BY <1>3
<1> QED BY <1>4 DEF Stepwise

\* What FromBigEndian computes, byte by byte.
LEMMA FromBigEndianUnfolds ==
  ASSUME NEW src, \A i \in 1 .. WordBytes : src[i] \in Int
  PROVE  \E x : /\ FromBigEndian(src) = x[WordBytes] /\ x[0] = 0
                /\ \A i \in 1 .. WordBytes : x[i] = x[i - 1] * B + src[i]
<1> DEFINE F(x) == [i \in 0 .. WordBytes |-> IF i = 0 THEN 0 ELSE x[i - 1] * 2 ^ ByteBits + src[i]]
<1>1. WordBytes \in Nat /\ B \in Int
  BY WidthsAre, WordIs
<1>2. PICK step : step = [p \in (1 .. WordBytes) \X Int |-> p[2] * B + src[p[1]]]
  OBVIOUS
<1>3. step \in [(1 .. WordBytes) \X Int -> Int]
  <2>1. \A p \in (1 .. WordBytes) \X Int : p[2] * B + src[p[1]] \in Int
    <3> SUFFICES ASSUME NEW i \in 1 .. WordBytes, NEW y \in Int PROVE y * B + src[i] \in Int
      OBVIOUS
    <3>1. y * B \in Int /\ src[i] \in Int
      BY <1>1, Products
    <3> QED BY <3>1
  <2> QED BY <1>2, <2>1
<1>4. PICK x \in [0 .. WordBytes -> Int] :
        x[0] = 0 /\ \A i \in 1 .. WordBytes : x[i] = step[<<i, x[i - 1]>>]
  <2>1. 0 \in Int
    OBVIOUS
  <2>2. \E x \in [0 .. WordBytes -> Int] : Stepwise(x, WordBytes, 0, step)
    BY <1>1, <1>3, <2>1, StepwiseExists, Zenon
  <2> QED BY <2>2 DEF Stepwise
<1>5. ASSUME NEW i \in 1 .. WordBytes PROVE x[i] = x[i - 1] * 2 ^ ByteBits + src[i]
  <2>1. i - 1 \in 0 .. WordBytes
    BY <1>1
  <2>2. x[i - 1] \in Int
    BY <2>1
  <2>3. step[<<i, x[i - 1]>>] = x[i - 1] * B + src[i]
    BY <1>2, <2>2
  <2> QED BY <1>4, <2>3 DEF B
<1>6. x = F(x)
  <2>1. \A i \in 0 .. WordBytes : i = 0 \/ i \in 1 .. WordBytes
    OBVIOUS
  <2> QED BY <1>4, <1>5, <2>1
<1>7. PICK y : y = F(y) /\ FromBigEndian(src) = y[WordBytes]
  <2> HIDE DEF F
  <2>1. FromBigEndian(src) = (CHOOSE y : y = F(y))[WordBytes]
    BY DEF FromBigEndian, F
  <2>2. \E y : y = F(y)
    BY <1>6
  <2> QED BY <2>1, <2>2
<1>8. y[0] = 0 /\ \A i \in 1 .. WordBytes : y[i] = y[i - 1] * B + src[i]
  <2>1. 0 \in 0 .. WordBytes /\ \A i \in 1 .. WordBytes : i \in 0 .. WordBytes /\ i # 0
    BY <1>1
  <2> QED BY <1>7, <2>1 DEF B
<1> QED BY <1>7, <1>8

\* The bytes of a word say the word again.
LEMMA BigEndianReadsBack ==
  ASSUME NEW u \in Word
  PROVE  FromBigEndian(BigEndian(u)) = u
<1> DEFINE src == BigEndian(u)
<1>1. \A i \in 1 .. WordBytes : src[i] \in Int
  <2>1. B \in Int
    BY WordIs
  <2> QED BY <2>1, UpperIs
<1>2. PICK x : /\ FromBigEndian(src) = x[WordBytes] /\ x[0] = 0
               /\ \A i \in 1 .. WordBytes : x[i] = x[i - 1] * B + src[i]
  <2> HIDE DEF src
  <2> QED BY <1>1, FromBigEndianUnfolds
<1>3. WordBytes \in Nat
  BY WidthsAre
<1> DEFINE T == {i \in Nat : i <= WordBytes => x[i] = Upper(u, i)}
<1>4. 0 \in T
  BY <1>2, UpperIs
<1>5. ASSUME NEW i \in T, i + 1 <= WordBytes PROVE x[i + 1] = Upper(u, i + 1)
  <2>1. PICK k \in 1 .. WordBytes : k = i + 1 /\ k - 1 = i
    BY <1>3, <1>5
  <2>2. x[k] = x[k - 1] * B + src[k] /\ Upper(u, k) = Upper(u, k - 1) * B + src[k]
    BY <1>2, UpperIs
  <2>3. x[i] = Upper(u, i)
    BY <1>3, <1>5
  <2> QED BY <2>1, <2>2, <2>3
<1>6. T = Nat
  <2>1. T \in SUBSET Nat /\ \A i \in T : i + 1 \in T
    BY <1>5
  <2> HIDE DEF T
  <2> QED BY <1>4, <2>1, Induction
<1>7. WordBytes \in T
  BY <1>3, <1>6
<1> QED BY <1>2, <1>7, UpperIs, <1>3

\* A key is no shorter than a word.
LEMMA KeyIsWhole ==
  ASSUME NEW u
  PROVE  ~ (Len(BigEndian(u)) < WordBytes)
<1>1. WordBytes \in Nat
  BY WidthsAre
<1>2. Len(BigEndian(u)) = WordBytes
  BY <1>1 DEF BigEndian
<1> QED BY <1>1, <1>2

\* Whatever bytes are read, they say a word.
LEMMA BytesSayAWord ==
  ASSUME NEW src, \A i \in 1 .. WordBytes : src[i] \in Byte
  PROVE  FromBigEndian(src) \in Word
<1>1. \A i \in 1 .. WordBytes : src[i] \in Int /\ 0 <= src[i] /\ src[i] + 1 <= B
  <2>1. B \in Int
    BY WordIs
  <2> QED BY <2>1, WordIs
<1>2. PICK x : /\ FromBigEndian(src) = x[WordBytes] /\ x[0] = 0
               /\ \A i \in 1 .. WordBytes : x[i] = x[i - 1] * B + src[i]
  BY <1>1, FromBigEndianUnfolds
<1>3. WordBytes \in Nat /\ B \in Nat
  BY WidthsAre, WordIs
<1> DEFINE T == {i \in Nat : i <= WordBytes => x[i] \in 0 .. 2 ^ (ByteBits * i) - 1}
<1>4. 0 \in T
  BY <1>2, BytePowers
<1>5. ASSUME NEW i \in T, i + 1 <= WordBytes PROVE x[i + 1] \in 0 .. 2 ^ (ByteBits * (i + 1)) - 1
  <2>1. PICK k \in 1 .. WordBytes : k = i + 1 /\ k - 1 = i /\ i \in 0 .. WordBytes - 1 /\ i \in 0 .. WordBytes
    BY <1>3, <1>5
  <2>2. PICK p \in Nat : p = 2 ^ (ByteBits * i) /\ 2 ^ (ByteBits * (i + 1)) = B * p
    BY <2>1, BytePowers
  <2>3. PICK y \in 0 .. p - 1 : y = x[i]
    <3>1. x[i] \in 0 .. 2 ^ (ByteBits * i) - 1
      BY <1>3, <1>5
    <3> QED BY <2>2, <3>1
  <2>4. PICK b \in Int : b = src[k] /\ 0 <= b /\ b + 1 <= B
    BY <1>1
  <2>5. x[i + 1] = y * B + b
    BY <1>2, <2>1, <2>3, <2>4
  <2>6. y * B \in Nat /\ (y + 1) * B <= p * B /\ (y + 1) * B = y * B + B /\ p * B = B * p
        /\ B * p \in Nat
    <3>1. y \in Nat /\ y + 1 <= p /\ y + 1 \in Int /\ p \in Int /\ 0 <= B /\ y \in Int
      BY <1>3
    <3>2. (y + 1) * B <= p * B
      BY <1>3, <3>1, Products
    <3>3. (y + 1) * B = y * B + B /\ p * B = B * p
      BY <1>3, <3>1, Products
    <3> QED BY <1>3, <3>1, <3>2, <3>3, Products
  <2>7. PICK c \in Nat, m \in Nat : c = y * B /\ m = B * p
    BY <2>6
  <2>8. c + B <= m
    BY <2>6, <2>7
  <2>9. c + b \in 0 .. m - 1
    BY <1>3, <2>4, <2>7, <2>8
  <2> QED BY <2>2, <2>5, <2>7, <2>9
<1>6. T = Nat
  <2>1. T \in SUBSET Nat /\ \A i \in T : i + 1 \in T
    BY <1>5
  <2> HIDE DEF T
  <2> QED BY <1>4, <2>1, Induction
<1>7. x[WordBytes] \in 0 .. 2 ^ (ByteBits * WordBytes) - 1
  BY <1>3, <1>6
<1> QED BY <1>2, <1>7, BytePowers, WordIs

-----------------------------------------------------------------------------
(* Keys of ints.                                                           *)

\* The remainder of what is a word, or nearly one.
LEMMA AroundAWord ==
  ASSUME NEW x \in Int, -W <= x, x < 2 * W
  PROVE  x % W = IF x < 0 THEN x + W ELSE IF x < W THEN x ELSE x - W
<1>1. W \in Nat \ {0}
  BY WordIs
<1>2. CASE x < 0
  <2>1. x = (-1) * W + (x + W) /\ x + W \in 0 .. W - 1
    BY <1>1, <1>2
  <2>2. -1 \in Int
    OBVIOUS
  <2> QED BY <1>1, <1>2, <2>1, <2>2, DivisionUnique
<1>3. CASE 0 <= x /\ x < W
  <2>1. x = 0 * W + x /\ x \in 0 .. W - 1
    BY <1>1, <1>3
  <2> QED BY <1>1, <1>3, <2>1, DivisionUnique
<1>4. CASE W <= x
  <2>1. x = 1 * W + (x - W) /\ x - W \in 0 .. W - 1
    BY <1>1, <1>4
  <2> QED BY <1>1, <1>4, <2>1, DivisionUnique
<1> QED BY <1>1, <1>2, <1>3, <1>4

\* A key's word: the sign bit the other way.
IntBits(u) == IF u >= signBit THEN u - signBit ELSE u + signBit

\* A word as an int, and what its key says.
LEMMA IntIs ==
  ASSUME NEW u \in Word
  PROVE  /\ int(u) \in Signed /\ uint(int(u)) = u
         /\ IntBits(u) \in Word
         /\ (u + signBit) % W = IntBits(u) /\ (IntBits(u) + signBit) % W = u
<1>1. PICK h \in Nat \ {0} : h = signBit /\ W = 2 * h /\ u \in 0 .. 2 * h - 1
  BY WordIs
<1>2. int(u) = IF u >= h THEN u - W ELSE u
  BY <1>1 DEF int, W
<1>3. IntBits(u) = IF u >= h THEN u - h ELSE u + h
  BY <1>1 DEF IntBits
<1>4. int(u) \in -h .. h - 1 /\ IntBits(u) \in 0 .. 2 * h - 1
  BY <1>1, <1>2, <1>3
<1>5. int(u) % W = u
  <2>1. PICK x \in Int : x = int(u) /\ (x = u \/ (x = u - W /\ u >= h)) /\ (u < h \/ x = u - W)
    BY <1>1, <1>2
  <2>2. -W <= x /\ x < 2 * W
    BY <1>1, <2>1
  <2>3. x % W = IF x < 0 THEN x + W ELSE IF x < W THEN x ELSE x - W
    BY <2>2, AroundAWord
  <2> QED BY <1>1, <2>1, <2>3
<1>6. (u + h) % W = IntBits(u)
  <2>1. u + h \in Int /\ -W <= u + h /\ u + h < 2 * W
    BY <1>1
  <2>2. PICK x \in Int : x = u + h
    BY <2>1
  <2>3. x % W = IF x < 0 THEN x + W ELSE IF x < W THEN x ELSE x - W
    BY <2>1, <2>2, AroundAWord
  <2> QED BY <1>1, <1>3, <2>2, <2>3
<1>7. (IntBits(u) + h) % W = u
  <2>1. PICK x \in Int : x = IntBits(u) + h /\ x = IF u >= h THEN u ELSE u + 2 * h
    BY <1>1, <1>3
  <2>2. -W <= x /\ x < 2 * W
    BY <1>1, <2>1
  <2>3. x % W = IF x < 0 THEN x + W ELSE IF x < W THEN x ELSE x - W
    BY <2>2, AroundAWord
  <2> QED BY <1>1, <2>1, <2>3
<1> QED BY <1>1, <1>4, <1>5, <1>6, <1>7, WordIs DEF uint, W

\* The key of an int is the bytes of its word.
LEMMA IntKeyIs ==
  ASSUME NEW u \in Word
  PROVE  IntKey[u] = BigEndian(IntBits(u))
<1>1. (uint(int(u)) + signBit) % 2 ^ WordBits = IntBits(u)
  BY IntIs DEF W
<1> QED BY <1>1 DEF IntKey, AppendKeyInt64

\* Ints compare as their keys do, and come out of them.
LEMMA IntKeysCompare ==
  ASSUME NEW u \in Word, NEW w \in Word
  PROVE  /\ int(u) < int(w) <=> Below(IntKey[u], IntKey[w])
         /\ KeyInt64(IntKey[u]) = Decoded(int(u), WordBytes)
<1>1. IntBits(u) \in Word /\ IntBits(w) \in Word
  BY IntIs
<1>2. IntBits(u) < IntBits(w) <=> Below(IntKey[u], IntKey[w])
  BY <1>1, BytesCompare, IntKeyIs
<1>3. int(u) < int(w) <=> IntBits(u) < IntBits(w)
  <2>1. PICK h \in Nat \ {0} : h = signBit /\ W = 2 * h /\ u \in 0 .. 2 * h - 1 /\ w \in 0 .. 2 * h - 1
    BY WordIs
  <2>2. int(u) = IF u >= h THEN u - W ELSE u
    BY <2>1 DEF int, W
  <2>3. int(w) = IF w >= h THEN w - W ELSE w
    BY <2>1 DEF int, W
  <2>4. IntBits(u) = IF u >= h THEN u - h ELSE u + h
    BY <2>1 DEF IntBits
  <2>5. IntBits(w) = IF w >= h THEN w - h ELSE w + h
    BY <2>1 DEF IntBits
  <2> QED BY <2>1, <2>2, <2>3, <2>4, <2>5
<1>4. KeyInt64(IntKey[u]) = Decoded(int(u), WordBytes)
  <2>1. FromBigEndian(IntKey[u]) = IntBits(u)
    BY <1>1, IntKeyIs, BigEndianReadsBack
  <2>2. (IntBits(u) + signBit) % 2 ^ WordBits = u
    BY IntIs DEF W
  <2>3. ~ (Len(IntKey[u]) < WordBytes)
    BY IntKeyIs, KeyIsWhole
  <2> QED BY <2>1, <2>2, <2>3 DEF KeyInt64
<1> QED BY <1>2, <1>3, <1>4

-----------------------------------------------------------------------------
(* Keys of floats.                                                         *)

P == 2 ^ MantissaBits
Exponents == 2 ^ (WordBits - 1 - MantissaBits)

\* The number of a float without its sign.
Num(mag) ==
  LET e == mag \div P
      m == mag % P
  IN IF e = 0 THEN m ELSE (P + m) * 2 ^ (e - 1)

\* Exponents and mantissas, infinity and NaN.
LEMMA FloatWidths ==
  /\ P \in Nat /\ P >= 4 /\ Exponents \in Nat \ {0} /\ signBit = Exponents * P
  /\ Infinity = signBit - P /\ NaN \in Infinity + 1 .. signBit - 1
  /\ Infinity \in Nat
<1>1. PICK n \in Nat : n = 2 * WordBits
  BY WidthsAre
<1>2. PICK e \in Nat : e = WordBits - 1 - MantissaBits
  BY WidthsAre
<1>3. PICK m \in Nat : m = MantissaBits - 2
  BY WidthsAre
<1>4. \A x \in 0 .. n : 2 ^ x \in Nat \ {0} /\ 2 ^ (x + 1) = 2 * 2 ^ x
  BY <1>1, PowersAssumption
<1>5. e \in 0 .. n /\ m \in 0 .. n /\ m + 1 \in 0 .. n /\ MantissaBits = (m + 1) + 1
      /\ MantissaBits - 1 = m + 1 /\ MantissaBits \in 0 .. n /\ e + MantissaBits = WordBits - 1
      /\ e + MantissaBits <= n
  BY <1>1, <1>2, <1>3, WidthsAre
<1>6. PICK a \in Nat \ {0} : a = 2 ^ m
  BY <1>4, <1>5
<1>7. 2 ^ (MantissaBits - 1) = 2 * a /\ P = 4 * a
  <2>1. 2 ^ (m + 1) = 2 * 2 ^ m /\ 2 ^ ((m + 1) + 1) = 2 * 2 ^ (m + 1)
    BY <1>4, <1>5
  <2> QED BY <1>5, <1>6, <2>1 DEF P
<1>8. Exponents \in Nat \ {0}
  BY <1>2, <1>4, <1>5 DEF Exponents
<1>9. signBit = Exponents * P
  <2>1. 2 ^ (e + MantissaBits) = 2 ^ e * 2 ^ MantissaBits
    BY <1>4, <1>5, WidthsAre, PowersMultiply
  <2> QED BY <1>2, <1>5, <2>1 DEF signBit, Exponents, P
<1>10. Infinity = signBit - P
  <2>1. (Exponents - 1) * P = Exponents * P - P
    BY <1>7, <1>8, Products
  <2> QED BY <1>9, <2>1 DEF Infinity, Exponents, P
<1>11. NaN = Infinity + 2 * a + 1
  BY <1>7 DEF NaN
<1>12. Infinity \in Nat /\ signBit \in Nat
  <2>1. 1 * P <= Exponents * P
    BY <1>7, <1>8, Products
  <2> QED BY <1>7, <1>9, <1>10, <2>1, WordIs, SMTT(30)
<1> QED BY <1>6, <1>7, <1>8, <1>9, <1>10, <1>11, <1>12

\* The greater exponent has the greater power.
LEMMA PowersGrow ==
  ASSUME NEW a \in Nat, NEW b \in Nat, a <= b, b <= Exponents
  PROVE  2 ^ a \in Nat \ {0} /\ 2 ^ b \in Nat \ {0} /\ 2 ^ a <= 2 ^ b
<1>1. \A x \in 0 .. Exponents : 2 ^ x \in Nat \ {0} /\ 2 ^ (x + 1) = 2 * 2 ^ x
  BY PowersAssumption DEF Exponents
<1>2. PICK n \in Nat : n = Exponents
  BY FloatWidths
<1>3. PICK d \in Nat : d = b - a /\ a + d = b
  OBVIOUS
<1>4. a \in 0 .. n /\ b \in 0 .. n /\ d \in 0 .. n /\ a + d <= n
  BY <1>2, <1>3
<1>5. PICK x \in Nat \ {0}, y \in Nat \ {0} : x = 2 ^ a /\ y = 2 ^ d
  BY <1>1, <1>2, <1>4
<1>6. 2 ^ (a + d) = 2 ^ a * 2 ^ d
  BY <1>1, <1>2, <1>4, PowersMultiply
<1>7. 1 * x <= y * x /\ x * y = y * x /\ 1 * x = x
  <2>1. 1 <= y /\ 1 \in Int /\ y \in Int /\ x \in Int /\ 0 <= x
    OBVIOUS
  <2> QED BY <2>1, Products
<1> QED BY <1>1, <1>2, <1>3, <1>4, <1>5, <1>6, <1>7

\* A float is its sign and the rest.
LEMMA MagnitudeIs ==
  ASSUME NEW f \in Word
  PROVE  /\ Magnitude(f) \in 0 .. signBit - 1
         /\ f = IF Negative(f) THEN Magnitude(f) + signBit ELSE Magnitude(f)
<1>1. PICK h \in Nat \ {0} : h = signBit /\ f \in 0 .. 2 * h - 1
  BY WordIs
<1>2. CASE f >= h
  <2>1. f = 1 * h + (f - h) /\ f - h \in 0 .. h - 1
    BY <1>1, <1>2
  <2>2. f % h = f - h
    BY <1>1, <2>1, DivisionUnique
  <2> QED BY <1>1, <1>2, <2>2 DEF Magnitude, Negative
<1>3. CASE f < h
  <2>1. f = 0 * h + f /\ f \in 0 .. h - 1
    BY <1>1, <1>3
  <2>2. f % h = f
    BY <1>1, <2>1, DivisionUnique
  <2> QED BY <1>1, <1>3, <2>2 DEF Magnitude, Negative
<1> QED BY <1>1, <1>2, <1>3

\* A number lies between two powers, by its exponent.
LEMMA NumIs ==
  ASSUME NEW mag \in 0 .. signBit - 1
  PROVE  /\ mag \div P \in 0 .. Exponents - 1 /\ mag % P \in 0 .. P - 1
         /\ mag = (mag \div P) * P + (mag % P)
         /\ Num(mag) \in Nat /\ 2 ^ (mag \div P) \in Nat
         /\ Num(mag) < P * 2 ^ (mag \div P)
         /\ mag \div P # 0 => P * 2 ^ ((mag \div P) - 1) <= Num(mag)
<1>1. P \in Nat \ {0} /\ signBit = Exponents * P /\ Exponents \in Nat \ {0} /\ signBit \in Nat
  BY FloatWidths, WordIs
<1>2. PICK e \in Int, m \in 0 .. P - 1 : e = mag \div P /\ m = mag % P /\ mag = e * P + m
  <2>1. mag \in Int
    BY <1>1
  <2> QED BY <1>1, <2>1, Division
<1>3. e \in 0 .. Exponents - 1
  <2>1. e * P \in Int /\ Exponents * P \in Int
    BY <1>1, Products
  <2>2. e * P < Exponents * P
    BY <1>1, <1>2, <2>1
  <2>3. (-1) * P < e * P
    BY <1>1, <1>2, <2>1
  <2>4. e < Exponents /\ -1 < e
    BY <1>1, <2>2, <2>3, Cancel
  <2> QED BY <1>1, <2>4
<1>4. Num(mag) = IF e = 0 THEN m ELSE (P + m) * 2 ^ (e - 1)
  BY <1>2 DEF Num
<1>5. CASE e = 0
  <2>1. 2 ^ e = 1
    BY <1>5, PowersAssumption
  <2> QED BY <1>1, <1>2, <1>3, <1>4, <1>5, <2>1
<1>6. CASE e # 0
  <2>1. e - 1 \in 0 .. Exponents /\ (e - 1) + 1 = e
    BY <1>1, <1>3, <1>6
  <2>2. PICK y \in Nat \ {0} : y = 2 ^ (e - 1) /\ 2 ^ e = 2 * y
    BY <2>1, PowersAssumption DEF Exponents
  <2>3. (P + m) * y < (2 * P) * y /\ P * y <= (P + m) * y
    <3>1. P + m \in Int /\ 2 * P \in Int /\ P + m < 2 * P /\ P <= P + m /\ P \in Int /\ y \in Int /\ 0 <= y
      BY <1>1
    <3> QED BY <3>1, Cancel, Products
  <2>4. (2 * P) * y = P * (2 * y)
    BY <1>1
  <2>5. (P + m) * y \in Nat /\ 2 * y \in Nat
    <3>1. P + m \in Nat /\ y \in Nat
      BY <1>1
    <3> QED BY <3>1, Products
  <2> QED BY <1>2, <1>3, <1>4, <1>6, <2>2, <2>3, <2>4, <2>5
<1> QED BY <1>5, <1>6

\* Numbers are in the order of their bits.
LEMMA NumsGrow ==
  ASSUME NEW a \in 0 .. signBit - 1, NEW b \in 0 .. signBit - 1, a < b
  PROVE  Num(a) < Num(b)
<1>1. P \in Nat \ {0} /\ Exponents \in Nat \ {0} /\ signBit \in Nat
  BY FloatWidths, WordIs
<1>2. PICK e \in 0 .. Exponents - 1, m \in 0 .. P - 1 : e = a \div P /\ m = a % P /\ a = e * P + m
  BY NumIs
<1>3. PICK i \in 0 .. Exponents - 1, n \in 0 .. P - 1 : i = b \div P /\ n = b % P /\ b = i * P + n
  BY NumIs
<1>4. PICK x \in Nat, y \in Nat : x = Num(a) /\ y = Num(b)
  BY NumIs
<1>5. CASE e = i
  <2>1. m < n
    <3>1. e * P \in Int
      BY <1>1, Products
    <3> QED BY <1>2, <1>3, <1>5, <3>1
  <2>2. Num(a) = (IF e = 0 THEN m ELSE (P + m) * 2 ^ (e - 1))
        /\ Num(b) = (IF e = 0 THEN n ELSE (P + n) * 2 ^ (e - 1))
    BY <1>2, <1>3, <1>5 DEF Num
  <2>3. CASE e = 0
    BY <2>1, <2>2, <2>3
  <2>4. CASE e # 0
    <3>1. e - 1 \in 0 .. Exponents
      BY <1>1, <2>4
    <3>2. PICK z \in Nat \ {0} : z = 2 ^ (e - 1)
      BY <3>1, PowersAssumption DEF Exponents
    <3>3. P + m \in Int /\ P + n \in Int /\ P + m < P + n
      BY <1>1, <2>1
    <3>4. (P + m) * z < (P + n) * z
      BY <3>3, Cancel
    <3> QED BY <2>2, <2>4, <3>2, <3>4
  <2> QED BY <2>3, <2>4
<1>6. CASE e < i
  <2>1. i - 1 \in Nat /\ e \in Nat /\ e <= i - 1 /\ i - 1 <= Exponents /\ i # 0
    BY <1>1, <1>6
  <2>2. PICK s \in Nat, t \in Nat : s = 2 ^ e /\ t = 2 ^ (i - 1) /\ s <= t
    BY <2>1, PowersGrow
  <2>3. x < P * s
    <3>1. Num(a) < P * 2 ^ (a \div P)
      BY NumIs
    <3> QED BY <1>2, <1>4, <2>2, <3>1
  <2>4. P * t <= y
    <3>1. b \div P # 0 => P * 2 ^ ((b \div P) - 1) <= Num(b)
      BY NumIs
    <3> QED BY <1>3, <1>4, <2>1, <2>2, <3>1
  <2>5. s * P <= t * P /\ s * P = P * s /\ t * P = P * t /\ s * P \in Int /\ t * P \in Int
    <3>1. s \in Int /\ t \in Int /\ P \in Int /\ 0 <= P
      BY <1>1
    <3>2. s * P <= t * P
      BY <2>2, <3>1, Products
    <3> QED BY <3>1, <3>2, Products
  <2>6. PICK c \in Int, d \in Int : c = P * s /\ d = P * t
    BY <2>5
  <2>7. x < c /\ d <= y /\ c <= d
    BY <2>3, <2>4, <2>5, <2>6
  <2> QED BY <1>4, <2>7
<1>7. ~ (i < e)
  <2> SUFFICES ASSUME i < e PROVE FALSE
    OBVIOUS
  <2>1. (i + 1) * P <= e * P /\ (i + 1) * P = i * P + P /\ i * P \in Int /\ e * P \in Int
    <3>1. i + 1 <= e /\ i + 1 \in Int /\ e \in Int /\ i \in Int /\ P \in Int /\ 0 <= P
      BY <1>1
    <3>2. (i + 1) * P <= e * P
      BY <3>1, Products
    <3> QED BY <3>1, <3>2, Products
  <2>2. PICK c \in Int, d \in Int : c = i * P /\ d = e * P
    BY <2>1
  <2>3. c + P <= d /\ a = d + m /\ b = c + n
    BY <1>2, <1>3, <2>1, <2>2
  <2> QED BY <1>1, <2>3
<1> QED BY <1>1, <1>5, <1>6, <1>7

\* A key's word.
FloatBits(f) ==
  LET b == OneOfEach(f) IN IF Negative(b) THEN Complement(b) ELSE b + signBit

\* What the key of a float says: of each float, and back.
LEMMA FloatBitsAre ==
  ASSUME NEW f \in Word
  PROVE  /\ OneOfEach(f) \in Word /\ FloatBits(f) \in Word
         /\ Magnitude(f) = 0 => FloatBits(f) = signBit
         /\ IsNaN(f) => FloatBits(f) = NaN + signBit
         /\ Magnitude(f) # 0 /\ ~IsNaN(f) =>
              FloatBits(f) = IF Negative(f) THEN signBit - 1 - Magnitude(f) ELSE signBit + Magnitude(f)
         /\ OneOfEach(f) = IF FloatBits(f) >= signBit THEN FloatBits(f) - signBit
                           ELSE Complement(FloatBits(f))
<1>1. PICK h \in Nat \ {0} : h = signBit /\ W = 2 * h /\ Word = 0 .. 2 * h - 1
  BY WordIs
<1>2. PICK mag \in 0 .. h - 1 : mag = Magnitude(f)
  BY <1>1, MagnitudeIs
<1>3. PICK inf \in Nat, nan \in 0 .. h - 1 : inf = Infinity /\ nan = NaN /\ inf < nan
  BY <1>1, FloatWidths
<1>4. IsNaN(f) <=> mag > inf
  BY <1>2, <1>3 DEF IsNaN
<1>5. f = IF Negative(f) THEN mag + h ELSE mag
  BY <1>1, <1>2, MagnitudeIs
<1>6. \A b : Complement(b) = 2 * h - 1 - b /\ (Negative(b) <=> b >= h)
  BY <1>1 DEF Complement, Negative, W
<1>7. OneOfEach(f) = IF mag = 0 THEN 0 ELSE IF mag > inf THEN nan ELSE f
  BY <1>2, <1>3, <1>4 DEF OneOfEach, Zero
<1>8. FloatBits(f) = IF OneOfEach(f) >= h THEN 2 * h - 1 - OneOfEach(f) ELSE OneOfEach(f) + h
  BY <1>1, <1>6 DEF FloatBits
<1>9. PICK b \in 0 .. 2 * h - 1 : b = OneOfEach(f)
  BY <1>1, <1>7
<1>10. PICK k \in Int : k = FloatBits(f) /\ k = IF b >= h THEN 2 * h - 1 - b ELSE b + h
  BY <1>8, <1>9
<1>11. b = IF k >= h THEN k - h ELSE 2 * h - 1 - k
  BY <1>10
<1>12. k \in 0 .. 2 * h - 1
  BY <1>10
<1>13. mag = 0 => k = h
  BY <1>7, <1>9, <1>10
<1>14. mag > inf => k = nan + h
  BY <1>3, <1>7, <1>9, <1>10
<1>15. mag # 0 /\ ~(mag > inf) => k = IF Negative(f) THEN h - 1 - mag ELSE h + mag
  <2>1. mag # 0 /\ ~(mag > inf) => b = f
    BY <1>7, <1>9
  <2>2. Negative(f) <=> f >= h
    BY <1>6
  <2> QED BY <1>5, <1>10, <2>1, <2>2
<1> QED BY <1>1, <1>2, <1>3, <1>4, <1>6, <1>9, <1>10, <1>11, <1>12, <1>13, <1>14, <1>15

\* The key of a float is the bytes of that word.
LEMMA FloatKeyIs ==
  ASSUME NEW f \in Word
  PROVE  FloatKey[f] = BigEndian(FloatBits(f))
BY DEF FloatKey, AppendKeyFloat64, FloatBits

\* The number of a float, by its sign.
LEMMA NumberIs ==
  ASSUME NEW f \in Word
  PROVE  Number(f) = IF Negative(f) THEN -Num(Magnitude(f)) ELSE Num(Magnitude(f))
BY DEF Number, Num, P

\* Nothing is the number of no bits.
LEMMA ZeroIs == Num(0) = 0 /\ 0 \in 0 .. signBit - 1
<1>1. P \in Nat \ {0} /\ signBit \in Nat \ {0}
  BY FloatWidths, WordIs
<1>2. 0 = 0 * P + 0 /\ 0 \in 0 .. P - 1
  BY <1>1
<1>3. 0 \div P = 0 /\ 0 % P = 0
  BY <1>1, <1>2, DivisionUnique
<1> QED BY <1>1, <1>3 DEF Num

\* The order of floats is that of their keys' words.
LEMMA FloatsCompare ==
  ASSUME NEW u \in Word, NEW w \in Word
  PROVE  FloatBefore(u, w) <=> FloatBits(u) < FloatBits(w)
<1>1. PICK h \in Nat \ {0} : h = signBit
  BY WordIs
<1>2. PICK a \in 0 .. h - 1, b \in 0 .. h - 1 : a = Magnitude(u) /\ b = Magnitude(w)
  BY <1>1, MagnitudeIs
<1>3. PICK inf \in Nat, nan \in 0 .. h - 1 : inf = Infinity /\ nan = NaN /\ inf < nan
  BY <1>1, FloatWidths
<1>4. (IsNaN(u) <=> a > inf) /\ (IsNaN(w) <=> b > inf)
  BY <1>2, <1>3 DEF IsNaN
<1>5. PICK x \in Nat, y \in Nat : x = Num(a) /\ y = Num(b)
  BY <1>1, NumIs
<1>6. (a < b => x < y) /\ (b < a => y < x) /\ (a = b => x = y)
  BY <1>1, <1>5, NumsGrow
<1>7. (a = 0 <=> x = 0) /\ (b = 0 <=> y = 0)
  <2>1. \A c \in 0 .. h - 1 : 0 < c => Num(0) < Num(c)
    BY <1>1, ZeroIs, NumsGrow
  <2> QED BY <1>5, <2>1, ZeroIs
<1>8. PICK i \in Int, j \in Int : i = FloatBits(u) /\ j = FloatBits(w)
  <2>1. FloatBits(u) \in Word /\ FloatBits(w) \in Word
    BY FloatBitsAre
  <2>2. Word \subseteq Int
    BY WordIs
  <2> QED BY <2>1, <2>2
<1>9. (a = 0 => i = h) /\ (a > inf => i = nan + h)
      /\ (a # 0 /\ ~(a > inf) => i = IF Negative(u) THEN h - 1 - a ELSE h + a)
  BY <1>1, <1>2, <1>3, <1>4, <1>8, FloatBitsAre
<1>10. (b = 0 => j = h) /\ (b > inf => j = nan + h)
       /\ (b # 0 /\ ~(b > inf) => j = IF Negative(w) THEN h - 1 - b ELSE h + b)
  BY <1>1, <1>2, <1>3, <1>4, <1>8, FloatBitsAre
<1>11. FloatBefore(u, w) <=> ~(a > inf) /\ (b > inf \/ Number(u) < Number(w))
  BY <1>4 DEF FloatBefore
<1>12. Number(u) = (IF Negative(u) THEN -x ELSE x) /\ Number(w) = (IF Negative(w) THEN -y ELSE y)
  BY <1>2, <1>5, NumberIs
<1>13. FloatBefore(u, w) <=> i < j
  <2>1. CASE Negative(u) /\ Negative(w)
    BY <1>3, <1>6, <1>7, <1>9, <1>10, <1>11, <1>12, <2>1
  <2>2. CASE Negative(u) /\ ~Negative(w)
    BY <1>3, <1>6, <1>7, <1>9, <1>10, <1>11, <1>12, <2>2
  <2>3. CASE ~Negative(u) /\ Negative(w)
    BY <1>3, <1>6, <1>7, <1>9, <1>10, <1>11, <1>12, <2>3
  <2>4. CASE ~Negative(u) /\ ~Negative(w)
    BY <1>3, <1>6, <1>7, <1>9, <1>10, <1>11, <1>12, <2>4
  <2> QED BY <2>1, <2>2, <2>3, <2>4
<1> QED BY <1>8, <1>13

\* Floats compare as their keys do, and come out of them.
LEMMA FloatKeysCompare ==
  ASSUME NEW u \in Word, NEW w \in Word
  PROVE  /\ FloatBefore(u, w) <=> Below(FloatKey[u], FloatKey[w])
         /\ KeyFloat64(FloatKey[u]) = Decoded(OneOfEach(u), WordBytes)
<1>1. FloatBits(u) \in Word /\ FloatBits(w) \in Word
  BY FloatBitsAre
<1>2. FloatBits(u) < FloatBits(w) <=> Below(FloatKey[u], FloatKey[w])
  BY <1>1, BytesCompare, FloatKeyIs
<1>3. KeyFloat64(FloatKey[u]) = Decoded(OneOfEach(u), WordBytes)
  <2>1. FromBigEndian(FloatKey[u]) = FloatBits(u)
    BY <1>1, FloatKeyIs, BigEndianReadsBack
  <2>2. ~ (Len(FloatKey[u]) < WordBytes)
    BY FloatKeyIs, KeyIsWhole
  <2> QED BY <2>1, <2>2, FloatBitsAre DEF KeyFloat64
<1> QED BY <1>2, <1>3, FloatsCompare

\* What KeysKeepOrder says, of all words.
LEMMA KeysCompare ==
  ASSUME NEW u \in Word
  PROVE  /\ KeyUint64(UintKey[u]) = Decoded(u, WordBytes)
         /\ KeyInt64(IntKey[u]) = Decoded(int(u), WordBytes)
         /\ KeyFloat64(FloatKey[u]) = Decoded(OneOfEach(u), WordBytes)
         /\ \A w \in Word :
              /\ u < w             <=> Below(UintKey[u], UintKey[w])
              /\ int(u) < int(w)   <=> Below(IntKey[u], IntKey[w])
              /\ FloatBefore(u, w) <=> Below(FloatKey[u], FloatKey[w])
              /\ FloatBefore(w, u) <=> Below(FloatKey[w], FloatKey[u])
<1>1. \A w \in Word : UintKey[w] = BigEndian(w)
  BY DEF UintKey, AppendKeyUint64
<1>2. \A w \in Word : u < w <=> Below(UintKey[u], UintKey[w])
  BY <1>1, BytesCompare
<1>3. \A w \in Word : /\ int(u) < int(w) <=> Below(IntKey[u], IntKey[w])
                      /\ FloatBefore(u, w) <=> Below(FloatKey[u], FloatKey[w])
                      /\ FloatBefore(w, u) <=> Below(FloatKey[w], FloatKey[u])
  BY IntKeysCompare, FloatKeysCompare
<1>4. KeyUint64(UintKey[u]) = Decoded(u, WordBytes)
  <2>1. FromBigEndian(UintKey[u]) = u /\ ~ (Len(UintKey[u]) < WordBytes)
    BY <1>1, BigEndianReadsBack, KeyIsWhole
  <2> QED BY <2>1 DEF KeyUint64
<1> QED BY <1>2, <1>3, <1>4, IntKeysCompare, FloatKeysCompare

-----------------------------------------------------------------------------
(* Varints.                                                                *)

\* What byte k + 1 of a varint counts in.
Weight(k) == 2 ^ ((ByteBits - 1) * k)

\* Varints, by how many bytes they have and what these carry.
LEMMA VarintWidths ==
  /\ More \in Nat /\ More >= 4 /\ B = 2 * More
  /\ MaxVarintLen \in Nat /\ MaxVarintLen >= 2
  /\ Weight(0) = 1 /\ W = 2 * Weight(MaxVarintLen - 1)
  /\ \A k \in 0 .. MaxVarintLen : Weight(k) \in Nat \ {0}
  /\ \A k \in 0 .. MaxVarintLen - 1 : Weight(k + 1) = More * Weight(k)
<1>1. PICK n \in Nat : n = 2 * WordBits
  BY WidthsAre
<1>2. \A x \in 0 .. n : 2 ^ x \in Nat \ {0} /\ 2 ^ (x + 1) = 2 * 2 ^ x
  BY <1>1, PowersAssumption
<1>3. PICK c \in Nat \ {0} : c = ByteBits - 1 /\ c >= 2
  BY WidthsAre
<1>4. ByteBits <= WordBits
  <2>1. 1 * ByteBits <= WordBytes * ByteBits
    BY WidthsAre, Products
  <2> QED BY <2>1, WidthsAre
<1>5. PICK q \in Int : WordBits = q * c + 1
  <2>1. WordBits % c = 1
    BY <1>3, BitsAssumption
  <2>2. WordBits \in Int
    BY WidthsAre
  <2>3. WordBits = (WordBits \div c) * c + (WordBits % c) /\ WordBits \div c \in Int
    BY <1>3, <2>2, Division
  <2> QED BY <2>1, <2>3
<1>6. MaxVarintLen = q + 1
  <2>1. (q + 1) * c = q * c + c /\ q * c \in Int
    BY <1>3, <1>5, Products
  <2>2. PICK a \in Int : a = WordBits + ByteBits - 2
    BY WidthsAre
  <2>3. a = (q + 1) * c + 0 /\ 0 \in 0 .. c - 1 /\ q + 1 \in Int
    BY <1>3, <1>5, <2>1, <2>2, WidthsAre
  <2>4. a \div c = q + 1
    BY <1>3, <2>3, DivisionUnique
  <2> QED BY <1>3, <2>2, <2>4 DEF MaxVarintLen
<1>7. q >= 1
  <2>1. 0 * c < q * c
    <3>1. q * c \in Int
      BY <1>3, <1>5, Products
    <3> QED BY <1>3, <1>5, <3>1, WidthsAre
  <2> QED BY <1>3, <1>5, <2>1, Cancel
<1>8. ASSUME NEW k \in 0 .. q + 1 PROVE c * k \in 0 .. WordBits - 1 + c
  <2>1. k * c <= (q + 1) * c /\ (q + 1) * c = q * c + c /\ q * c \in Int /\ k * c \in Nat
    <3>1. k \in Nat /\ k \in Int /\ q + 1 \in Int /\ k <= q + 1 /\ c \in Int /\ 0 <= c /\ c \in Nat
      BY <1>3, <1>5
    <3>2. k * c <= (q + 1) * c
      BY <3>1, Products
    <3>3. (q + 1) * c = q * c + c /\ q * c \in Int
      BY <1>5, <3>1, Products
    <3> QED BY <3>1, <3>2, <3>3, Products
  <2>2. c * k = k * c
    BY <1>3
  <2> QED BY <1>3, <1>5, <2>1, <2>2, WidthsAre
<1>9. c \in 0 .. n /\ WordBits - 1 + c <= n
  BY <1>1, <1>3, <1>4, WidthsAre
<1>10. More = 2 ^ c
  BY <1>3 DEF More
<1>11. More \in Nat /\ More >= 4
  <2>1. PICK d \in Nat : d = c - 2 /\ c = (d + 1) + 1 /\ d \in 0 .. n /\ d + 1 \in 0 .. n
    BY <1>3, <1>9
  <2>2. 2 ^ d \in Nat \ {0} /\ 2 ^ (d + 1) = 2 * 2 ^ d /\ 2 ^ ((d + 1) + 1) = 2 * 2 ^ (d + 1)
    BY <1>2, <2>1
  <2> QED BY <1>10, <2>1, <2>2
<1>12. B = 2 * More
  <2>1. 2 ^ (c + 1) = 2 * 2 ^ c /\ c + 1 = ByteBits
    BY <1>2, <1>3, <1>9, WidthsAre
  <2> QED BY <1>10, <2>1 DEF B
<1>13. Weight(0) = 1
  <2>1. (ByteBits - 1) * 0 = 0
    BY WidthsAre
  <2> QED BY <2>1, PowersAssumption DEF Weight
<1>14. ASSUME NEW k \in 0 .. q + 1 PROVE Weight(k) \in Nat \ {0}
  <2>1. c * k \in 0 .. n
    BY <1>8, <1>9, <1>1, WidthsAre, <1>3
  <2> QED BY <1>2, <1>3, <2>1 DEF Weight
<1>15. ASSUME NEW k \in 0 .. q PROVE Weight(k + 1) = More * Weight(k)
  <2>1. k \in 0 .. q + 1 /\ k + 1 \in 0 .. q + 1
    BY <1>5
  <2>2. PICK a \in Nat : a = c * k
    <3>1. c * k \in 0 .. WordBits - 1 + c
      BY <1>8, <2>1
    <3> QED BY <1>3, <3>1, WidthsAre
  <2>3. c * (k + 1) = c + a /\ c + a <= n
    <3>1. c * (k + 1) = c * k + c
      BY <1>3
    <3>2. c * (k + 1) \in 0 .. WordBits - 1 + c
      BY <1>8, <2>1
    <3> QED BY <1>3, <1>9, <2>2, <3>1, <3>2, WidthsAre
  <2>4. 2 ^ (c + a) = 2 ^ c * 2 ^ a
    BY <1>1, <1>2, <1>3, <2>3, PowersMultiply
  <2> QED BY <1>3, <1>10, <2>2, <2>3, <2>4 DEF Weight
<1>16. W = 2 * Weight(q)
  <2>1. c * q = WordBits - 1 /\ c * q \in 0 .. n /\ WordBits = (WordBits - 1) + 1
    <3>1. c * q = q * c /\ q * c \in Int
      BY <1>3, <1>5
    <3> QED BY <1>1, <1>5, <3>1, WidthsAre
  <2>2. 2 ^ ((WordBits - 1) + 1) = 2 * 2 ^ (WordBits - 1)
    BY <1>2, <2>1
  <2> QED BY <1>3, <2>1, <2>2 DEF W, Weight
<1>17. MaxVarintLen - 1 = q /\ q \in Nat
  BY <1>5, <1>6, <1>7
<1> QED BY <1>5, <1>6, <1>7, <1>11, <1>12, <1>13, <1>14, <1>15, <1>16, <1>17

\* The rest of a word, after the lowest bits.
LEMMA Shifted ==
  ASSUME NEW u \in Word
  PROVE  /\ u \in Nat /\ u \div More \in Word /\ u % More \in 0 .. More - 1
         /\ u = More * (u \div More) + (u % More)
         /\ u >= More => u \div More < u /\ u \div More # 0
<1>1. PICK m \in Nat \ {0} : m = More /\ m >= 4
  BY VarintWidths
<1>2. u \in Nat /\ u < W /\ W \in Nat
  BY WordIs
<1>3. PICK q \in Int, r \in 0 .. m - 1 : q = u \div m /\ r = u % m /\ u = q * m + r
  <2>1. u \in Int
    BY <1>2
  <2>2. u % m \in 0 .. m - 1 /\ u \div m \in Int /\ u = (u \div m) * m + (u % m)
    BY <2>1, Division
  <2> QED BY <1>1, <2>2
<1>4. q \in Nat
  <2>1. (-1) * m < q * m
    <3>1. q * m \in Int
      BY <1>1, Products
    <3> QED BY <1>1, <1>2, <1>3, <3>1
  <2> QED BY <1>1, <2>1, Cancel
<1>5. q * 4 <= q * m /\ q * m \in Nat /\ q * m = m * q
  <2>1. 4 * q <= m * q
    BY <1>1, <1>4, Products
  <2> QED BY <1>1, <1>4, <2>1, Products
<1>6. PICK a \in Nat : a = q * m /\ 4 * q <= a /\ u = a + r /\ a = m * q
  BY <1>3, <1>5
<1>7. q <= u /\ (u >= m => q < u)
  <2>1. q = 0 \/ q >= 1
    BY <1>4
  <2>2. q <= u
    BY <1>4, <1>6
  <2>3. q >= 1 => q < u
    BY <1>4, <1>6
  <2>4. u >= m => u > 0
    BY <1>1, <1>2
  <2> QED BY <2>1, <2>2, <2>3, <2>4
<1>8. u >= m => q # 0
  <2>1. q = 0 => a = 0
    BY <1>1, <1>6
  <2> QED BY <1>1, <1>6, <2>1
<1>9. q \in Word
  BY <1>2, <1>4, <1>7, WordIs
<1> QED BY <1>1, <1>2, <1>3, <1>6, <1>7, <1>8, <1>9

\* Groups is there: word by word, in the order of the words.
LEMMA GroupsExist ==
  \E g : g = [u \in Word |-> IF u >= More THEN <<More + (u % More)>> \o g[u \div More] ELSE <<u>>]
<1> DEFINE Sat(g, n) ==
      g = [u \in 0 .. n |-> IF u >= More THEN <<More + (u % More)>> \o g[u \div More] ELSE <<u>>]
<1> DEFINE T == {n \in Nat : n < W => \E g : Sat(g, n)}
<1>1. More \in Nat /\ More >= 4 /\ W \in Nat \ {0} /\ Word = 0 .. W - 1
  BY VarintWidths, WordIs
<1>2. 0 \in T
  <2>1. PICK g : g = [u \in 0 .. 0 |-> <<u>>]
    OBVIOUS
  <2>2. \A u \in 0 .. 0 : ~(u >= More)
    BY <1>1
  <2>3. Sat(g, 0)
    BY <2>1, <2>2
  <2> QED BY <2>3
<1>3. ASSUME NEW n \in T, n + 1 < W PROVE \E g : Sat(g, n + 1)
  <2>1. PICK f : Sat(f, n)
    <3>1. n < W
      BY <1>1, <1>3
    <3> QED BY <3>1, Zenon
  <2>2. \A u \in 0 .. n : f[u] = IF u >= More THEN <<More + (u % More)>> \o f[u \div More] ELSE <<u>>
    BY <2>1
  <2>3. ASSUME NEW u \in 0 .. n + 1, u >= More PROVE u \div More \in 0 .. n
    <3>1. u \in Word
      BY <1>1, <1>3
    <3>2. u \div More \in Nat /\ u \div More < u
      BY <1>1, <2>3, <3>1, Shifted
    <3> QED BY <3>2
  <2>4. PICK e : e = IF n + 1 >= More THEN <<More + ((n + 1) % More)>> \o f[(n + 1) \div More] ELSE <<n + 1>>
    OBVIOUS
  <2>5. PICK g : g = [u \in 0 .. n + 1 |-> IF u = n + 1 THEN e ELSE f[u]]
    OBVIOUS
  <2>6. \A u \in 0 .. n : g[u] = f[u]
    BY <2>5
  <2>7. g[n + 1] = e
    BY <2>5
  <2>8. ASSUME NEW u \in 0 .. n + 1
        PROVE  g[u] = IF u >= More THEN <<More + (u % More)>> \o g[u \div More] ELSE <<u>>
    <3>1. u >= More => g[u \div More] = f[u \div More]
      BY <2>3, <2>6
    <3>2. CASE u = n + 1
      BY <2>4, <2>7, <3>1, <3>2
    <3>3. CASE u # n + 1
      <4>1. u \in 0 .. n
        BY <3>3
      <4> QED BY <2>2, <2>6, <3>1, <4>1
    <3> QED BY <3>2, <3>3
  <2>9. g = [u \in 0 .. n + 1 |-> g[u]]
    BY <2>5
  <2>10. Sat(g, n + 1)
    BY <2>8, <2>9, Zenon
  <2> QED BY <2>10
<1>4. T = Nat
  <2>1. T \in SUBSET Nat /\ \A n \in T : n + 1 \in T
    BY <1>3
  <2> HIDE DEF T
  <2> QED BY <1>2, <2>1, Induction
<1>5. PICK n \in Nat : n = W - 1 /\ n < W /\ Word = 0 .. n
  BY <1>1
<1>6. \E g : Sat(g, n)
  BY <1>4, <1>5
<1> QED BY <1>5, <1>6

\* And unfolds.
LEMMA GroupsUnfold ==
  ASSUME NEW u \in Word
  PROVE  Groups[u] = IF u >= More THEN <<More + (u % More)>> \o Groups[u \div More] ELSE <<u>>
<1> DEFINE F(g) == [w \in Word |-> IF w >= More THEN <<More + (w % More)>> \o g[w \div More] ELSE <<w>>]
<1>1. Groups = CHOOSE g : g = F(g)
  BY DEF Groups
<1>2. \E g : g = F(g)
  BY GroupsExist
<1>3. Groups = F(Groups)
  <2> HIDE DEF F
  <2> QED BY <1>1, <1>2
<1>4. Groups[u] = F(Groups)[u]
  BY <1>3, Zenon
<1> QED BY <1>4

\* Induction over words: what holds of the rest of a word holds of the word.
LEMMA WordInduction ==
  ASSUME NEW T \in SUBSET Word, \A u \in Word : (u >= More => u \div More \in T) => u \in T
  PROVE  T = Word
<1> SUFFICES ASSUME T # Word PROVE FALSE
  OBVIOUS
<1>1. Word \ T # {} /\ Word \ T \in SUBSET Nat
  <2>1. Word \subseteq Nat
    BY WordIs
  <2> QED BY <2>1
<1>2. PICK u \in Word \ T : \A w \in Word \ T : u <= w
  BY <1>1, LeastNumber, Zenon
<1>3. PICK q \in Word : q = u \div More /\ u >= More /\ q < u
  BY Shifted
<1>4. q \in Word \ T
  BY <1>2, <1>3
<1>5. u \in Int /\ q \in Int
  BY WordIs
<1> QED BY <1>2, <1>3, <1>4, <1>5

\* A varint is bytes; all but the last say that another follows.
LEMMA GroupsAre ==
  ASSUME NEW u \in Word
  PROVE  /\ Groups[u] \in Seq(Byte) /\ Len(Groups[u]) >= 1
         /\ \A i \in 1 .. Len(Groups[u]) - 1 : Groups[u][i] >= More
         /\ Groups[u][Len(Groups[u])] < More
<1> DEFINE Good(g) ==
      /\ g \in Seq(Byte) /\ Len(g) >= 1
      /\ \A i \in 1 .. Len(g) - 1 : g[i] >= More
      /\ g[Len(g)] < More
<1> DEFINE T == {w \in Word : Good(Groups[w])}
<1>1. PICK m \in Nat \ {0} : m = More /\ m >= 4 /\ Byte = 0 .. 2 * m - 1
  BY VarintWidths, WordIs
<1>2. ASSUME NEW w \in Word, w >= More => w \div More \in T
      PROVE  Good(Groups[w])
  <2>1. CASE w < More
    <3>1. Groups[w] = <<w>>
      <4>1. ~(w >= More)
        BY <1>1, <2>1, WordIs
      <4> QED BY <4>1, GroupsUnfold, Zenon
    <3>2. w \in Byte
      BY <1>1, <2>1, WordIs
    <3>3. <<w>> \in Seq(Byte) /\ Len(<<w>>) = 1 /\ <<w>>[1] = w
      BY <3>2
    <3> QED BY <2>1, <3>1, <3>3
  <2>2. CASE w >= More
    <3>1. PICK g \in Seq(Byte) : g = Groups[w \div More] /\ Good(g)
      BY <1>2, <2>2
    <3>2. PICK b \in Byte : b = More + (w % More) /\ b >= m
      <4>1. w % More \in 0 .. m - 1
        BY <1>1, Shifted
      <4> QED BY <1>1, <4>1
    <3>3. PICK h : h = <<b>> \o g
      OBVIOUS
    <3>4. Groups[w] = h
      BY <2>2, <3>1, <3>2, <3>3, GroupsUnfold
    <3>5. PICK n \in Nat : n = Len(g)
      OBVIOUS
    <3>6. h \in Seq(Byte) /\ Len(h) = n + 1 /\ h[1] = b /\ \A i \in 2 .. n + 1 : h[i] = g[i - 1]
      <4>1. <<b>> \in Seq(Byte) /\ Len(<<b>>) = 1 /\ <<b>>[1] = b
        OBVIOUS
      <4>2. h \in Seq(Byte) /\ Len(h) = 1 + n
            /\ \A i \in 1 .. 1 + n : h[i] = IF i <= 1 THEN <<b>>[i] ELSE g[i - 1]
        BY <3>3, <3>5, <4>1, ConcatProperties
      <4> QED BY <4>1, <4>2
    <3>7. n >= 1 /\ (\A i \in 1 .. n - 1 : g[i] >= m) /\ g[n] < m
      BY <1>1, <3>1, <3>5
    <3>8. ASSUME NEW i \in 1 .. n PROVE h[i] >= m
      <4>1. CASE i = 1
        BY <3>2, <3>6, <4>1
      <4>2. CASE i # 1
        <5>1. i \in 2 .. n + 1 /\ i - 1 \in 1 .. n - 1
          BY <4>2
        <5> QED BY <3>6, <3>7, <5>1
      <4> QED BY <4>1, <4>2
    <3>9. h[n + 1] < m
      <4>1. n + 1 \in 2 .. n + 1 /\ (n + 1) - 1 = n
        BY <3>7
      <4> QED BY <3>6, <3>7, <4>1
    <3>10. (n + 1) - 1 = n /\ n + 1 >= 1
      OBVIOUS
    <3> QED BY <1>1, <3>4, <3>6, <3>8, <3>9, <3>10
  <2>3. w \in Int
    BY WordIs
  <2> QED BY <1>1, <2>1, <2>2, <2>3
<1>3. T = Word
  <2>1. T \in SUBSET Word /\ \A w \in Word : (w >= More => w \div More \in T) => w \in T
    BY <1>2
  <2> HIDE DEF T
  <2> QED BY <2>1, WordInduction
<1> QED BY <1>3

\* What a byte of a varint carries.
Low(src, i) == src[i] % More

\* A byte carries less than More.
LEMMA LowIs ==
  ASSUME NEW src, NEW i, src[i] \in Byte
  PROVE  Low(src, i) \in 0 .. More - 1
<1>1. PICK m \in Nat \ {0} : m = More
  BY VarintWidths
<1>2. PICK b \in Int : b = src[i]
  BY WordIs
<1>3. b % m \in 0 .. m - 1
  BY Division
<1> QED BY <1>1, <1>2, <1>3 DEF Low

\* y[i] is what bytes i .. n are worth.
Sums(src, n, y) ==
  /\ Worth(src, n) = y[1] /\ y[n + 1] = 0
  /\ \A i \in 1 .. n + 1 : y[i] \in Nat
  /\ \A i \in 1 .. n : y[i] = Low(src, i) + More * y[i + 1]

\* What Worth computes, from the last byte to the first.
LEMMA WorthUnfolds ==
  ASSUME NEW src, NEW n \in Nat, \A i \in 1 .. n : src[i] \in Byte
  PROVE  \E y : Sums(src, n, y)
<1> DEFINE F(y) == [i \in 1 .. n + 1 |-> IF i > n THEN 0 ELSE (src[i] % More) + More * y[i + 1]]
<1>1. More \in Nat
  BY VarintWidths
<1>2. \A i \in 1 .. n : Low(src, i) \in Nat
  BY <1>1, LowIs
<1>3. PICK step : step = [p \in (1 .. n) \X Nat |-> Low(src, n + 1 - p[1]) + More * p[2]]
  OBVIOUS
<1>4. step \in [(1 .. n) \X Nat -> Nat]
  <2>1. ASSUME NEW i \in 1 .. n, NEW z \in Nat PROVE Low(src, n + 1 - i) + More * z \in Nat
    <3>1. n + 1 - i \in 1 .. n /\ More * z \in Nat
      BY <1>1, Products
    <3>2. Low(src, n + 1 - i) \in Nat
      BY <1>2, <3>1
    <3> QED BY <3>1, <3>2
  <2>2. \A p \in (1 .. n) \X Nat : p[1] \in 1 .. n /\ p[2] \in Nat
    OBVIOUS
  <2> QED BY <1>3, <2>1, <2>2
<1>5. PICK x \in [0 .. n -> Nat] : x[0] = 0 /\ \A i \in 1 .. n : x[i] = step[<<i, x[i - 1]>>]
  <2>1. 0 \in Nat
    OBVIOUS
  <2>2. \E x \in [0 .. n -> Nat] : Stepwise(x, n, 0, step)
    BY <1>4, <2>1, StepwiseExists, Zenon
  <2> QED BY <2>2 DEF Stepwise
<1>6. ASSUME NEW i \in 1 .. n PROVE x[i] = Low(src, n + 1 - i) + More * x[i - 1]
  <2>1. x[i - 1] \in Nat
    OBVIOUS
  <2>2. step[<<i, x[i - 1]>>] = Low(src, n + 1 - i) + More * x[i - 1]
    BY <1>3, <2>1
  <2> QED BY <1>5, <2>2
<1>7. PICK y : y = [i \in 1 .. n + 1 |-> x[n + 1 - i]]
  OBVIOUS
<1>8. \A i \in 1 .. n + 1 : n + 1 - i \in 0 .. n /\ y[i] = x[n + 1 - i] /\ y[i] \in Nat
  BY <1>7
<1>9. ASSUME NEW i \in 1 .. n PROVE y[i] = Low(src, i) + More * y[i + 1]
  <2>1. PICK j \in 1 .. n : j = n + 1 - i /\ n + 1 - j = i /\ j - 1 = n + 1 - (i + 1)
    OBVIOUS
  <2>2. y[i] = x[j] /\ y[i + 1] = x[j - 1]
    BY <1>8, <2>1
  <2>3. x[j] = Low(src, n + 1 - j) + More * x[j - 1]
    BY <1>6
  <2> QED BY <2>1, <2>2, <2>3
<1>10. y[n + 1] = 0
  BY <1>5, <1>8
<1>11. y = F(y)
  <2>1. \A i \in 1 .. n + 1 : y[i] = IF i > n THEN 0 ELSE (src[i] % More) + More * y[i + 1]
    <3>1. \A i \in 1 .. n + 1 : (i > n /\ i = n + 1) \/ (~(i > n) /\ i \in 1 .. n)
      OBVIOUS
    <3> QED BY <1>9, <1>10, <3>1 DEF Low
  <2>2. y = [i \in 1 .. n + 1 |-> y[i]]
    BY <1>7
  <2> QED BY <2>1, <2>2
<1>12. PICK z : z = F(z) /\ Worth(src, n) = z[1]
  <2>1. Worth(src, n) = (CHOOSE z : z = F(z))[1]
    BY DEF Worth
  <2> HIDE DEF F
  <2> QED BY <1>11, <2>1
<1>13. z[n + 1] = 0 /\ \A i \in 1 .. n : z[i] = Low(src, i) + More * z[i + 1]
  <2>1. \A i \in 1 .. n + 1 : z[i] = IF i > n THEN 0 ELSE (src[i] % More) + More * z[i + 1]
    BY <1>12
  <2>2. n + 1 \in 1 .. n + 1 /\ n + 1 > n /\ \A i \in 1 .. n : i \in 1 .. n + 1 /\ ~(i > n)
    OBVIOUS
  <2> QED BY <2>1, <2>2 DEF Low
<1>14. \A i \in 1 .. n + 1 : z[i] \in Nat
  <2> DEFINE T == {k \in Nat : k <= n => z[n + 1 - k] \in Nat}
  <2>1. 0 \in T
    BY <1>13
  <2>2. ASSUME NEW k \in T, k + 1 <= n PROVE z[n + 1 - (k + 1)] \in Nat
    <3>1. PICK i \in 1 .. n : i = n + 1 - (k + 1) /\ i + 1 = n + 1 - k
      BY <2>2
    <3>2. z[i + 1] \in Nat
      BY <2>2, <3>1
    <3>3. Low(src, i) \in Nat /\ More * z[i + 1] \in Nat
      BY <1>1, <1>2, <3>2, Products
    <3> QED BY <1>13, <3>1, <3>3
  <2>3. T = Nat
    <3>1. T \in SUBSET Nat /\ \A k \in T : k + 1 \in T
      BY <2>2
    <3> HIDE DEF T
    <3> QED BY <2>1, <3>1, Induction
  <2>4. ASSUME NEW i \in 1 .. n + 1 PROVE z[i] \in Nat
    <3>1. PICK k \in Nat : k = n + 1 - i /\ k <= n /\ n + 1 - k = i
      OBVIOUS
    <3>2. k <= n => z[n + 1 - k] \in Nat
      <4>1. k \in T
        <5> HIDE DEF T
        <5> QED BY <2>3
      <4> QED BY <4>1
    <3> QED BY <3>1, <3>2
  <2> QED BY <2>4
<1>15. Sums(src, n, z)
  BY <1>12, <1>13, <1>14 DEF Sums
<1> QED BY <1>15

\* What Carried computes, from the first byte to the last.
LEMMA CarriedUnfolds ==
  ASSUME NEW src, NEW n \in 0 .. MaxVarintLen, \A i \in 1 .. n : src[i] \in Byte
  PROVE  \E x : /\ Carried(src, n) = x[n] /\ x[0] = 0
                /\ \A i \in 0 .. n : x[i] \in Word
                /\ \A i \in 1 .. n : x[i] = (x[i - 1] + Low(src, i) * Weight(i - 1)) % W
<1> DEFINE F(x) == [i \in 0 .. n |->
                      IF i = 0 THEN 0
                      ELSE uint(x[i - 1] + (src[i] % More) * 2 ^ ((ByteBits - 1) * (i - 1)))]
<1>1. n \in Nat /\ n <= MaxVarintLen /\ MaxVarintLen \in Nat /\ More \in Nat /\ W \in Nat \ {0}
      /\ Word = 0 .. W - 1
  <2>1. MaxVarintLen \in Nat /\ More \in Nat
    BY VarintWidths
  <2> QED BY <2>1, WordIs
<1>2. \A i \in 1 .. n : Low(src, i) \in Nat /\ Weight(i - 1) \in Nat
  <2>1. \A i \in 1 .. n : i - 1 \in 0 .. MaxVarintLen
    BY <1>1
  <2>2. \A i \in 1 .. n : Low(src, i) \in Nat
    BY <1>1, LowIs
  <2> QED BY <2>1, <2>2, VarintWidths
<1>3. PICK step : step = [p \in (1 .. n) \X Word |-> (p[2] + Low(src, p[1]) * Weight(p[1] - 1)) % W]
  OBVIOUS
<1>4. ASSUME NEW i \in 1 .. n, NEW z \in Word PROVE (z + Low(src, i) * Weight(i - 1)) % W \in Word
  <2>1. PICK a \in Int : a = z + Low(src, i) * Weight(i - 1)
    <3>1. Low(src, i) * Weight(i - 1) \in Nat /\ z \in Int
      BY <1>1, <1>2, Products
    <3> QED BY <3>1
  <2>2. a % W \in 0 .. W - 1
    BY <1>1, Division
  <2> QED BY <1>1, <2>1, <2>2
<1>5. step \in [(1 .. n) \X Word -> Word]
  <2>1. \A p \in (1 .. n) \X Word : p[1] \in 1 .. n /\ p[2] \in Word
    OBVIOUS
  <2> QED BY <1>3, <1>4, <2>1
<1>6. PICK x \in [0 .. n -> Word] : x[0] = 0 /\ \A i \in 1 .. n : x[i] = step[<<i, x[i - 1]>>]
  <2>1. 0 \in Word
    BY <1>1
  <2>2. \E x \in [0 .. n -> Word] : Stepwise(x, n, 0, step)
    BY <1>1, <1>5, <2>1, StepwiseExists, Zenon
  <2> QED BY <2>2 DEF Stepwise
<1>7. ASSUME NEW i \in 1 .. n PROVE x[i] = (x[i - 1] + Low(src, i) * Weight(i - 1)) % W
  <2>1. x[i - 1] \in Word
    BY <1>1
  <2>2. step[<<i, x[i - 1]>>] = (x[i - 1] + Low(src, i) * Weight(i - 1)) % W
    BY <1>3, <2>1
  <2> QED BY <1>6, <2>2
<1>8. x = F(x)
  <2>1. \A i \in 0 .. n : x[i] = IF i = 0 THEN 0
                           ELSE uint(x[i - 1] + (src[i] % More) * 2 ^ ((ByteBits - 1) * (i - 1)))
    <3>1. \A i \in 0 .. n : i = 0 \/ (i # 0 /\ i \in 1 .. n)
      BY <1>1
    <3> QED BY <1>6, <1>7, <3>1 DEF uint, W, Low, Weight
  <2>2. x = [i \in 0 .. n |-> x[i]]
    OBVIOUS
  <2> QED BY <2>1, <2>2
<1>9. PICK z : z = F(z) /\ Carried(src, n) = z[n]
  <2>1. Carried(src, n) = (CHOOSE z : z = F(z))[n]
    BY DEF Carried
  <2> HIDE DEF F
  <2> QED BY <1>8, <2>1
<1>10. z[0] = 0 /\ \A i \in 1 .. n : z[i] = (z[i - 1] + Low(src, i) * Weight(i - 1)) % W
  <2>1. \A i \in 0 .. n : z[i] = IF i = 0 THEN 0
                           ELSE uint(z[i - 1] + (src[i] % More) * 2 ^ ((ByteBits - 1) * (i - 1)))
    BY <1>9
  <2>2. 0 \in 0 .. n /\ \A i \in 1 .. n : i \in 0 .. n /\ i # 0
    BY <1>1
  <2> QED BY <2>1, <2>2 DEF uint, W, Low, Weight
<1>11. \A i \in 0 .. n : z[i] \in Word
  <2> DEFINE T == {i \in Nat : i <= n => z[i] \in Word}
  <2>1. 0 \in T
    BY <1>1, <1>10
  <2>2. ASSUME NEW i \in T, i + 1 <= n PROVE z[i + 1] \in Word
    <3>1. i + 1 \in 1 .. n /\ (i + 1) - 1 = i /\ z[i] \in Word
      BY <1>1, <2>2
    <3>2. z[i + 1] = (z[i] + Low(src, i + 1) * Weight((i + 1) - 1)) % W
      BY <1>10, <3>1
    <3> QED BY <1>4, <3>1, <3>2
  <2>3. T = Nat
    <3>1. T \in SUBSET Nat /\ \A i \in T : i + 1 \in T
      BY <2>2
    <3> HIDE DEF T
    <3> QED BY <2>1, <3>1, Induction
  <2> QED BY <1>1, <2>3
<1> QED BY <1>9, <1>10, <1>11

\* What is added before or after a remainder is taken.
LEMMA RemainderAbsorbs ==
  ASSUME NEW a \in Int, NEW c \in Int
  PROVE  ((a % W) + c) % W = (a + c) % W
<1>1. W \in Nat \ {0}
  BY WordIs
<1>2. PICK q \in Int, r \in 0 .. W - 1 : r = a % W /\ a = q * W + r
  <2>1. a % W \in 0 .. W - 1 /\ a \div W \in Int /\ a = (a \div W) * W + (a % W)
    BY <1>1, Division
  <2> QED BY <2>1
<1>3. PICK e \in Int : e = r + c
  BY <1>1, <1>2, SMTT(30)
<1>4. PICK p \in Int, s \in 0 .. W - 1 : s = e % W /\ e = p * W + s
  <2>1. e % W \in 0 .. W - 1 /\ e \div W \in Int /\ e = (e \div W) * W + (e % W)
    BY <1>1, Division
  <2> QED BY <2>1
<1>5. PICK f \in Int : f = a + c
  OBVIOUS
<1>6. f = (q + p) * W + s
  <2>1. (q + p) * W = q * W + p * W /\ q * W \in Int /\ p * W \in Int
    BY <1>1
  <2>2. s \in Int /\ r \in Int
    BY <1>1
  <2> QED BY <1>2, <1>3, <1>4, <1>5, <2>1, <2>2
<1>7. f % W = s
  <2>1. q + p \in Int
    OBVIOUS
  <2> QED BY <1>1, <1>6, <2>1, DivisionUnique
<1> QED BY <1>2, <1>3, <1>4, <1>5, <1>7

\* Up to a byte, what is carried and what the bytes are worth are the same but for words
\* that are full.
LEMMA CarriedIs ==
  ASSUME NEW src, NEW n \in 1 .. MaxVarintLen, \A i \in 1 .. n : src[i] \in Byte
  PROVE  /\ Worth(src, n) \in Nat /\ Worth(src, n) < Weight(n)
         /\ Carried(src, n) = Worth(src, n) % W
         /\ \E a \in Nat : /\ a < Weight(n - 1)
                           /\ Worth(src, n) = a + Weight(n - 1) * Low(src, n)
<1>1. n \in Nat /\ n >= 1 /\ n <= MaxVarintLen /\ MaxVarintLen \in Nat /\ W \in Nat \ {0}
  BY VarintWidths, WordIs
<1>2. PICK m \in Nat \ {0} : m = More
  BY VarintWidths
<1>3. PICK y : /\ Worth(src, n) = y[1] /\ y[n + 1] = 0
               /\ \A i \in 1 .. n + 1 : y[i] \in Nat
               /\ \A i \in 1 .. n : y[i] = Low(src, i) + m * y[i + 1]
  <2>1. n \in Nat
    BY <1>1
  <2>2. PICK y : Sums(src, n, y)
    BY <2>1, WorthUnfolds, Zenon
  <2> QED BY <1>2, <2>2 DEF Sums
<1>4. PICK x : /\ Carried(src, n) = x[n] /\ x[0] = 0
               /\ \A i \in 0 .. n : x[i] \in Word
               /\ \A i \in 1 .. n : x[i] = (x[i - 1] + Low(src, i) * Weight(i - 1)) % W
  BY <1>1, CarriedUnfolds
<1> DEFINE T == {i \in Nat : i <= n => \E a \in Nat : /\ a < Weight(i) /\ x[i] = a % W
                                                      /\ y[1] = a + Weight(i) * y[i + 1]}
<1>5. 0 \in T
  <2>1. Weight(0) = 1 /\ y[1] \in Nat /\ 1 * y[1] = y[1] /\ 0 < 1
    BY <1>1, <1>3, VarintWidths
  <2>2. 0 % W = 0
    <3>1. 0 = 0 * W + 0 /\ 0 \in 0 .. W - 1 /\ 0 \in Int
      BY <1>1
    <3> QED BY <1>1, <3>1, DivisionUnique
  <2>3. y[1] = 0 + Weight(0) * y[0 + 1]
    BY <2>1
  <2> QED BY <1>4, <2>1, <2>2, <2>3
<1>6. ASSUME NEW i \in T, i + 1 <= n
      PROVE  \E a \in Nat : /\ a < Weight(i + 1) /\ x[i + 1] = a % W
                            /\ y[1] = a + Weight(i + 1) * y[(i + 1) + 1]
  <2>1. PICK a \in Nat : a < Weight(i) /\ x[i] = a % W /\ y[1] = a + Weight(i) * y[i + 1]
    <3>1. i <= n
      BY <1>1, <1>6
    <3> QED BY <3>1, Zenon
  <2>2. PICK k \in 1 .. n : k = i + 1 /\ k - 1 = i /\ (i + 1) + 1 = k + 1 /\ k + 1 \in 1 .. n + 1
    BY <1>1, <1>6
  <2>3. PICK w \in Nat \ {0} : w = Weight(i) /\ Weight(i + 1) = m * w
    <3>1. i \in 0 .. MaxVarintLen /\ i \in 0 .. MaxVarintLen - 1
      BY <1>1, <1>6
    <3> QED BY <1>2, <3>1, VarintWidths
  <2>4. PICK d \in 0 .. m - 1 : d = Low(src, k)
    BY <1>2, LowIs
  <2>5. PICK z \in Nat : z = y[k + 1]
    BY <1>3, <2>2
  <2>6. y[k] = d + m * z
    BY <1>3, <2>4, <2>5
  <2>7. PICK c \in Nat : c = d * w
    BY Products
  <2>8. x[i + 1] = (a + c) % W
    <3>1. x[k] = (x[k - 1] + Low(src, k) * Weight(k - 1)) % W
      BY <1>4
    <3>2. x[k] = ((a % W) + c) % W
      BY <2>1, <2>2, <2>3, <2>4, <2>7, <3>1
    <3>3. a \in Int /\ c \in Int
      OBVIOUS
    <3> QED BY <2>2, <3>2, <3>3, RemainderAbsorbs
  <2>9. a + c \in Nat /\ a + c < m * w
    <3>1. (d + 1) * w <= m * w /\ (d + 1) * w = d * w + w
      <4>1. d + 1 \in Int /\ m \in Int /\ w \in Int /\ 0 <= w /\ d + 1 <= m /\ d \in Int
        OBVIOUS
      <4> QED BY <4>1, Products
    <3>2. PICK e \in Nat : e = m * w
      BY Products
    <3> QED BY <2>1, <2>3, <2>7, <3>1, <3>2
  <2>10. y[1] = (a + c) + (m * w) * z
    <3>1. w * (d + m * z) = d * w + (m * w) * z
      OBVIOUS
    <3>2. y[1] = a + w * (d + m * z)
      BY <2>1, <2>2, <2>3, <2>6
    <3>3. (m * w) * z \in Nat
      BY Products
    <3> QED BY <2>7, <3>1, <3>2, <3>3
  <2> QED BY <2>2, <2>3, <2>5, <2>8, <2>9, <2>10
<1>7. T = Nat
  <2>1. T \in SUBSET Nat /\ \A i \in T : i + 1 \in T
    BY <1>6
  <2> HIDE DEF T
  <2> QED BY <1>5, <2>1, Induction
<1>8. PICK a \in Nat : a < Weight(n) /\ x[n] = a % W /\ y[1] = a
  <2>1. n \in T /\ n <= n
    BY <1>1, <1>7
  <2>2. PICK a \in Nat : a < Weight(n) /\ x[n] = a % W /\ y[1] = a + Weight(n) * y[n + 1]
    BY <2>1, Zenon
  <2>3. Weight(n) \in Nat
    BY <1>1, VarintWidths
  <2>4. Weight(n) * 0 = 0
    BY <2>3
  <2> QED BY <1>3, <2>2, <2>4
<1>9. \E e \in Nat : e < Weight(n - 1) /\ Worth(src, n) = e + Weight(n - 1) * Low(src, n)
  <2>1. n - 1 \in T /\ n - 1 <= n /\ (n - 1) + 1 = n
    BY <1>1, <1>7
  <2>2. PICK e \in Nat : e < Weight(n - 1) /\ y[1] = e + Weight(n - 1) * y[(n - 1) + 1]
    BY <2>1, Zenon
  <2>3. y[n] = Low(src, n) + m * y[n + 1] /\ Low(src, n) \in Nat
    BY <1>1, <1>2, <1>3, LowIs
  <2>4. y[n] = Low(src, n)
    BY <1>3, <2>3
  <2> QED BY <1>3, <2>1, <2>2, <2>4
<1> QED BY <1>3, <1>4, <1>8, <1>9

\* The least number is the only one.
LEMMA MinIs ==
  ASSUME NEW T \in SUBSET Nat, NEW m \in T, \A j \in T : m <= j
  PROVE  Min(T) = m
<1>1. PICK x \in T : x = Min(T) /\ x <= m
  <2>1. T # {}
    OBVIOUS
  <2> QED BY <2>1, LeastNumber
<1>2. m <= x /\ x \in Nat /\ m \in Nat
  OBVIOUS
<1> QED BY <1>1, <1>2

\* A later byte counts more.
LEMMA WeightsGrow ==
  ASSUME NEW i \in 0 .. MaxVarintLen, NEW j \in 0 .. MaxVarintLen, i <= j
  PROVE  Weight(i) <= Weight(j)
<1>1. MaxVarintLen \in Nat /\ i \in Nat /\ j \in Nat
  BY VarintWidths
<1> DEFINE T == {k \in Nat : i + k <= MaxVarintLen => Weight(i) <= Weight(i + k)}
<1>2. 0 \in T
  <2>1. i + 0 = i /\ Weight(i) \in Nat
    BY VarintWidths
  <2> QED BY <2>1
<1>3. ASSUME NEW k \in T, i + (k + 1) <= MaxVarintLen PROVE Weight(i) <= Weight(i + (k + 1))
  <2>1. PICK n \in 0 .. MaxVarintLen - 1 : n = i + k /\ n + 1 = i + (k + 1) /\ n \in 0 .. MaxVarintLen
    BY <1>1, <1>3
  <2>2. PICK m \in Nat : m = More /\ 1 <= m
    BY VarintWidths
  <2>3. PICK a \in Nat, b \in Nat : a = Weight(i) /\ b = Weight(n) /\ Weight(n + 1) = m * b
    BY <2>1, <2>2, VarintWidths
  <2>4. 1 * b <= m * b /\ m * b \in Nat /\ 1 * b = b
    BY <2>2, Products
  <2>5. PICK c \in Nat : c = m * b /\ b <= c
    BY <2>4
  <2>6. a <= b
    <3>1. i + k <= MaxVarintLen
      BY <2>1
    <3> QED BY <2>1, <2>3, <3>1
  <2> QED BY <2>1, <2>3, <2>5, <2>6
<1>4. T = Nat
  <2>1. T \in SUBSET Nat /\ \A k \in T : k + 1 \in T
    BY <1>3
  <2> HIDE DEF T
  <2> QED BY <1>2, <2>1, Induction
<1>5. PICK k \in Nat : i + k = j
  <2>1. j - i \in Nat /\ i + (j - i) = j
    BY <1>1
  <2> QED BY <2>1
<1>6. k \in T
  <2> HIDE DEF T
  <2> QED BY <1>4
<1> QED BY <1>1, <1>5, <1>6

\* Where a varint ends.
LEMMA EndIs ==
  ASSUME NEW src \in Seq(Byte), Ends(src) # {}
  PROVE  /\ Min(Ends(src)) \in 1 .. Len(src) /\ src[Min(Ends(src))] < More
         /\ \A j \in 1 .. Min(Ends(src)) - 1 : ~(src[j] < More) /\ j \in 1 .. Len(src)
<1>1. Ends(src) \in SUBSET Nat /\ Ends(src) \subseteq 1 .. Len(src)
  BY DEF Ends
<1>2. PICK e \in Ends(src) : e = Min(Ends(src)) /\ \A j \in Ends(src) : e <= j
  BY <1>1, LeastNumber, Zenon
<1>3. e \in 1 .. Len(src) /\ src[e] < More
  BY <1>1, <1>2 DEF Ends
<1>4. ASSUME NEW j \in 1 .. e - 1 PROVE ~(src[j] < More) /\ j \in 1 .. Len(src)
  <2>1. j \in 1 .. Len(src) /\ ~(e <= j)
    BY <1>3
  <2>2. j \notin Ends(src)
    BY <1>2, <2>1
  <2> QED BY <2>1, <2>2 DEF Ends
<1> QED BY <1>2, <1>3, <1>4

FitsIn(src) == Ends(src) # {} /\ Min(Ends(src)) <= MaxVarintLen /\ Exact(src) \in Word

Over(src, i) == i = MaxVarintLen /\ src[i] > 1
Stops(src)   == {i \in DOMAIN src : Over(src, i) \/ src[i] < More}

\* Uvarint by its own definition, without the LET.
LEMMA UvarintUnfolds ==
  ASSUME NEW src
  PROVE  Uvarint(src) = IF Stops(src) = {} THEN Failed("truncated")
                        ELSE IF Over(src, Min(Stops(src))) THEN Failed("overflow")
                        ELSE Decoded(Carried(src, Min(Stops(src))), Min(Stops(src)))
BY DEF Uvarint, Stops, Over

\* What Uvarint says of any bytes.
LEMMA UvarintIs ==
  ASSUME NEW src \in Seq(Byte)
  PROVE  /\ FitsIn(src) => Uvarint(src) = Decoded(Exact(src), Min(Ends(src)))
         /\ Ends(src) = {} /\ Len(src) < MaxVarintLen => Uvarint(src) = Failed("truncated")
         /\ ~FitsIn(src) /\ ~(Ends(src) = {} /\ Len(src) < MaxVarintLen) =>
              Uvarint(src) = Failed("overflow")
<1>1. PICK n \in Nat : n = Len(src) /\ DOMAIN src = 1 .. n
  OBVIOUS
<1>2. PICK max \in Nat : max = MaxVarintLen /\ max >= 2
  BY VarintWidths
<1>3. PICK m \in Nat : m = More /\ m >= 4
  BY VarintWidths
<1>4. \A i \in 1 .. n : src[i] \in Byte /\ src[i] \in Int
  BY <1>1, WordIs
<1>5. Stops(src) \in SUBSET Nat /\ \A i : i \in Stops(src) <=> i \in 1 .. n /\ (Over(src, i) \/ src[i] < More)
  BY <1>1 DEF Stops
<1>6. \A i : Over(src, i) <=> i = max /\ src[i] > 1
  BY <1>2 DEF Over
<1>7. \A i : i \in Ends(src) <=> i \in 1 .. n /\ src[i] < More
  BY <1>1 DEF Ends
\* The byte with one bit is full.
<1>8. ASSUME max \in 1 .. n, \A j \in 1 .. max : ~(src[j] < More)
      PROVE  Uvarint(src) = Failed("overflow")
  <2>1. src[max] > 1
    BY <1>3, <1>4, <1>8
  <2>2. max \in Stops(src)
    BY <1>5, <1>6, <1>8, <2>1
  <2>3. ASSUME NEW j \in Stops(src) PROVE max <= j
    <3>1. j \in 1 .. n /\ (j = max \/ src[j] < More)
      BY <1>5, <1>6
    <3>2. j < max => j \in 1 .. max
      BY <3>1
    <3> QED BY <1>8, <3>1, <3>2
  <2>4. Min(Stops(src)) = max
    BY <1>5, <2>2, <2>3, MinIs
  <2> QED BY <1>6, <2>1, <2>2, <2>4, UvarintUnfolds
<1>9. CASE Ends(src) = {} /\ n < max
  <2>1. Stops(src) = {}
    <3>1. \A i \in 1 .. n : ~(i = max)
      BY <1>9
    <3> QED BY <1>5, <1>6, <1>7, <1>9, <3>1
  <2>2. ~FitsIn(src)
    BY <1>9 DEF FitsIn
  <2> QED BY <1>1, <1>2, <1>9, <2>1, <2>2, UvarintUnfolds
<1>10. CASE Ends(src) = {} /\ ~(n < max)
  <2>1. max \in 1 .. n /\ \A j \in 1 .. max : j \in 1 .. n
    BY <1>2, <1>10
  <2>2. \A j \in 1 .. max : ~(src[j] < More)
    BY <1>7, <1>10, <2>1
  <2>3. Uvarint(src) = Failed("overflow")
    BY <1>8, <2>1, <2>2
  <2>4. ~FitsIn(src)
    BY <1>10 DEF FitsIn
  <2> QED BY <1>1, <1>2, <1>10, <2>3, <2>4
<1>11. CASE Ends(src) # {}
  <2>1. PICK e \in 1 .. n : /\ e = Min(Ends(src)) /\ src[e] < More
                           /\ \A j \in 1 .. e - 1 : ~(src[j] < More) /\ j \in 1 .. n
    BY <1>1, <1>11, EndIs
  <2>2. CASE e > max
    <3>1. max \in 1 .. n /\ \A j \in 1 .. max : j \in 1 .. e - 1
      BY <1>2, <2>2
    <3>2. Uvarint(src) = Failed("overflow")
      BY <1>8, <2>1, <3>1
    <3>3. ~FitsIn(src)
      BY <1>2, <2>1, <2>2 DEF FitsIn
    <3> QED BY <1>11, <3>2, <3>3
  <2>3. CASE e <= max
    <3>1. Min(Stops(src)) = e /\ Stops(src) # {}
      <4>1. e \in Stops(src)
        BY <1>5, <2>1
      <4>2. ASSUME NEW j \in Stops(src) PROVE e <= j
        <5>1. j \in 1 .. n /\ (j = max \/ src[j] < More)
          BY <1>5, <1>6
        <5>2. j < e => j \in 1 .. e - 1
          BY <5>1
        <5> QED BY <2>1, <2>3, <5>1, <5>2
      <4> QED BY <1>5, <4>1, <4>2, MinIs
    <3>2. e \in 1 .. max /\ \A i \in 1 .. e : src[i] \in Byte
      <4>1. \A i \in 1 .. e : i \in 1 .. n
        OBVIOUS
      <4> QED BY <1>4, <2>3, <4>1
    <3>3. PICK v \in Nat : v = Worth(src, e) /\ v < Weight(e) /\ Carried(src, e) = v % W
      BY <1>2, <3>2, CarriedIs
    <3>4. Exact(src) = v
      BY <2>1, <3>3 DEF Exact
    <3>5. FitsIn(src) <=> v \in Word
      BY <1>2, <1>11, <2>1, <2>3, <3>4 DEF FitsIn
    <3>6. v \in Word => Carried(src, e) = v
      <4>1. W \in Nat \ {0} /\ Word = 0 .. W - 1
        BY WordIs
      <4>2. v \in Word => v = 0 * W + v /\ v \in 0 .. W - 1
        BY <4>1
      <4>3. 0 \in Int /\ v \in Int
        OBVIOUS
      <4>4. v \in Word => v % W = v
        BY <4>1, <4>2, <4>3, DivisionUnique
      <4> QED BY <3>3, <4>4
    <3>7. CASE e < max
      <4>1. ~Over(src, e)
        BY <1>6, <3>7
      <4>2. v \in Word
        <5>1. e \in 0 .. MaxVarintLen /\ MaxVarintLen - 1 \in 0 .. MaxVarintLen /\ e <= MaxVarintLen - 1
          BY <1>2, <3>7
        <5>2. PICK a \in Nat, b \in Nat : a = Weight(e) /\ b = Weight(MaxVarintLen - 1) /\ a <= b
          BY <5>1, VarintWidths, WeightsGrow
        <5>3. W = 2 * b
          BY <5>2, VarintWidths
        <5> QED BY <3>3, <5>2, <5>3, WordIs
      <4> QED BY <2>1, <3>1, <3>4, <3>5, <3>6, <4>1, <4>2, UvarintUnfolds, <1>11
    <3>8. CASE e = max
      <4>1. PICK b \in 0 .. m - 1 : b = src[e] /\ b = Low(src, e)
        <5>1. PICK b \in 0 .. m - 1 : b = src[e]
          <6>1. src[e] \in Byte /\ src[e] < m
            BY <1>3, <1>4, <2>1
          <6>2. src[e] \in 0 .. m - 1
            BY <6>1, WordIs
          <6> QED BY <6>2
        <5>2. b = 0 * m + b /\ 0 \in Int /\ b \in Int
          OBVIOUS
        <5>3. b % m = b
          BY <1>3, <5>2, DivisionUnique
        <5> QED BY <1>3, <5>1, <5>3 DEF Low
      <4>2. PICK w \in Nat, a \in Nat : w = Weight(max - 1) /\ a < w /\ v = a + w * b /\ W = 2 * w
        <5>1. \E a \in Nat : a < Weight(e - 1) /\ Worth(src, e) = a + Weight(e - 1) * Low(src, e)
          BY <1>2, <3>2, CarriedIs
        <5>2. Weight(max - 1) \in Nat
          <6>1. max - 1 \in 0 .. max
            BY <1>2
          <6> QED BY <1>2, <6>1, VarintWidths
        <5>3. W = 2 * Weight(max - 1)
          BY <1>2, VarintWidths
        <5> QED BY <3>3, <3>8, <4>1, <5>1, <5>2, <5>3
      <4>3. Over(src, e) <=> b > 1
        BY <1>6, <3>8, <4>1
      <4>4. v \in Word <=> ~(b > 1)
        <5>1. CASE b = 0
          <6>1. w * b = 0
            BY <5>1
          <6> QED BY <4>2, <5>1, <6>1, WordIs
        <5>2. CASE b = 1
          <6>1. w * b = w
            BY <5>2
          <6> QED BY <4>2, <5>2, <6>1, WordIs
        <5>3. CASE b > 1
          <6>1. 2 * w <= b * w /\ b * w = w * b /\ w * b \in Int
            <7>1. 2 <= b /\ b \in Int /\ 2 \in Int /\ w \in Int /\ 0 <= w
              BY <5>3
            <7>2. 2 * w <= b * w
              BY <7>1, Products
            <7> QED BY <7>1, <7>2, Products
          <6>2. ~(v < W)
            BY <4>2, <6>1
          <6> QED BY <5>3, <6>2, WordIs
        <5>4. b = 0 \/ b = 1 \/ b > 1
          OBVIOUS
        <5> QED BY <5>1, <5>2, <5>3, <5>4
      <4> QED BY <2>1, <3>1, <3>4, <3>5, <3>6, <4>3, <4>4, UvarintUnfolds, <1>11
    <3> QED BY <2>3, <3>7, <3>8
  <2> QED BY <2>2, <2>3
<1> QED BY <1>9, <1>10, <1>11

\* A part of a sequence.
LEMMA Slice ==
  ASSUME NEW S, NEW s \in Seq(S), NEW a \in 1 .. Len(s) + 1, NEW b \in a - 1 .. Len(s)
  PROVE  /\ SubSeq(s, a, b) \in Seq(S) /\ Len(SubSeq(s, a, b)) = b - a + 1
         /\ \A i \in 1 .. b - a + 1 : SubSeq(s, a, b)[i] = s[a + i - 1]
<1>1. a \in Int /\ b \in Int /\ a - 1 <= b
  OBVIOUS
<1>2. \A i \in a .. b : s[i] \in S
  <2>1. \A i \in a .. b : i \in 1 .. Len(s)
    OBVIOUS
  <2> QED BY <2>1
<1>3. SubSeq(s, a, b) \in Seq(S) /\ Len(SubSeq(s, a, b)) = (IF a <= b THEN b - a + 1 ELSE 0)
      /\ \A i \in 1 .. b - a + 1 : SubSeq(s, a, b)[i] = s[a + i - 1]
  BY <1>1, <1>2, SubSeqProperties
<1>4. (IF a <= b THEN b - a + 1 ELSE 0) = b - a + 1
  BY <1>1
<1> QED BY <1>3, <1>4

\* One element before the others.
LEMMA Consed ==
  ASSUME NEW S, NEW b \in S, NEW s \in Seq(S)
  PROVE  /\ <<b>> \in Seq(S) /\ <<b>> \o s \in Seq(S) /\ Len(<<b>> \o s) = Len(s) + 1
         /\ (<<b>> \o s)[1] = b /\ \A i \in 1 .. Len(s) : (<<b>> \o s)[i + 1] = s[i]
<1>1. <<b>> \in Seq(S) /\ Len(<<b>>) = 1 /\ <<b>>[1] = b
  OBVIOUS
<1>2. PICK n \in Nat : n = Len(s)
  OBVIOUS
<1>3. /\ <<b>> \o s \in Seq(S) /\ Len(<<b>> \o s) = 1 + n
      /\ \A i \in 1 .. 1 + n : (<<b>> \o s)[i] = IF i <= 1 THEN <<b>>[i] ELSE s[i - 1]
  BY <1>1, <1>2, ConcatProperties
<1>4. \A i \in 1 .. n : i + 1 \in 1 .. 1 + n /\ ~(i + 1 <= 1) /\ (i + 1) - 1 = i
  OBVIOUS
<1>5. 1 \in 1 .. 1 + n /\ 1 + n = n + 1
  OBVIOUS
<1> QED BY <1>1, <1>2, <1>3, <1>4, <1>5

\* A byte before the others counts for itself, and the others count More times.
LEMMA WorthShifts ==
  ASSUME NEW b \in Byte, NEW s \in Seq(Byte), NEW n \in 0 .. Len(s)
  PROVE  Worth(<<b>> \o s, n + 1) = (b % More) + More * Worth(s, n)
<1>1. PICK k \in Nat : k = Len(s) /\ n \in Nat /\ n <= k
  OBVIOUS
<1>2. PICK src \in Seq(Byte) : src = <<b>> \o s /\ src[1] = b /\ \A i \in 1 .. k : src[i + 1] = s[i]
  <2>1. /\ <<b>> \o s \in Seq(Byte)
        /\ (<<b>> \o s)[1] = b /\ \A i \in 1 .. Len(s) : (<<b>> \o s)[i + 1] = s[i]
    BY Consed
  <2> QED BY <1>1, <2>1
<1>3. \A i \in 1 .. n : s[i] \in Byte
  <2>1. \A i \in 1 .. n : i \in 1 .. Len(s)
    OBVIOUS
  <2> QED BY <2>1
<1>4. \A i \in 1 .. n + 1 : src[i] \in Byte
  <2>1. \A i \in 1 .. n + 1 : i = 1 \/ (i - 1 \in 1 .. n /\ i - 1 \in 1 .. k /\ (i - 1) + 1 = i)
    BY <1>1
  <2> QED BY <1>2, <1>3, <2>1
<1>5. PICK y : /\ Worth(src, n + 1) = y[1] /\ y[(n + 1) + 1] = 0
               /\ \A i \in 1 .. n + 1 : y[i] = Low(src, i) + More * y[i + 1]
  <2>1. PICK k1 \in Nat : k1 = n + 1
    BY <1>1
  <2>2. \A i \in 1 .. k1 : src[i] \in Byte
    BY <1>4, <2>1
  <2>3. PICK y : Sums(src, k1, y)
    BY <2>2, WorthUnfolds, Zenon
  <2> QED BY <2>1, <2>3 DEF Sums
<1>6. PICK z : /\ Worth(s, n) = z[1] /\ z[n + 1] = 0
               /\ \A i \in 1 .. n : z[i] = Low(s, i) + More * z[i + 1]
  <2>1. PICK z : Sums(s, n, z)
    BY <1>1, <1>3, WorthUnfolds, Zenon
  <2> QED BY <2>1 DEF Sums
<1>7. \A i \in 1 .. n : Low(src, i + 1) = Low(s, i)
  BY <1>1, <1>2 DEF Low
<1> DEFINE T == {j \in Nat : j <= n => y[(n + 1 - j) + 1] = z[n + 1 - j]}
<1>8. 0 \in T
  BY <1>1, <1>5, <1>6
<1>9. ASSUME NEW j \in T, j + 1 <= n PROVE y[(n + 1 - (j + 1)) + 1] = z[n + 1 - (j + 1)]
  <2>1. PICK i \in 1 .. n : i = n + 1 - (j + 1) /\ i + 1 = n + 1 - j /\ i + 1 \in 1 .. n + 1
    BY <1>1, <1>9
  <2>2. y[(i + 1) + 1] = z[i + 1]
    <3>1. j <= n
      BY <1>1, <1>9
    <3> QED BY <2>1, <3>1
  <2>3. y[i + 1] = Low(src, i + 1) + More * y[(i + 1) + 1]
    BY <1>5, <2>1
  <2>4. z[i] = Low(s, i) + More * z[i + 1]
    BY <1>6
  <2> QED BY <1>7, <2>1, <2>2, <2>3, <2>4
<1>10. T = Nat
  <2>1. T \in SUBSET Nat /\ \A j \in T : j + 1 \in T
    BY <1>9
  <2> HIDE DEF T
  <2> QED BY <1>8, <2>1, Induction
<1>11. y[2] = z[1]
  <2>1. n \in T
    <3> HIDE DEF T
    <3> QED BY <1>1, <1>10
  <2>2. y[(n + 1 - n) + 1] = z[n + 1 - n]
    BY <1>1, <2>1
  <2>3. (n + 1 - n) + 1 = 2 /\ n + 1 - n = 1
    BY <1>1
  <2> QED BY <2>2, <2>3
<1>12. y[1] = Low(src, 1) + More * y[2]
  <2>1. 1 \in 1 .. n + 1 /\ 1 + 1 = 2
    BY <1>1
  <2> QED BY <1>5, <2>1
<1> QED BY <1>2, <1>5, <1>6, <1>11, <1>12 DEF Low

\* No bytes are worth nothing.
LEMMA WorthOfNothing ==
  ASSUME NEW src
  PROVE  Worth(src, 0) = 0
<1>1. PICK y : Worth(src, 0) = y[1] /\ y[0 + 1] = 0
  <2>1. 0 \in Nat /\ \A i \in 1 .. 0 : src[i] \in Byte
    OBVIOUS
  <2>2. PICK y : Sums(src, 0, y)
    BY <2>1, WorthUnfolds, Zenon
  <2> QED BY <2>2 DEF Sums
<1> QED BY <1>1

\* A varint starts with the lowest bits, and is that of the other bits from there.
LEMMA GroupsSplit ==
  ASSUME NEW u \in Word, u >= More
  PROVE  \E b \in Byte, g \in Seq(Byte) :
           /\ g = Groups[u \div More] /\ Groups[u] = <<b>> \o g
           /\ Len(Groups[u]) = Len(g) + 1 /\ b % More = u % More
<1>1. PICK m \in Nat \ {0} : m = More /\ Byte = 0 .. 2 * m - 1
  BY VarintWidths, WordIs
<1>2. PICK r \in 0 .. m - 1 : r = u % More
  BY <1>1, Shifted
<1>3. PICK b \in Byte : b = m + r
  BY <1>1
<1>4. PICK g \in Seq(Byte) : g = Groups[u \div More]
  BY Shifted, GroupsAre
<1>5. Groups[u] = <<b>> \o g
  BY <1>1, <1>2, <1>3, <1>4, GroupsUnfold
<1>6. Len(<<b>> \o g) = Len(g) + 1
  OBVIOUS
<1>7. b % m = r
  <2>1. b = 1 * m + r /\ b \in Int /\ 1 \in Int
    BY <1>1, <1>3
  <2> QED BY <2>1, DivisionUnique
<1> QED BY <1>1, <1>2, <1>4, <1>5, <1>6, <1>7

\* A word below More is a varint of one byte.
LEMMA GroupsOfFew ==
  ASSUME NEW u \in Word, ~(u >= More)
  PROVE  Groups[u] = <<u>> /\ Len(Groups[u]) = 1 /\ u \in Byte /\ u % More = u
<1>1. Groups[u] = <<u>>
  BY GroupsUnfold
<1>2. PICK m \in Nat \ {0} : m = More /\ Byte = 0 .. 2 * m - 1
  BY VarintWidths, WordIs
<1>3. u \in 0 .. m - 1
  BY <1>2, WordIs
<1>4. u % m = u
  <2>1. u = 0 * m + u /\ u \in Int /\ 0 \in Int
    BY <1>3
  <2> QED BY <1>3, <2>1, DivisionUnique
<1>5. Len(<<u>>) = 1 /\ u \in 0 .. 2 * m - 1
  BY <1>3
<1> QED BY <1>1, <1>2, <1>4, <1>5

\* A varint is worth its number, whatever follows.
LEMMA GroupsAreWorth ==
  ASSUME NEW u \in Word, NEW rest \in Seq(Byte)
  PROVE  Worth(Groups[u] \o rest, Len(Groups[u])) = u
<1> DEFINE T == {w \in Word : Worth(Groups[w] \o rest, Len(Groups[w])) = w}
<1>1. ASSUME NEW w \in Word, w >= More => w \div More \in T
      PROVE  Worth(Groups[w] \o rest, Len(Groups[w])) = w
  <2>1. CASE ~(w >= More)
    <3>1. Groups[w] = <<w>> /\ Len(Groups[w]) = 0 + 1 /\ w \in Byte /\ w % More = w
      BY <2>1, GroupsOfFew
    <3>2. 0 \in 0 .. Len(rest)
      OBVIOUS
    <3>3. Worth(<<w>> \o rest, 0 + 1) = (w % More) + More * Worth(rest, 0)
      BY <3>1, <3>2, WorthShifts
    <3>4. More * 0 = 0 /\ w \in Int
      BY VarintWidths, WordIs
    <3> QED BY <3>1, <3>3, <3>4, WorthOfNothing
  <2>2. CASE w >= More
    <3>1. PICK q \in Word : q = w \div More /\ q \in T /\ w = More * q + (w % More)
      BY <1>1, <2>2, Shifted
    <3>2. PICK b \in Byte, g \in Seq(Byte) :
            /\ g = Groups[q] /\ Groups[w] = <<b>> \o g
            /\ Len(Groups[w]) = Len(g) + 1 /\ b % More = w % More
      BY <2>2, <3>1, GroupsSplit
    <3>3. PICK s \in Seq(Byte) : s = g \o rest /\ Len(s) = Len(g) + Len(rest)
      BY ConcatProperties
    <3>4. Groups[w] \o rest = <<b>> \o s
      <4>1. <<b>> \in Seq(Byte)
        OBVIOUS
      <4>2. PICK c \in Seq(Byte) : c = <<b>>
        BY <4>1
      <4>3. (c \o g) \o rest = c \o (g \o rest)
        BY ConcatAssociative
      <4> QED BY <3>2, <3>3, <4>2, <4>3
    <3>5. PICK n \in Nat : n = Len(g) /\ n \in 0 .. Len(s)
      BY <3>3
    <3>6. Worth(<<b>> \o s, n + 1) = (b % More) + More * Worth(s, n)
      BY <3>5, WorthShifts
    <3>7. Worth(s, n) = q
      BY <3>1, <3>2, <3>3, <3>5
    <3>8. PICK a \in Int, c \in Int : a = w % More /\ c = More * q
      <4>1. w % More \in 0 .. More - 1 /\ More \in Nat /\ q \in Nat
        BY Shifted, VarintWidths
      <4>2. More * q \in Int /\ w % More \in Int
        BY <4>1, Products
      <4> QED BY <4>2
    <3>9. a + c = w
      BY <3>1, <3>8
    <3>10. Worth(<<b>> \o s, n + 1) = a + c
      BY <3>2, <3>6, <3>7, <3>8
    <3> QED BY <3>2, <3>4, <3>5, <3>9, <3>10
  <2> QED BY <2>1, <2>2
<1>2. T = Word
  <2>1. T \in SUBSET Word /\ \A w \in Word : (w >= More => w \div More \in T) => w \in T
    BY <1>1
  <2> HIDE DEF T
  <2> QED BY <2>1, WordInduction
<1> QED BY <1>2

\* A varint takes no more bytes than its number needs.
LEMMA GroupsAreShort ==
  ASSUME NEW u \in Word, NEW n \in 1 .. MaxVarintLen, u < Weight(n)
  PROVE  Len(Groups[u]) <= n
<1>1. PICK max \in Nat : max = MaxVarintLen /\ n \in Nat
  BY VarintWidths
<1> DEFINE T == {k \in Nat : k \in 1 .. max => \A w \in Word : w < Weight(k) => Len(Groups[w]) <= k}
<1>2. 0 \in T
  OBVIOUS
<1>3. ASSUME NEW k \in T, k + 1 \in 1 .. max, NEW w \in Word, w < Weight(k + 1)
      PROVE  Len(Groups[w]) <= k + 1
  <2>1. CASE ~(w >= More)
    <3>1. Len(Groups[w]) = 1
      BY <2>1, GroupsOfFew
    <3> QED BY <3>1
  <2>2. CASE w >= More
    <3>1. k # 0
      <4>1. SUFFICES ASSUME k = 0 PROVE FALSE
        OBVIOUS
      <4>2. 0 \in 0 .. MaxVarintLen - 1 /\ Weight(0) = 1 /\ More \in Nat
        BY VarintWidths
      <4>3. Weight(0 + 1) = More * 1
        BY <4>2, VarintWidths
      <4>4. w < More
        BY <1>3, <4>1, <4>2, <4>3
      <4> QED BY <2>2, <4>2, <4>4, WordIs
    <3>2. PICK m \in Nat \ {0}, q \in Word, r \in Nat :
            m = More /\ q = w \div More /\ w = m * q + r /\ q \in Nat
      <4>1. PICK m \in Nat \ {0} : m = More
        BY VarintWidths
      <4>2. w \div More \in Word /\ w % More \in 0 .. m - 1 /\ w = m * (w \div More) + (w % More)
        BY <4>1, Shifted
      <4>3. w % More \in Nat /\ w \div More \in Nat
        <5>1. Word \subseteq Nat
          BY WordIs
        <5>2. w % More \in Nat
          BY <4>2
        <5>3. PICK q \in Word : q = w \div More
          BY <4>2
        <5> QED BY <5>1, <5>2, <5>3
      <4> QED BY <4>1, <4>2, <4>3
    <3>3. PICK v \in Nat : v = Weight(k) /\ Weight(k + 1) = m * v
      <4>1. k \in 0 .. MaxVarintLen /\ k \in 0 .. MaxVarintLen - 1
        BY <1>1, <1>3
      <4> QED BY <3>2, <4>1, VarintWidths
    <3>4. q < v
      <4>1. q * m < v * m
        <5>1. m * q = q * m /\ m * v = v * m /\ m * q \in Int /\ m * v \in Int
          BY <3>2, Products
        <5> QED BY <1>3, <3>2, <3>3, <5>1
      <4>2. q \in Int /\ v \in Int
        BY <3>2
      <4> QED BY <4>1, <4>2, Cancel
    <3>5. Len(Groups[q]) <= k
      <4>1. k \in 1 .. max
        BY <1>3, <3>1
      <4> QED BY <3>3, <3>4, <4>1
    <3>6. PICK g \in Seq(Byte) : g = Groups[q] /\ Len(Groups[w]) = Len(g) + 1
      BY <2>2, <3>2, GroupsSplit
    <3> QED BY <3>5, <3>6
  <2> QED BY <2>1, <2>2
<1>4. T = Nat
  <2>1. T \in SUBSET Nat /\ \A k \in T : k + 1 \in T
    BY <1>3, SMTT(30)
  <2> HIDE DEF T
  <2> QED BY <1>2, <2>1, Induction
<1> QED BY <1>1, <1>4

\* No varint is longer than MaxVarintLen.
LEMMA GroupsFit ==
  ASSUME NEW u \in Word
  PROVE  Len(Groups[u]) \in 1 .. MaxVarintLen
<1>1. PICK max \in Nat : max = MaxVarintLen /\ max >= 2
  BY VarintWidths
<1>2. PICK m \in Nat, w \in Nat : /\ m = More /\ m >= 4 /\ w = Weight(max - 1)
                                  /\ Weight((max - 1) + 1) = m * w /\ W = 2 * w
  <2>1. max - 1 \in 0 .. max - 1 /\ max - 1 \in 0 .. max
    BY <1>1
  <2> QED BY <1>1, <2>1, VarintWidths
<1>3. 2 * w <= m * w /\ m * w \in Int
  BY <1>2, Products
<1>4. u < Weight(max)
  BY <1>1, <1>2, <1>3, WordIs, SMTT(30)
<1>5. max \in 1 .. max
  BY <1>1
<1>6. Len(Groups[u]) <= max
  BY <1>1, <1>4, <1>5, GroupsAreShort
<1>7. Len(Groups[u]) \in Nat /\ Len(Groups[u]) >= 1
  BY GroupsAre
<1> QED BY <1>1, <1>6, <1>7

\* UvarintLen says how many bytes are written.
LEMMA UvarintLenIs ==
  ASSUME NEW u \in Word
  PROVE  UvarintLen(u) = Len(Groups[u])
<1> DEFINE F(len) == [w \in Word |-> IF w >= More THEN 1 + len[w \div More] ELSE 1]
<1>1. PICK h : h = [w \in Word |-> Len(Groups[w])]
  OBVIOUS
<1>2. h = F(h)
  <2>1. ASSUME NEW w \in Word PROVE h[w] = IF w >= More THEN 1 + h[w \div More] ELSE 1
    <3>1. CASE ~(w >= More)
      BY <1>1, <3>1, GroupsOfFew
    <3>2. CASE w >= More
      <4>1. PICK g \in Seq(Byte) : g = Groups[w \div More] /\ Len(Groups[w]) = Len(g) + 1
        BY <3>2, GroupsSplit
      <4>2. w \div More \in Word
        BY Shifted
      <4>3. h[w] = Len(g) + 1 /\ h[w \div More] = Len(g)
        BY <1>1, <4>1, <4>2
      <4> QED BY <3>2, <4>3
    <3> QED BY <3>1, <3>2
  <2>2. h = [w \in Word |-> h[w]]
    BY <1>1
  <2> QED BY <2>1, <2>2
<1>3. PICK f : f = F(f) /\ UvarintLen(u) = f[u]
  <2>1. UvarintLen(u) = (CHOOSE f : f = F(f))[u]
    BY DEF UvarintLen
  <2> HIDE DEF F
  <2> QED BY <1>2, <2>1
<1>4. \A w \in Word : f[w] = IF w >= More THEN 1 + f[w \div More] ELSE 1
  BY <1>3
<1>5. \A w \in Word : h[w] = IF w >= More THEN 1 + h[w \div More] ELSE 1
  BY <1>2
<1> DEFINE T == {w \in Word : f[w] = h[w]}
<1>6. T = Word
  <2>1. T \in SUBSET Word /\ \A w \in Word : (w >= More => w \div More \in T) => w \in T
    BY <1>4, <1>5
  <2> HIDE DEF T
  <2> QED BY <2>1, WordInduction
<1> QED BY <1>1, <1>3, <1>6

\* A varint reads as its number, whatever follows.
LEMMA VarintReads ==
  ASSUME NEW u \in Word, NEW rest \in Seq(Byte)
  PROVE  /\ Groups[u] \o rest \in Seq(Byte)
         /\ Uvarint(Groups[u] \o rest) = Decoded(u, Len(Groups[u]))
<1>1. PICK g \in Seq(Byte) : g = Groups[u]
  BY GroupsAre
<1>2. PICK n \in Nat : n = Len(g) /\ n >= 1 /\ n <= MaxVarintLen
  <2>1. Len(g) \in 1 .. MaxVarintLen /\ Len(g) \in Nat
    BY <1>1, GroupsFit
  <2> QED BY <2>1, VarintWidths
<1>3. PICK src \in Seq(Byte) : src = g \o rest
  BY ConcatProperties
<1>4. Len(src) \in Nat /\ Len(src) >= n /\ \A i \in 1 .. n : src[i] = g[i]
  BY <1>2, <1>3, ConcatProperties
<1>5. Ends(src) \in SUBSET Nat /\ n \in Ends(src) /\ \A j \in Ends(src) : n <= j
  <2>1. g[n] < More /\ \A i \in 1 .. n - 1 : g[i] >= More
    BY <1>1, <1>2, GroupsAre
  <2>2. n \in DOMAIN src /\ src[n] < More
    BY <1>2, <1>4, <2>1
  <2>3. ASSUME NEW j \in Ends(src), ~(n <= j) PROVE FALSE
    <3>1. j \in 1 .. n - 1 /\ j \in 1 .. n /\ src[j] < More /\ j \in DOMAIN src
      BY <1>2, <1>4, <2>3 DEF Ends
    <3>2. src[j] >= More /\ src[j] \in Byte
      BY <1>4, <2>1, <3>1
    <3>3. src[j] \in Int
      BY <3>2, WordIs
    <3>4. More \in Int
      BY VarintWidths
    <3> QED BY <3>1, <3>2, <3>3, <3>4
  <2> QED BY <2>2, <2>3 DEF Ends
<1>6. Min(Ends(src)) = n /\ Ends(src) # {}
  BY <1>5, MinIs
<1>7. Exact(src) = u
  BY <1>1, <1>2, <1>3, <1>6, GroupsAreWorth DEF Exact
<1>8. FitsIn(src)
  BY <1>2, <1>6, <1>7 DEF FitsIn
<1> QED BY <1>1, <1>2, <1>3, <1>6, <1>7, <1>8, UvarintIs

\* A varint that is cut short is no varint.
LEMMA VarintCut ==
  ASSUME NEW u \in Word, NEW n \in 0 .. Len(Groups[u]) - 1
  PROVE  Uvarint(SubSeq(Groups[u], 1, n)) = Failed("truncated")
<1>1. PICK g \in Seq(Byte) : g = Groups[u]
  BY GroupsAre
<1>2. PICK k \in Nat : k = Len(g) /\ k <= MaxVarintLen /\ n \in 0 .. k - 1
  <2>1. Len(g) \in 1 .. MaxVarintLen /\ Len(g) \in Nat /\ n \in 0 .. Len(g) - 1
    BY <1>1, GroupsFit
  <2> QED BY <2>1, VarintWidths
<1>3. \A i \in 1 .. n : i \in 1 .. Len(g)
  BY <1>2
<1>4. PICK src \in Seq(Byte) : src = SubSeq(g, 1, n) /\ Len(src) = n /\ \A i \in 1 .. n : src[i] = g[i]
  <2>1. 1 \in 1 .. Len(g) + 1 /\ n \in 1 - 1 .. Len(g) /\ n - 1 + 1 = n
    BY <1>2
  <2>2. SubSeq(g, 1, n) \in Seq(Byte) /\ Len(SubSeq(g, 1, n)) = n - 1 + 1
        /\ \A i \in 1 .. n - 1 + 1 : SubSeq(g, 1, n)[i] = g[1 + i - 1]
    BY <2>1, Slice
  <2>3. \A i \in 1 .. n : 1 + i - 1 = i
    OBVIOUS
  <2> QED BY <2>1, <2>2, <2>3
<1>5. Ends(src) = {}
  <2>1. SUFFICES ASSUME NEW j \in Ends(src) PROVE FALSE
    OBVIOUS
  <2>2. j \in 1 .. n /\ src[j] < More
    BY <1>4 DEF Ends
  <2>3. j \in 1 .. k - 1
    BY <1>2, <2>2
  <2>4. g[j] >= More
    BY <1>1, <1>2, <2>3, GroupsAre
  <2>5. g[j] \in Byte
    BY <1>3, <2>2
  <2>6. g[j] \in Int
    BY <2>5, WordIs
  <2>7. More \in Int
    BY VarintWidths
  <2> QED BY <1>4, <2>2, <2>4, <2>6, <2>7
<1>6. n < MaxVarintLen
  BY <1>2, VarintWidths
<1> QED BY <1>1, <1>4, <1>5, <1>6, UvarintIs

-----------------------------------------------------------------------------
(* Values.                                                                 *)

\* What a decoder returns.
LEMMA ResultsAre ==
  /\ \A v, n : Decoded(v, n).value = v /\ Decoded(v, n).n = n /\ Decoded(v, n).err = "none"
  /\ \A e : Failed(e).err = e
BY DEF Decoded, Failed

\* To append to nothing.
LEMMA UvarintAppended ==
  ASSUME NEW u \in Word
  PROVE  AppendUvarint(<<>>, u) = Groups[u]
<1>1. PICK g \in Seq(Byte) : g = Groups[u]
  BY GroupsAre
<1>2. <<>> \o g = g
  BY ConcatEmptySeq
<1> QED BY <1>1, <1>2 DEF AppendUvarint

\* An int is itself again after a zigzag there and back.
LEMMA ZigzagReturns ==
  ASSUME NEW v \in Signed
  PROVE  zigzag(v) \in Word /\ unzigzag(zigzag(v)) = v
<1>1. PICK h \in Nat \ {0} : h = signBit /\ W = 2 * h /\ v \in -h .. h - 1 /\ Word = 0 .. 2 * h - 1
  BY WordIs
<1>2. \A u : Complement(u) = 2 * h - 1 - u
  BY <1>1 DEF Complement, W
<1>3. \A u : int(u) = IF u >= h THEN u - 2 * h ELSE u
  BY <1>1 DEF int, W
<1>4. \A u : uint(u) = u % W
  BY DEF uint, W
<1>5. CASE v < 0
  <2>1. PICK x \in Int : x = 2 * v
    BY <1>1
  <2>2. -W <= x /\ x < 2 * W /\ x < 0
    BY <1>1, <1>5, <2>1
  <2>3. x % W = IF x < 0 THEN x + W ELSE IF x < W THEN x ELSE x - W
    BY <2>2, AroundAWord
  <2>4. PICK u \in Nat, q \in Nat : q = -v - 1 /\ u = q * 2 + 1
    BY <1>1, <1>5
  <2>5. zigzag(v) = u
    <3>1. zigzag(v) = 2 * h - 1 - (x % W)
      BY <1>2, <1>4, <1>5, <2>1 DEF zigzag
    <3>2. x % W = x + 2 * h
      BY <1>1, <2>2, <2>3
    <3> QED BY <1>1, <2>1, <2>4, <3>1, <3>2
  <2>6. u \div 2 = q /\ u % 2 = 1
    <3>1. u \in Int /\ q \in Int /\ 1 \in 0 .. 2 - 1 /\ 2 \in Nat \ {0}
      OBVIOUS
    <3> QED BY <2>4, <3>1, DivisionUnique
  <2>7. unzigzag(u) = int(2 * h - 1 - q)
    BY <1>2, <2>6 DEF unzigzag
  <2>8. PICK w \in Int : w = 2 * h - 1 - q /\ w >= h /\ w - 2 * h = v
    BY <1>1, <2>4
  <2>9. u \in 0 .. 2 * h - 1
    BY <1>1, <2>4
  <2> QED BY <1>1, <1>3, <2>5, <2>7, <2>8, <2>9
<1>6. CASE ~(v < 0)
  <2>1. PICK x \in Int : x = 2 * v
    BY <1>1
  <2>2. -W <= x /\ x < W /\ x < 2 * W /\ ~(x < 0)
    BY <1>1, <1>6, <2>1
  <2>3. x % W = IF x < 0 THEN x + W ELSE IF x < W THEN x ELSE x - W
    BY <2>2, AroundAWord
  <2>4. zigzag(v) = x
    BY <1>4, <1>6, <2>1, <2>2, <2>3 DEF zigzag
  <2>5. x \div 2 = v /\ x % 2 = 0
    <3>1. x = v * 2 + 0 /\ v \in Int /\ 0 \in 0 .. 2 - 1 /\ 2 \in Nat \ {0}
      BY <1>1, <2>1
    <3> QED BY <3>1, DivisionUnique
  <2>6. unzigzag(x) = int(v)
    BY <2>5 DEF unzigzag
  <2>7. ~(v >= h) /\ x \in 0 .. 2 * h - 1
    BY <1>1, <1>6, <2>1
  <2> QED BY <1>1, <1>3, <2>4, <2>6, <2>7
<1> QED BY <1>5, <1>6

\* An int, read back and cut short.
LEMMA IntReads ==
  ASSUME NEW v \in Signed
  PROVE  /\ AppendInt64(<<>>, v) \in Seq(Byte)
         /\ \A rest \in Seq(Byte) :
              Int64(AppendInt64(<<>>, v) \o rest) = Decoded(v, Len(AppendInt64(<<>>, v)))
         /\ \A n \in 0 .. Len(AppendInt64(<<>>, v)) - 1 :
              Int64(SubSeq(AppendInt64(<<>>, v), 1, n)).err = "truncated"
<1>1. PICK u \in Word : u = zigzag(v) /\ unzigzag(u) = v
  BY ZigzagReturns
<1>2. PICK g \in Seq(Byte) : g = AppendInt64(<<>>, v) /\ g = Groups[u]
  BY <1>1, UvarintAppended, GroupsAre DEF AppendInt64
<1>3. ASSUME NEW rest \in Seq(Byte) PROVE Int64(g \o rest) = Decoded(v, Len(g))
  <2>1. Uvarint(g \o rest) = Decoded(u, Len(g))
    BY <1>2, VarintReads
  <2>2. Int64(g \o rest) = [Decoded(u, Len(g)) EXCEPT !.value = unzigzag(@)]
    BY <2>1, ResultsAre DEF Int64
  <2> QED BY <1>1, <2>2 DEF Decoded
<1>4. ASSUME NEW n \in 0 .. Len(g) - 1 PROVE Int64(SubSeq(g, 1, n)).err = "truncated"
  <2>1. Uvarint(SubSeq(g, 1, n)) = Failed("truncated")
    BY <1>2, VarintCut
  <2>2. Failed("truncated").err = "truncated"
    BY ResultsAre
  <2> QED BY <2>1, <2>2 DEF Int64
<1> QED BY <1>2, <1>3, <1>4

\* A bool, read back and cut short.
LEMMA BoolReads ==
  ASSUME NEW v \in BOOLEAN
  PROVE  /\ AppendBool(<<>>, v) \in Seq(Byte)
         /\ \A rest \in Seq(Byte) :
              Bool(AppendBool(<<>>, v) \o rest) = Decoded(v, Len(AppendBool(<<>>, v)))
         /\ \A n \in 0 .. Len(AppendBool(<<>>, v)) - 1 :
              Bool(SubSeq(AppendBool(<<>>, v), 1, n)).err = "truncated"
<1>1. PICK b \in Byte : b = IF v THEN 1 ELSE 0
  <2>1. B \in Nat /\ B >= 2 /\ Byte = 0 .. B - 1
    BY WordIs, VarintWidths
  <2> QED BY <2>1
<1>2. AppendBool(<<>>, v) = <<b>>
  BY <1>1 DEF AppendBool
<1>3. <<b>> \in Seq(Byte) /\ Len(<<b>>) = 1
  OBVIOUS
<1>4. ASSUME NEW rest \in Seq(Byte) PROVE Bool(<<b>> \o rest) = Decoded(v, 1)
  <2>1. PICK src \in Seq(Byte) : src = <<b>> \o rest /\ Len(src) = Len(rest) + 1 /\ src[1] = b
    BY Consed, ZenonT(40)
  <2>2. src # <<>>
    BY <2>1
  <2>3. (src[1] # 0) = v
    BY <1>1, <2>1
  <2> QED BY <2>1, <2>2, <2>3 DEF Bool
<1>5. ASSUME NEW n \in 0 .. Len(<<b>>) - 1 PROVE Bool(SubSeq(<<b>>, 1, n)).err = "truncated"
  <2>1. n = 0
    BY <1>3
  <2>2. SubSeq(<<b>>, 1, n) = <<>>
    BY <2>1, SubSeqEmpty
  <2> QED BY <2>2, ResultsAre DEF Bool
<1> QED BY <1>2, <1>3, <1>4, <1>5

\* A float, read back and cut short.
LEMMA FloatReads ==
  ASSUME NEW v \in Word
  PROVE  /\ AppendFloat64(<<>>, v) \in Seq(Byte)
         /\ \A rest \in Seq(Byte) :
              Float64(AppendFloat64(<<>>, v) \o rest) = Decoded(v, Len(AppendFloat64(<<>>, v)))
         /\ \A n \in 0 .. Len(AppendFloat64(<<>>, v)) - 1 :
              Float64(SubSeq(AppendFloat64(<<>>, v), 1, n)).err = "truncated"
<1>1. PICK k \in Nat \ {0} : k = WordBytes
  BY WidthsAre
<1>2. PICK g \in Seq(Byte) : g = BigEndian(v) /\ Len(g) = k
  <2>1. BigEndian(v) = [i \in 1 .. k |-> BigEndian(v)[i]]
    BY <1>1 DEF BigEndian
  <2>2. \A i \in 1 .. k : BigEndian(v)[i] \in Byte
    BY <1>1, UpperIs, WordIs
  <2>3. BigEndian(v) \in [1 .. k -> Byte]
    BY <2>1, <2>2
  <2>4. BigEndian(v) \in Seq(Byte) /\ DOMAIN BigEndian(v) = 1 .. k
    BY <2>3
  <2> QED BY <2>4
<1>3. AppendFloat64(<<>>, v) = g
  BY <1>2, ConcatEmptySeq DEF AppendFloat64
<1>4. ASSUME NEW rest \in Seq(Byte) PROVE Float64(g \o rest) = Decoded(v, k)
  <2>1. PICK src \in Seq(Byte) : src = g \o rest /\ Len(src) = k + Len(rest) /\ \A i \in 1 .. k : src[i] = g[i]
    <3>1. g \o rest \in Seq(Byte) /\ Len(g \o rest) = Len(g) + Len(rest)
          /\ \A i \in 1 .. Len(g) + Len(rest) : (g \o rest)[i] = IF i <= Len(g) THEN g[i] ELSE rest[i - Len(g)]
      BY ConcatProperties
    <3>2. \A i \in 1 .. k : i \in 1 .. k + Len(rest) /\ i <= k
      OBVIOUS
    <3> QED BY <1>2, <3>1, <3>2
  <2>2. FromBigEndian(src) = FromBigEndian(g)
    <3>1. \A i \in 1 .. WordBytes : src[i] \in Int
      <4>1. \A i \in 1 .. k : g[i] \in Byte
        BY <1>2
      <4> QED BY <1>1, <2>1, <4>1, WordIs
    <3>2. \A i \in 1 .. WordBytes : g[i] \in Int
      BY <1>1, <2>1, <3>1
    <3>3. PICK x : /\ FromBigEndian(src) = x[WordBytes] /\ x[0] = 0
                   /\ \A i \in 1 .. WordBytes : x[i] = x[i - 1] * B + src[i]
      BY <3>1, FromBigEndianUnfolds
    <3>4. PICK y : /\ FromBigEndian(g) = y[WordBytes] /\ y[0] = 0
                   /\ \A i \in 1 .. WordBytes : y[i] = y[i - 1] * B + g[i]
      BY <3>2, FromBigEndianUnfolds
    <3> DEFINE T == {i \in Nat : i <= k => x[i] = y[i]}
    <3>5. 0 \in T
      BY <3>3, <3>4
    <3>6. ASSUME NEW i \in T, i + 1 <= k PROVE x[i + 1] = y[i + 1]
      <4>1. i + 1 \in 1 .. k /\ (i + 1) - 1 = i /\ i <= k
        <5>1. i \in Nat /\ i + 1 <= k
          BY <3>6
        <5> HIDE DEF T
        <5> QED BY <5>1
      <4>2. x[i + 1] = x[i] * B + src[i + 1]
        BY <1>1, <3>3, <4>1
      <4>3. y[i + 1] = y[i] * B + g[i + 1]
        BY <1>1, <3>4, <4>1
      <4> QED BY <2>1, <4>1, <4>2, <4>3
    <3>7. T = Nat
      <4>1. T \in SUBSET Nat /\ \A i \in T : i + 1 \in T
        BY <3>6
      <4> HIDE DEF T
      <4> QED BY <3>5, <4>1, Induction
    <3>8. k \in T
      <4> HIDE DEF T
      <4> QED BY <3>7
    <3> QED BY <1>1, <3>3, <3>4, <3>8
  <2>3. FromBigEndian(g) = v
    BY <1>2, BigEndianReadsBack
  <2>4. ~(Len(src) < WordBytes)
    BY <1>1, <2>1
  <2> QED BY <1>1, <2>1, <2>2, <2>3, <2>4 DEF Float64
<1>5. ASSUME NEW n \in 0 .. Len(g) - 1 PROVE Float64(SubSeq(g, 1, n)).err = "truncated"
  <2>1. 1 \in 1 .. Len(g) + 1 /\ n \in 1 - 1 .. Len(g) /\ n - 1 + 1 = n /\ n < k
    BY <1>2
  <2>2. Len(SubSeq(g, 1, n)) = n - 1 + 1
    BY <2>1, Slice
  <2> QED BY <1>1, <2>1, <2>2, ResultsAre DEF Float64
<1> QED BY <1>2, <1>3, <1>4, <1>5

\* A part of what is put together from two.
LEMMA Halves ==
  ASSUME NEW g \in Seq(Byte), NEW s \in Seq(Byte), NEW rest \in Seq(Byte)
  PROVE  /\ (g \o s) \o rest = g \o (s \o rest)
         /\ SubSeq((g \o s) \o rest, Len(g) + 1, Len(g) + Len(s)) = s
<1>1. (g \o s) \o rest = g \o (s \o rest)
  BY ConcatAssociative
<1>2. PICK x \in Seq(Byte) : x = (g \o s) \o rest
  BY ConcatProperties
<1>3. PICK a \in Nat, b \in Nat, c \in Nat : a = Len(g) /\ b = Len(s) /\ c = Len(rest)
  OBVIOUS
<1>4. PICK t \in Seq(Byte) : /\ t = s \o rest /\ Len(t) = b + c
                          /\ \A i \in 1 .. b : t[i] = s[i]
  <2>1. s \o rest \in Seq(Byte) /\ Len(s \o rest) = b + c
        /\ \A i \in 1 .. b + c : (s \o rest)[i] = IF i <= b THEN s[i] ELSE rest[i - b]
    BY <1>3, ConcatProperties
  <2>2. \A i \in 1 .. b : i \in 1 .. b + c /\ i <= b
    OBVIOUS
  <2> QED BY <2>1, <2>2
<1>5. Len(x) = a + b + c /\ \A i \in 1 .. b : x[a + i] = s[i]
  <2>1. Len(g \o t) = a + (b + c)
        /\ \A i \in 1 .. a + (b + c) : (g \o t)[i] = IF i <= a THEN g[i] ELSE t[i - a]
    BY <1>3, <1>4, ConcatProperties
  <2>2. \A i \in 1 .. b : a + i \in 1 .. a + (b + c) /\ ~(a + i <= a) /\ a + i - a = i
    OBVIOUS
  <2>3. x = g \o t
    BY <1>1, <1>2, <1>4
  <2>4. \A i \in 1 .. b : x[a + i] = t[i]
    <3> TAKE i \in 1 .. b
    <3>1. a + i \in 1 .. a + (b + c) /\ ~(a + i <= a) /\ a + i - a = i
      BY <2>2
    <3>2. PICK j \in 1 .. a + (b + c) : j = a + i /\ ~(j <= a) /\ j - a = i
      BY <3>1
    <3>3. x[j] = t[j - a]
      BY <2>1, <2>3, <3>2
    <3> QED BY <3>2, <3>3
  <2>5. a + (b + c) = a + b + c
    OBVIOUS
  <2> QED BY <1>4, <2>1, <2>3, <2>4, <2>5
<1>6. /\ SubSeq(x, a + 1, a + b) \in Seq(Byte) /\ Len(SubSeq(x, a + 1, a + b)) = (a + b) - (a + 1) + 1
      /\ \A i \in 1 .. (a + b) - (a + 1) + 1 : SubSeq(x, a + 1, a + b)[i] = x[a + 1 + i - 1]
  <2>1. a + 1 \in 1 .. Len(x) + 1 /\ a + b \in (a + 1) - 1 .. Len(x)
    BY <1>5
  <2> QED BY <2>1, Slice
<1>7. (a + b) - (a + 1) + 1 = b /\ \A i \in 1 .. b : a + 1 + i - 1 = a + i
  OBVIOUS
<1>8. SubSeq(x, a + 1, a + b) = s
  <2>1. \A i \in 1 .. b : SubSeq(x, a + 1, a + b)[i] = s[i]
    BY <1>5, <1>6, <1>7
  <2>2. PICK z \in Seq(Byte) : z = SubSeq(x, a + 1, a + b) /\ Len(z) = b
    BY <1>6, <1>7
  <2> QED BY <1>3, <2>1, <2>2, SeqEqual
<1> QED BY <1>1, <1>2, <1>3, <1>8

\* The first bytes of what is put together from two.
LEMMA Front ==
  ASSUME NEW S, NEW g \in Seq(S), NEW s \in Seq(S), NEW n \in 0 .. Len(g) + Len(s)
  PROVE  /\ n <= Len(g) => SubSeq(g \o s, 1, n) = SubSeq(g, 1, n)
         /\ n >= Len(g) => SubSeq(g \o s, 1, n) = g \o SubSeq(s, 1, n - Len(g))
<1>1. PICK a \in Nat, b \in Nat : a = Len(g) /\ b = Len(s)
  OBVIOUS
<1>2. PICK x \in Seq(S) : /\ x = g \o s /\ Len(x) = a + b
                          /\ \A i \in 1 .. a + b : x[i] = IF i <= a THEN g[i] ELSE s[i - a]
  <2>1. g \o s \in Seq(S) /\ Len(g \o s) = a + b
        /\ \A i \in 1 .. a + b : (g \o s)[i] = IF i <= a THEN g[i] ELSE s[i - a]
    BY <1>1, ConcatProperties
  <2> QED BY <2>1
<1>3. PICK y \in Seq(S) : y = SubSeq(x, 1, n) /\ Len(y) = n /\ \A i \in 1 .. n : y[i] = x[i]
  <2>1. 1 \in 1 .. Len(x) + 1 /\ n \in 1 - 1 .. Len(x) /\ n - 1 + 1 = n
    BY <1>1, <1>2
  <2>2. SubSeq(x, 1, n) \in Seq(S) /\ Len(SubSeq(x, 1, n)) = n - 1 + 1
        /\ \A i \in 1 .. n - 1 + 1 : SubSeq(x, 1, n)[i] = x[1 + i - 1]
    BY <2>1, Slice
  <2>3. \A i \in 1 .. n : 1 + i - 1 = i
    OBVIOUS
  <2> QED BY <2>1, <2>2, <2>3
<1>4. ASSUME n <= a PROVE y = SubSeq(g, 1, n)
  <2>1. 1 \in 1 .. Len(g) + 1 /\ n \in 1 - 1 .. Len(g) /\ n - 1 + 1 = n
    BY <1>1, <1>4
  <2>2. SubSeq(g, 1, n) \in Seq(S) /\ Len(SubSeq(g, 1, n)) = n - 1 + 1
        /\ \A i \in 1 .. n - 1 + 1 : SubSeq(g, 1, n)[i] = g[1 + i - 1]
    BY <2>1, Slice
  <2>3. \A i \in 1 .. n : 1 + i - 1 = i /\ i \in 1 .. a + b /\ i <= a
    BY <1>1, <1>4
  <2>4. PICK z \in Seq(S) : z = SubSeq(g, 1, n) /\ Len(z) = n /\ \A i \in 1 .. n : z[i] = g[i]
    <3>1. Len(SubSeq(g, 1, n)) = n
      BY <2>1, <2>2
    <3>2. \A i \in 1 .. n : SubSeq(g, 1, n)[i] = g[i]
      <4> TAKE i \in 1 .. n
      <4>1. i \in 1 .. n - 1 + 1 /\ 1 + i - 1 = i
        BY <2>1
      <4> QED BY <2>2, <4>1
    <3> QED BY <2>2, <3>1, <3>2
  <2>5. ASSUME NEW i \in 1 .. n PROVE z[i] = y[i]
    <3>1. z[i] = g[i] /\ y[i] = x[i]
      BY <1>3, <2>4
    <3>2. x[i] = g[i]
      BY <1>2, <2>3
    <3> QED BY <3>1, <3>2
  <2>6. y = z
    BY <1>3, <2>4, <2>5, SeqEqual
  <2> QED BY <2>4, <2>6
<1>5. ASSUME n >= a PROVE y = g \o SubSeq(s, 1, n - a)
  <2>1. PICK m \in 0 .. b : m = n - a /\ n = a + m
    <3>1. n \in Int /\ n <= a + b
      BY <1>1
    <3>2. n - a \in 0 .. b /\ n = a + (n - a)
      BY <1>5, <3>1
    <3> QED BY <3>2
  <2>2. 1 \in 1 .. Len(s) + 1 /\ m \in 1 - 1 .. Len(s) /\ m - 1 + 1 = m
    BY <1>1
  <2>3. SubSeq(s, 1, m) \in Seq(S) /\ Len(SubSeq(s, 1, m)) = m - 1 + 1
        /\ \A i \in 1 .. m - 1 + 1 : SubSeq(s, 1, m)[i] = s[1 + i - 1]
    BY <2>2, Slice
  <2>4. PICK t \in Seq(S) : t = SubSeq(s, 1, m) /\ Len(t) = m /\ \A i \in 1 .. m : t[i] = s[i]
    <3>1. \A i \in 1 .. m : 1 + i - 1 = i
      OBVIOUS
    <3> QED BY <2>2, <2>3, <3>1
  <2>5. PICK z \in Seq(S) : /\ z = g \o t /\ Len(z) = a + m
                            /\ \A i \in 1 .. a + m : z[i] = IF i <= a THEN g[i] ELSE t[i - a]
    <3>1. g \o t \in Seq(S) /\ Len(g \o t) = a + m
          /\ \A i \in 1 .. a + m : (g \o t)[i] = IF i <= a THEN g[i] ELSE t[i - a]
      BY <1>1, <2>4, ConcatProperties
    <3> QED BY <3>1
  <2>6. ASSUME NEW i \in 1 .. n PROVE z[i] = y[i]
    <3>1. i \in 1 .. a + m /\ i \in 1 .. a + b
      BY <2>1
    <3>2. ~(i <= a) => i - a \in 1 .. m
      BY <2>1
    <3> QED BY <1>2, <1>3, <2>4, <2>5, <3>1, <3>2
  <2>7. Len(z) = n
    BY <2>1, <2>5
  <2>8. y = z
    BY <1>3, <2>6, <2>7, SeqEqual
  <2> QED BY <2>1, <2>4, <2>5, <2>8
<1> QED BY <1>1, <1>2, <1>3, <1>4, <1>5

\* A string, read back and cut short: in its length, or in its bytes.
LEMMA StringReads ==
  ASSUME NEW v \in Seq(Byte), Len(v) \in Word
  PROVE  /\ AppendString(<<>>, v) \in Seq(Byte)
         /\ \A rest \in Seq(Byte) :
              String(AppendString(<<>>, v) \o rest) = Decoded(v, Len(AppendString(<<>>, v)))
         /\ \A n \in 0 .. Len(AppendString(<<>>, v)) - 1 :
              String(SubSeq(AppendString(<<>>, v), 1, n)).err = "truncated"
<1>1. PICK l \in Nat : l = Len(v) /\ l \in Word
  OBVIOUS
<1>2. PICK g \in Seq(Byte) : g = Groups[l]
  BY <1>1, GroupsAre
<1>3. PICK k \in Nat : k = Len(g)
  OBVIOUS
<1>4. PICK x \in Seq(Byte) : x = AppendString(<<>>, v) /\ x = g \o v /\ Len(x) = k + l
  <2>1. g \o v \in Seq(Byte) /\ Len(g \o v) = k + l
    BY <1>1, <1>3, ConcatProperties
  <2>2. AppendString(<<>>, v) = g \o v
    BY <1>1, <1>2, UvarintAppended DEF AppendString
  <2> QED BY <2>1, <2>2
<1>5. ASSUME NEW src \in Seq(Byte), Uvarint(src) = Decoded(l, k)
      PROVE  String(src) = IF k + l > Len(src) THEN Failed("truncated")
                           ELSE Decoded(SubSeq(src, k + 1, k + l), k + l)
  <2>1. Uvarint(src).err = "none" /\ Uvarint(src).n = k /\ Uvarint(src).value = l
    BY <1>5, ResultsAre
  <2>2. l > Len(src) => k + l > Len(src)
    OBVIOUS
  <2> QED BY <2>1, <2>2 DEF String
<1>6. ASSUME NEW rest \in Seq(Byte) PROVE String(x \o rest) = Decoded(v, k + l)
  <2>1. PICK src \in Seq(Byte) : src = x \o rest /\ Len(src) = k + l + Len(rest)
    <3>1. x \o rest \in Seq(Byte) /\ Len(x \o rest) = k + l + Len(rest)
      BY <1>4, ConcatProperties
    <3> QED BY <3>1
  <2>2. PICK t \in Seq(Byte) : t = v \o rest
    BY ConcatProperties
  <2>3. src = g \o t /\ SubSeq(src, k + 1, k + l) = v
    <3>1. (g \o v) \o rest = g \o (v \o rest)
          /\ SubSeq((g \o v) \o rest, Len(g) + 1, Len(g) + Len(v)) = v
      <4>1. g \in Seq(Byte) /\ v \in Seq(Byte) /\ rest \in Seq(Byte)
        OBVIOUS
      <4> QED BY <4>1, Halves
    <3>2. src = (g \o v) \o rest
      BY <1>4, <2>1
    <3> QED BY <1>1, <1>3, <2>2, <3>1, <3>2
  <2>4. Uvarint(src) = Decoded(l, k)
    BY <1>1, <1>2, <1>3, <2>3, VarintReads
  <2>5. ~(k + l > Len(src))
    BY <2>1
  <2> QED BY <1>5, <2>1, <2>3, <2>4, <2>5
<1>7. ASSUME NEW n \in 0 .. Len(x) - 1 PROVE String(SubSeq(x, 1, n)).err = "truncated"
  <2>1. n \in Nat /\ n < k + l /\ n \in 0 .. Len(g) + Len(v)
    BY <1>1, <1>3, <1>4
  <2>2. CASE n < k
    <3>1. SubSeq(x, 1, n) = SubSeq(g, 1, n)
      BY <1>3, <1>4, <2>1, <2>2, Front
    <3>2. n \in 0 .. Len(Groups[l]) - 1
      BY <1>2, <1>3, <2>1, <2>2
    <3>3. Uvarint(SubSeq(x, 1, n)) = Failed("truncated")
      BY <1>1, <1>2, <3>1, <3>2, VarintCut
    <3> QED BY <3>3, ResultsAre DEF String
  <2>3. CASE ~(n < k)
    <3>1. SubSeq(x, 1, n) = g \o SubSeq(v, 1, n - k)
      BY <1>3, <1>4, <2>1, <2>3, Front
    <3>2. PICK src \in Seq(Byte) : src = SubSeq(x, 1, n) /\ Len(src) = n
      <4>1. 1 \in 1 .. Len(x) + 1 /\ n \in 1 - 1 .. Len(x) /\ n - 1 + 1 = n
        BY <1>4, <2>1
      <4>2. SubSeq(x, 1, n) \in Seq(Byte) /\ Len(SubSeq(x, 1, n)) = n - 1 + 1
        BY <4>1, Slice
      <4> QED BY <4>1, <4>2
    <3>3. PICK t \in Seq(Byte) : t = SubSeq(v, 1, n - k)
      <4>1. 1 \in 1 .. Len(v) + 1 /\ n - k \in 1 - 1 .. Len(v)
        BY <1>1, <2>1, <2>3
      <4>2. SubSeq(v, 1, n - k) \in Seq(Byte)
        BY <4>1, Slice
      <4> QED BY <4>2
    <3>4. Uvarint(src) = Decoded(l, k)
      BY <1>1, <1>2, <1>3, <3>1, <3>2, <3>3, VarintReads
    <3>5. k + l > Len(src)
      BY <2>1, <3>2
    <3> QED BY <1>5, <3>2, <3>4, <3>5, ResultsAre
  <2> QED BY <2>2, <2>3
<1> QED BY <1>4, <1>6, <1>7

-----------------------------------------------------------------------------
(* Values of any kind.                                                     *)

\* The values of a kind.
LEMMA KindsAre ==
  ASSUME NEW kind \in DOMAIN Values, NEW v \in Values[kind]
  PROVE  \/ kind = "int" /\ v \in Signed
         \/ kind = "string" /\ v \in Seq(Byte) /\ Len(v) \in Word
         \/ kind = "bool" /\ v \in BOOLEAN
         \/ kind = "float" /\ v \in Word
<1>1. kind \in {"int", "string", "bool", "float"}
  BY RowsAssumption
<1>2. CASE kind = "int"
  BY <1>2, RowsAssumption
<1>3. CASE kind = "string"
  BY <1>3, RowsAssumption
<1>4. CASE kind = "bool"
  BY <1>4, RowsAssumption
<1>5. CASE kind = "float"
  BY <1>5, RowsAssumption
<1> QED BY <1>1, <1>2, <1>3, <1>4, <1>5

\* What is written of a value reads back as the value whatever follows, and is
\* missed if it was cut short.
LEMMA ValueReads ==
  ASSUME NEW kind \in DOMAIN Values, NEW v \in Values[kind]
  PROVE  /\ Encoded(kind, v) \in Seq(Byte)
         /\ \A rest \in Seq(Byte) :
              Decode(kind, Encoded(kind, v) \o rest) = Decoded(v, Len(Encoded(kind, v)))
         /\ \A n \in 0 .. Len(Encoded(kind, v)) - 1 :
              Decode(kind, SubSeq(Encoded(kind, v), 1, n)).err = "truncated"
<1>1. CASE kind = "int" /\ v \in Signed
  <2>1. Encoded(kind, v) = AppendInt64(<<>>, v)
    BY <1>1 DEF Encoded
  <2>2. \A src : Decode(kind, src) = Int64(src)
    BY <1>1 DEF Decode
  <2> QED BY <1>1, <2>1, <2>2, IntReads
<1>2. CASE kind = "string" /\ v \in Seq(Byte) /\ Len(v) \in Word
  <2>1. Encoded(kind, v) = AppendString(<<>>, v)
    BY <1>2 DEF Encoded
  <2>2. \A src : Decode(kind, src) = String(src)
    BY <1>2 DEF Decode
  <2> QED BY <1>2, <2>1, <2>2, StringReads
<1>3. CASE kind = "bool" /\ v \in BOOLEAN
  <2>1. Encoded(kind, v) = AppendBool(<<>>, v)
    BY <1>3 DEF Encoded
  <2>2. \A src : Decode(kind, src) = Bool(src)
    BY <1>3 DEF Decode
  <2> QED BY <1>3, <2>1, <2>2, BoolReads
<1>4. CASE kind = "float" /\ v \in Word
  <2>1. Encoded(kind, v) = AppendFloat64(<<>>, v)
    BY <1>4 DEF Encoded
  <2>2. \A src : Decode(kind, src) = Float64(src)
    BY <1>4 DEF Decode
  <2> QED BY <1>4, <2>1, <2>2, FloatReads
<1> QED BY <1>1, <1>2, <1>3, <1>4, KindsAre

\* Of a varint that is read: it lies in the bytes that were there, and is a word.
LEMMA VarintBounded ==
  ASSUME NEW src \in Seq(Byte)
  PROVE  /\ Uvarint(src).err = "none" <=> FitsIn(src)
         /\ Uvarint(src).err = "truncated" <=> Ends(src) = {} /\ Len(src) < MaxVarintLen
         /\ FitsIn(src) =>
              /\ Uvarint(src).value = Exact(src) /\ Uvarint(src).value \in Word
              /\ Uvarint(src).n = Min(Ends(src)) /\ Uvarint(src).n \in 1 .. Len(src)
<1>1. CASE FitsIn(src)
  <2>1. Uvarint(src) = Decoded(Exact(src), Min(Ends(src)))
    BY <1>1, UvarintIs
  <2>2. Exact(src) \in Word /\ Ends(src) # {}
    BY <1>1 DEF FitsIn
  <2>3. Min(Ends(src)) \in 1 .. Len(src)
    BY <2>2, EndIs
  <2>4. /\ Uvarint(src).value = Exact(src) /\ Uvarint(src).n = Min(Ends(src))
        /\ Uvarint(src).err = "none"
    BY <2>1, ResultsAre
  <2> QED BY <1>1, <2>2, <2>3, <2>4
<1>2. CASE ~FitsIn(src) /\ Ends(src) = {} /\ Len(src) < MaxVarintLen
  <2>1. Uvarint(src).err = "truncated"
    BY <1>2, UvarintIs, ResultsAre
  <2> QED BY <1>2, <2>1
<1>3. CASE ~FitsIn(src) /\ ~(Ends(src) = {} /\ Len(src) < MaxVarintLen)
  <2>1. Uvarint(src).err = "overflow"
    BY <1>3, UvarintIs, ResultsAre
  <2> QED BY <1>3, <2>1
<1>4. FitsIn(src) => ~(Ends(src) = {} /\ Len(src) < MaxVarintLen)
  BY DEF FitsIn
<1> QED BY <1>1, <1>2, <1>3

\* Of a string that is read: it lies in the bytes that were there.
LEMMA StringBounded ==
  ASSUME NEW src \in Seq(Byte), String(src).err = "none"
  PROVE  /\ Uvarint(src).err = "none"
         /\ String(src).n \in 0 .. Len(src)
         /\ Len(String(src).value) = String(src).n - Uvarint(src).n
<1>1. PICK u : u = Uvarint(src)
  OBVIOUS
<1>2. CASE u.err # "none"
  <2>1. String(src) = u
    BY <1>1, <1>2 DEF String
  <2> QED BY <1>2, <2>1
<1>3. CASE u.err = "none"
  <2>1. FitsIn(src)
    BY <1>1, <1>3, VarintBounded
  <2>2. PICK value \in Nat : u.value = value
    <3>1. u.value \in Word
      BY <1>1, <2>1, VarintBounded
    <3> QED BY <3>1, WordIs
  <2>3. PICK n \in 1 .. Len(src) : u.n = n
    BY <1>1, <2>1, VarintBounded
  <2>4. CASE value > Len(src) \/ n + value > Len(src)
    <3>1. String(src) = Failed("truncated")
      BY <1>1, <1>3, <2>2, <2>3, <2>4 DEF String
    <3> QED BY <3>1, ResultsAre
  <2>5. CASE ~(value > Len(src) \/ n + value > Len(src))
    <3>1. String(src) = Decoded(SubSeq(src, n + 1, n + value), n + value)
      BY <1>1, <1>3, <2>2, <2>3, <2>5 DEF String
    <3>2. n + 1 \in 1 .. Len(src) + 1 /\ n + value \in (n + 1) - 1 .. Len(src)
      BY <2>5
    <3>3. Len(SubSeq(src, n + 1, n + value)) = (n + value) - (n + 1) + 1
      BY <3>2, Slice
    <3>4. (n + value) - (n + 1) + 1 = (n + value) - n /\ n + value \in 0 .. Len(src)
      BY <2>5
    <3>5. String(src).value = SubSeq(src, n + 1, n + value) /\ String(src).n = n + value
      BY <3>1, ResultsAre, ZenonT(40)
    <3> QED BY <1>1, <1>3, <2>3, <3>3, <3>4, <3>5
  <2> QED BY <2>4, <2>5
<1> QED BY <1>2, <1>3

\* Of any value that is read: it lies in the bytes that were there.
LEMMA DecodeBounded ==
  ASSUME NEW kind \in DOMAIN Values, NEW src \in Seq(Byte), Decode(kind, src).err = "none"
  PROVE  /\ Decode(kind, src).n \in 0 .. Len(src)
         /\ kind = "float" => Decode(kind, src).value \in Word
<1>1. kind \in {"int", "string", "bool", "float"}
  BY RowsAssumption
<1>2. CASE kind = "int"
  <2>1. Decode(kind, src) = Int64(src)
    BY <1>2 DEF Decode
  <2>2. PICK u : u = Uvarint(src)
    OBVIOUS
  <2>3. Int64(src) = IF u.err = "none" THEN [u EXCEPT !.value = unzigzag(@)] ELSE u
    BY <2>2 DEF Int64
  <2>4. u.err = "none"
    BY <2>1, <2>3
  <2>5. Int64(src).n = u.n
    BY <2>3, <2>4
  <2>6. u.n \in 1 .. Len(src)
    BY <2>2, <2>4, VarintBounded
  <2> QED BY <1>2, <2>1, <2>5, <2>6
<1>3. CASE kind = "string"
  <2>1. Decode(kind, src) = String(src)
    BY <1>3 DEF Decode
  <2> QED BY <1>3, <2>1, StringBounded
<1>4. CASE kind = "bool"
  <2>1. Decode(kind, src) = Bool(src)
    BY <1>4 DEF Decode
  <2>2. CASE src = <<>>
    BY <2>1, <2>2, ResultsAre DEF Bool
  <2>3. CASE src # <<>>
    <3>1. Bool(src).n = 1
      BY <2>3, ResultsAre DEF Bool
    <3>2. Len(src) >= 1
      BY <2>3
    <3> QED BY <1>4, <2>1, <3>1, <3>2
  <2> QED BY <2>2, <2>3
<1>5. CASE kind = "float"
  <2>1. Decode(kind, src) = Float64(src)
    BY <1>5 DEF Decode
  <2>2. CASE Len(src) < WordBytes
    BY <2>1, <2>2, ResultsAre DEF Float64
  <2>3. CASE ~(Len(src) < WordBytes)
    <3>1. Float64(src) = Decoded(FromBigEndian(src), WordBytes)
      BY <2>3 DEF Float64
    <3>2. WordBytes \in Nat \ {0}
      BY WidthsAre
    <3>3. \A i \in 1 .. WordBytes : src[i] \in Byte
      BY <2>3, <3>2
    <3>4. FromBigEndian(src) \in Word
      BY <3>3, BytesSayAWord
    <3>5. WordBytes \in 0 .. Len(src)
      BY <2>3, <3>2
    <3>6. Float64(src).n = WordBytes /\ Float64(src).value = FromBigEndian(src)
      BY <3>1, ResultsAre
    <3> QED BY <2>1, <3>4, <3>5, <3>6
  <2> QED BY <2>2, <2>3
<1> QED BY <1>1, <1>2, <1>3, <1>4, <1>5

\* What DecodingIsExact says of any bytes.
LEMMA AnyBytes ==
  ASSUME NEW src \in Seq(Byte)
  PROVE  /\ Uvarint(src).err = "none" <=> FitsIn(src)
         /\ Uvarint(src).err = "truncated" <=> Ends(src) = {} /\ Len(src) < MaxVarintLen
         /\ FitsIn(src) =>
              /\ Uvarint(src).value = Exact(src) /\ Uvarint(src).n = Min(Ends(src))
              /\ Len(AppendUvarint(<<>>, Uvarint(src).value)) = UvarintLen(Uvarint(src).value)
              /\ UvarintLen(Uvarint(src).value) <= Uvarint(src).n
         /\ String(src).err = "none" =>
              /\ String(src).n <= Len(src)
              /\ Len(String(src).value) = String(src).n - Uvarint(src).n
<1>1. ASSUME FitsIn(src)
      PROVE  /\ Len(AppendUvarint(<<>>, Uvarint(src).value)) = UvarintLen(Uvarint(src).value)
             /\ UvarintLen(Uvarint(src).value) <= Uvarint(src).n
  <2>1. PICK v \in Word : v = Uvarint(src).value /\ v = Exact(src)
    BY <1>1, VarintBounded
  <2>2. PICK n \in 1 .. MaxVarintLen : n = Uvarint(src).n /\ n = Min(Ends(src)) /\ n <= Len(src)
    <3>1. Uvarint(src).n = Min(Ends(src)) /\ Min(Ends(src)) \in 1 .. Len(src)
      BY <1>1, VarintBounded
    <3>2. Min(Ends(src)) <= MaxVarintLen
      BY <1>1 DEF FitsIn
    <3>3. MaxVarintLen \in Nat
      BY VarintWidths
    <3> QED BY <3>1, <3>2, <3>3
  <2>3. v < Weight(n)
    <3>1. \A i \in 1 .. n : src[i] \in Byte
      BY <2>2
    <3>2. Worth(src, n) < Weight(n)
      BY <3>1, CarriedIs
    <3> QED BY <2>1, <2>2, <3>2 DEF Exact
  <2>4. Len(Groups[v]) <= n
    BY <2>3, GroupsAreShort
  <2>5. AppendUvarint(<<>>, v) = Groups[v] /\ UvarintLen(v) = Len(Groups[v])
    BY UvarintAppended, UvarintLenIs
  <2> QED BY <2>1, <2>2, <2>4, <2>5
<1>2. ASSUME String(src).err = "none"
      PROVE  /\ String(src).n <= Len(src)
             /\ Len(String(src).value) = String(src).n - Uvarint(src).n
  BY <1>2, StringBounded
<1> QED BY <1>1, <1>2, VarintBounded

-----------------------------------------------------------------------------
(* The inductive invariant. *)

Answers == 0 .. 3

\* No field was decoded into two values, and every field before the reader is null in
\* the bitmap or was decoded into one.
ReaderInv ==
  /\ DOMAIN reader = {"field", "off", "got", "err"}
  /\ reader.field \in 0 .. Len(Schema) + 1
  /\ DOMAIN reader.got = Fieldset
  /\ \A i \in Fieldset : \A x, y \in reader.got[i] : x = y
  /\ \A i \in Fieldset : i < reader.field => IsNull(bm, i - 1) \/ reader.got[i] # {}

RowInv == row \in Seq(SUBSET UNION {Values[kind] : kind \in DOMAIN Values}) /\ Len(row) <= Len(Schema)

\* An answer that is true, or false, is right about every completion.
Cautious(answer, truth) ==
  \A c \in DOMAIN truth :
    /\ norm(answer) = True  => truth[c]
    /\ norm(answer) = False => ~truth[c]

Decided(answer, odd) == ~Any(bm, Len(Schema)) /\ ~odd => norm(answer) # Unknown

CondInv ==
  cond.terms # 0 =>
    /\ DOMAIN cond = {"terms", "answer", "odd", "truth"}
    /\ cond.answer \in Answers /\ cond.odd \in BOOLEAN /\ DOMAIN cond.truth \subseteq Completions
    /\ reader.field = Len(Schema) + 1
    /\ Cautious(cond.answer, cond.truth)
    /\ Decided(cond.answer, cond.odd)

Inv == RowInv /\ ReaderInv /\ CondInv

-----------------------------------------------------------------------------
(* Three truth values. *)

\* What is not true, or not false, is false, or true, of the same things.
LEMMA Connectives ==
  ASSUME NEW a \in Answers, NEW b \in Answers
  PROVE  /\ Not(a) \in Answers /\ And(a, b) \in Answers /\ Or(a, b) \in Answers
         /\ norm(Not(a)) = True      <=> norm(a) = False
         /\ norm(Not(a)) = False     <=> norm(a) = True
         /\ norm(And(a, b)) = True   <=> norm(a) = True /\ norm(b) = True
         /\ norm(And(a, b)) = False  <=> norm(a) = False \/ norm(b) = False
         /\ norm(Or(a, b)) = True    <=> norm(a) = True \/ norm(b) = True
         /\ norm(Or(a, b)) = False   <=> norm(a) = False /\ norm(b) = False
         /\ norm(a) \in {True, False, Unknown} /\ True # False /\ Unknown \notin {True, False}
  BY DEF Answers, Not, And, Or, norm, True, False, Unknown

LEMMA FromBoolIs ==
  ASSUME NEW v \in BOOLEAN
  PROVE  /\ FromBool(v) \in Answers /\ norm(FromBool(v)) # Unknown
         /\ norm(FromBool(v)) = True <=> v
         /\ norm(FromBool(v)) = False <=> ~v
  BY DEF FromBool, norm, True, False, Unknown, Answers

LEMMA NormIs ==
  /\ norm(True) = True /\ norm(False) = False /\ norm(Unknown) = Unknown
  /\ norm(Unknown + 1) = Unknown /\ True # False /\ Unknown \notin {True, False} /\ {True, False, Unknown, Unknown + 1} \subseteq Answers
  BY DEF norm, True, False, Unknown, Answers

-----------------------------------------------------------------------------
(* One comparison. *)

\* The kinds of comparison.
LEMMA TermKinds ==
  ASSUME NEW t \in Terms
  PROVE  \/ t.op \in {"=", "<"} /\ t.a \in IntFields /\ t.b \in IntFields
         \/ t.op \in {"= 30", "is null"} /\ t.a \in IntFields
         \/ t.op = "odd"
<1>1. CASE t \in [op : {"=", "<"}, a : IntFields, b : IntFields]
  BY <1>1
<1>2. CASE t \in [op : {"= 30", "is null"}, a : IntFields]
  BY <1>2
<1>3. CASE t \in {[op |-> "odd"]}
  <2>1. t = [op |-> "odd"]
    BY <1>3
  <2>2. t.op = "odd"
    BY <2>1, Zenon
  <2> QED BY <2>2
<1> QED BY <1>1, <1>2, <1>3 DEF Terms

\* A field that has a value has it in every completion.
LEMMA CompletionsAgree ==
  ASSUME ReaderInv, NEW c \in Completions, NEW i \in IntFields
  PROVE  c.fields[i] \in Int /\ c.odd \in BOOLEAN
         /\ (reader.got[i] # {} => reader.got[i] = {c.fields[i]})
<1>1. i \in Fieldset
  BY DEF IntFields
<1>2. c.fields \in [IntFields -> Values["int"] \cup {Thirty}] /\ c.odd \in BOOLEAN
      /\ \A j \in IntFields : reader.got[j] \subseteq {c.fields[j]} \/ reader.got[j] = {}
  BY DEF Completions
<1>3. c.fields[i] \in Int
  <2>1. Values["int"] \cup {Thirty} \subseteq Int
    BY RowsAssumption DEF Signed
  <2>2. c.fields[i] \in Values["int"] \cup {Thirty}
    BY <1>2
  <2> QED BY <2>1, <2>2
<1> QED BY <1>1, <1>2, <1>3, Zenon

\* A comparison is right about every completion, and unknown only where a null is.
LEMMA SaysCautiously ==
  ASSUME ReaderInv, NEW t \in Terms
  PROVE  /\ Says(t) \in Answers
         /\ \A c \in Completions : /\ norm(Says(t)) = True  => Holds(t, c)
                                   /\ norm(Says(t)) = False => ~Holds(t, c)
         /\ reader.field = Len(Schema) + 1 /\ ~Any(bm, Len(Schema)) /\ t.op # "odd" =>
              norm(Says(t)) # Unknown
<1>1. ASSUME reader.field = Len(Schema) + 1, ~Any(bm, Len(Schema)), NEW i \in IntFields
      PROVE  reader.got[i] # {}
  <2>1. i \in Fieldset /\ i \in 1 .. Len(Schema)
    BY RowsAssumption DEF IntFields, Fieldset
  <2>2. i < reader.field /\ i - 1 \in 0 .. Len(Schema) - 1
    BY <1>1, <2>1, RowsAssumption
  <2> QED BY <1>1, <2>1, <2>2 DEF ReaderInv, Any
<1>2. \A c \in Completions, i \in IntFields :
        c.fields[i] \in Int /\ (reader.got[i] # {} => reader.got[i] = {c.fields[i]})
  BY CompletionsAgree
<1>3. CASE t.op = "=" /\ t.a \in IntFields /\ t.b \in IntFields
  <2>1. Says(t) = EqualInt64(reader.got[t.a], reader.got[t.b])
    BY <1>3 DEF Says
  <2>2. \A c \in Completions : Holds(t, c) <=> c.fields[t.a] = c.fields[t.b]
    BY <1>3 DEF Holds
  <2>3. CASE reader.got[t.a] = {} \/ reader.got[t.b] = {}
    <3>1. Says(t) = Unknown
      BY <2>1, <2>3 DEF EqualInt64
    <3> QED BY <1>1, <1>3, <2>3, <3>1, NormIs
  <2>4. CASE reader.got[t.a] # {} /\ reader.got[t.b] # {}
    <3>1. Says(t) = FromBool(reader.got[t.a] = reader.got[t.b])
      BY <2>1, <2>4 DEF EqualInt64
    <3>2. \A c \in Completions : Holds(t, c) <=> reader.got[t.a] = reader.got[t.b]
      BY <1>2, <1>3, <2>2, <2>4, ZenonT(40)
    <3>3. (reader.got[t.a] = reader.got[t.b]) \in BOOLEAN
      OBVIOUS
    <3> QED BY <3>1, <3>2, <3>3, FromBoolIs
  <2> QED BY <2>3, <2>4
<1>4. CASE t.op = "<" /\ t.a \in IntFields /\ t.b \in IntFields
  <2>1. Says(t) = LessInt64(reader.got[t.a], reader.got[t.b])
    BY <1>4 DEF Says
  <2>2. \A c \in Completions : Holds(t, c) <=> c.fields[t.a] < c.fields[t.b]
    BY <1>4 DEF Holds
  <2> DEFINE less == \E x \in reader.got[t.a], y \in reader.got[t.b] : x < y
  <2>3. CASE reader.got[t.a] = {} \/ reader.got[t.b] = {}
    <3>1. Says(t) = Unknown
      BY <2>1, <2>3 DEF LessInt64
    <3> QED BY <1>1, <1>4, <2>3, <3>1, NormIs
  <2>4. CASE reader.got[t.a] # {} /\ reader.got[t.b] # {}
    <3>1. Says(t) = FromBool(less)
      BY <2>1, <2>4 DEF LessInt64
    <3>2. \A c \in Completions : Holds(t, c) <=> less
      BY <1>2, <1>4, <2>2, <2>4
    <3>3. less \in BOOLEAN
      OBVIOUS
    <3> HIDE DEF less
    <3> QED BY <3>1, <3>2, <3>3, FromBoolIs
  <2> QED BY <2>3, <2>4
<1>5. CASE t.op = "= 30" /\ t.a \in IntFields
  <2>1. Says(t) = EqualInt64(reader.got[t.a], {Thirty})
    BY <1>5 DEF Says
  <2>2. \A c \in Completions : Holds(t, c) <=> c.fields[t.a] = Thirty
    BY <1>5 DEF Holds
  <2>3. CASE reader.got[t.a] = {}
    <3>1. Says(t) = Unknown
      BY <2>1, <2>3 DEF EqualInt64
    <3> QED BY <1>1, <1>5, <2>3, <3>1, NormIs
  <2>4. CASE reader.got[t.a] # {}
    <3>1. Says(t) = FromBool(reader.got[t.a] = {Thirty})
      BY <2>1, <2>4 DEF EqualInt64
    <3>2. \A c \in Completions : Holds(t, c) <=> reader.got[t.a] = {Thirty}
      BY <1>2, <1>5, <2>2, <2>4, ZenonT(40)
    <3>3. (reader.got[t.a] = {Thirty}) \in BOOLEAN
      OBVIOUS
    <3> QED BY <3>1, <3>2, <3>3, FromBoolIs
  <2> QED BY <2>3, <2>4
<1>6. CASE t.op = "is null" /\ t.a \in IntFields
  <2>1. Says(t) = FromBool(reader.got[t.a] = {})
    BY <1>6 DEF Says, IsNullValue
  <2>2. \A c \in Completions : Holds(t, c) <=> reader.got[t.a] = {}
    BY <1>6 DEF Holds
  <2>3. (reader.got[t.a] = {}) \in BOOLEAN
    OBVIOUS
  <2> QED BY <2>1, <2>2, <2>3, FromBoolIs
<1>7. CASE t.op = "odd"
  <2>1. Says(t) = Unknown + 1
    BY <1>7 DEF Says
  <2> QED BY <1>7, <2>1, NormIs
<1> QED BY <1>3, <1>4, <1>5, <1>6, <1>7, TermKinds

-----------------------------------------------------------------------------
(* The steps. *)

\* As long as nothing is read and the bitmap stays, what the condition says stays right.
LEMMA SameReader ==
  ASSUME UNCHANGED <<bm, reader>>
  PROVE  /\ ReaderInv => ReaderInv'
         /\ Completions' = Completions
         /\ \A a, b : Cautious(a, b) => Cautious(a, b)'
         /\ \A a, o : Decided(a, o)' <=> Decided(a, o)
<1>1. ReaderInv => ReaderInv'
  BY DEF ReaderInv, IsNull, Has, Fields
<1>2. Completions' = Completions
  BY DEF Completions
<1>3. \A a, o : Decided(a, o)' <=> Decided(a, o)
  BY DEF Decided, Any, IsNull, Has, Fields
<1> QED BY <1>1, <1>2, <1>3 DEF Cautious

\* A step that reads nothing and leaves the condition alone.
LEMMA Elsewhere ==
  ASSUME Inv, UNCHANGED <<bm, reader, cond>>
  PROVE  ReaderInv' /\ CondInv'
BY SameReader DEF Inv, CondInv, Cautious, Decided

\* Before the row is read, no condition has been put to it.
LEMMA NotYet ==
  ASSUME Inv, reader.field # Len(Schema) + 1
  PROVE  cond.terms = 0
BY DEF Inv, CondInv

LEMMA SchemaLen == Len(Schema) \in Nat /\ Fieldset = 1 .. Len(Schema)
BY RowsAssumption DEF Fieldset

LEMMA AnyValue ==
  ASSUME RowInv, NEW v \in SUBSET UNION {Values[kind] : kind \in DOMAIN Values}, Len(row) < Len(Schema),
         row' = Append(row, v)
  PROVE  RowInv'
BY SchemaLen DEF RowInv

LEMMA WriteNullStep ==
  ASSUME Inv, WriteNull
  PROVE  Inv'
<1>1. reader.field = 0 /\ reader' = reader /\ cond' = cond /\ Len(row) < Len(Schema) /\ row' = Append(row, {})
  BY DEF WriteNull, Writing
<1>2. RowInv'
  BY <1>1, AnyValue DEF Inv
<1>3. ReaderInv'
  BY <1>1, SchemaLen DEF Inv, ReaderInv
<1>4. CondInv'
  BY <1>1, NotYet, SchemaLen DEF CondInv
<1> QED BY <1>2, <1>3, <1>4 DEF Inv

LEMMA WriteValueStep ==
  ASSUME Inv, WriteValue
  PROVE  Inv'
<1>1. PICK v \in Values[Schema[Len(row) + 1]] : row' = Append(row, {v})
  BY DEF WriteValue
<1>2. Len(row) < Len(Schema) /\ Len(row) + 1 \in DOMAIN Schema /\ UNCHANGED <<bm, reader, cond>>
  BY SchemaLen DEF WriteValue, Writing, Inv, RowInv, Fieldset
<1>3. Schema[Len(row) + 1] \in DOMAIN Values
  BY <1>2, RowsAssumption
<1>4. {v} \in SUBSET UNION {Values[kind] : kind \in DOMAIN Values}
  BY <1>1, <1>3
<1>5. RowInv'
  BY <1>1, <1>2, <1>4, AnyValue DEF Inv
<1> QED BY <1>2, <1>5, Elsewhere DEF Inv

LEMMA StrayBitStep ==
  ASSUME Inv, StrayBit
  PROVE  Inv'
<1>1. reader.field = 0 /\ UNCHANGED <<row, reader, cond>>
  BY DEF StrayBit
<1>2. ReaderInv'
  BY <1>1, SchemaLen DEF Inv, ReaderInv
<1>3. CondInv'
  BY <1>1, NotYet, SchemaLen DEF CondInv
<1> QED BY <1>1, <1>2, <1>3 DEF Inv, RowInv

LEMMA FaultStep ==
  ASSUME Inv, Cut \/ Damage
  PROVE  Inv'
<1>1. UNCHANGED <<row, bm, reader, cond>>
  BY DEF Cut, Damage
<1> QED BY <1>1, Elsewhere DEF Inv, RowInv

LEMMA StartReadingStep ==
  ASSUME Inv, StartReading
  PROVE  Inv'
<1>1. reader.field = 0 /\ reader' = [reader EXCEPT !.field = 1] /\ UNCHANGED <<row, bm, cond>>
  BY DEF StartReading
<1>2. ReaderInv'
  <2>1. DOMAIN reader' = DOMAIN reader /\ reader'.field = 1 /\ reader'.got = reader.got
    BY <1>1 DEF Inv, ReaderInv
  <2>2. \A i \in Fieldset : ~(i < 1)
    BY SchemaLen
  <2> QED BY <2>1, <2>2, SchemaLen DEF Inv, ReaderInv
<1>3. CondInv'
  BY <1>1, NotYet, SchemaLen DEF CondInv
<1> QED BY <1>1, <1>2, <1>3 DEF Inv, RowInv

LEMMA ReadingIs ==
  ASSUME Inv, Reading
  PROVE  /\ reader.field \in Fieldset /\ reader.field + 1 \in 0 .. Len(Schema) + 1
         /\ cond.terms = 0
         /\ \A i \in Fieldset : i < reader.field + 1 => i < reader.field \/ i = reader.field
<1>1. Len(row) \in Nat /\ Len(row) <= Len(Schema) /\ reader.field \in 1 .. Len(row)
  BY DEF Inv, RowInv, Reading
<1> QED BY <1>1, SchemaLen, NotYet

LEMMA ReadNullStep ==
  ASSUME Inv, ReadNull
  PROVE  Inv'
<1>1. Reading /\ IsNull(bm, reader.field - 1) /\ UNCHANGED <<row, bm, cond>>
      /\ reader' = [reader EXCEPT !.field = @ + 1]
  BY DEF ReadNull, SkipNull
<1>2. ReaderInv'
  <2>1. DOMAIN reader' = DOMAIN reader /\ reader'.field = reader.field + 1 /\ reader'.got = reader.got
    BY <1>1 DEF Inv, ReaderInv
  <2>2. \A i : IsNull(bm, i)' <=> IsNull(bm, i)
    BY <1>1 DEF IsNull, Has, Fields
  <2> QED BY <1>1, <2>1, <2>2, ReadingIs DEF Inv, ReaderInv
<1>3. CondInv'
  BY <1>1, ReadingIs DEF CondInv
<1> QED BY <1>1, <1>2, <1>3 DEF Inv, RowInv

LEMMA ReadValueStep ==
  ASSUME Inv, ReadValue
  PROVE  Inv'
<1> DEFINE d == Decode(Schema[reader.field], Rest)
<1>1. Reading /\ UNCHANGED <<row, bm, cond>>
      /\ reader' = IF d.err # "none" THEN [reader EXCEPT !.err = d.err]
                   ELSE [reader EXCEPT !.field = @ + 1, !.off = @ + d.n,
                                       !.got = [@ EXCEPT ![reader.field] = {d.value}]]
  BY DEF ReadValue
<1>2. PICK err, value, n : err = d.err /\ value = d.value /\ n = d.n
  OBVIOUS
<1> HIDE DEF d
<1>3. \A i : IsNull(bm, i)' <=> IsNull(bm, i)
  BY <1>1 DEF IsNull, Has, Fields
<1>4. ReaderInv'
  <2>1. CASE err # "none"
    <3>1. DOMAIN reader' = DOMAIN reader /\ reader'.field = reader.field /\ reader'.got = reader.got
      BY <1>1, <1>2, <2>1 DEF Inv, ReaderInv
    <3> QED BY <1>3, <3>1 DEF Inv, ReaderInv
  <2>2. CASE err = "none"
    <3>1. DOMAIN reader' = DOMAIN reader /\ reader'.field = reader.field + 1
          /\ reader'.got = [reader.got EXCEPT ![reader.field] = {value}]
      BY <1>1, <1>2, <2>2 DEF Inv, ReaderInv
    <3>2. reader.field \in Fieldset /\ DOMAIN reader.got = Fieldset
      BY <1>1, ReadingIs DEF Inv, ReaderInv
    <3>3. \A i \in Fieldset : reader'.got[i] = IF i = reader.field THEN {value} ELSE reader.got[i]
      BY <3>1, <3>2
    <3>4. \A i \in Fieldset : \A x, y \in reader'.got[i] : x = y
      BY <3>3 DEF Inv, ReaderInv
    <3>5. \A i \in Fieldset : i < reader'.field => IsNull(bm, i - 1) \/ reader'.got[i] # {}
      <4> SUFFICES ASSUME NEW i \in Fieldset, i < reader.field + 1
                   PROVE  IsNull(bm, i - 1) \/ reader'.got[i] # {}
        BY <3>1
      <4>1. i < reader.field \/ i = reader.field
        BY <1>1, ReadingIs
      <4> QED BY <3>3, <4>1 DEF Inv, ReaderInv
    <3> QED BY <1>1, <1>3, <3>1, <3>2, <3>4, <3>5, ReadingIs DEF Inv, ReaderInv
  <2> QED BY <2>1, <2>2
<1>5. CondInv'
  BY <1>1, ReadingIs DEF CondInv
<1> QED BY <1>1, <1>4, <1>5 DEF Inv, RowInv

LEMMA CompareStep ==
  ASSUME Inv, NEW t \in Terms, Compare(t)
  PROVE  Inv'
<1>1. UNCHANGED <<row, bm, reader>> /\ reader.field = Len(Schema) + 1
      /\ cond' = [terms |-> 1, answer |-> Says(t), odd |-> t.op = "odd",
                  truth |-> [c \in Completions |-> Holds(t, c)]]
  BY DEF Compare, Read
<1>2. DOMAIN cond' = {"terms", "answer", "odd", "truth"} /\ cond'.answer = Says(t)
      /\ cond'.odd \in BOOLEAN /\ (cond'.odd <=> t.op = "odd")
      /\ DOMAIN cond'.truth = Completions /\ \A c \in Completions : cond'.truth[c] <=> Holds(t, c)
  BY <1>1
<1>3. Cautious(cond'.answer, cond'.truth)
  BY <1>2, SaysCautiously DEF Inv, Cautious
<1>4. Decided(cond'.answer, cond'.odd)
  BY <1>1, <1>2, SaysCautiously DEF Inv, Decided
<1>5. CondInv'
  BY <1>1, <1>2, <1>3, <1>4, SaysCautiously, SameReader DEF CondInv, Inv, Cautious, Decided
<1> QED BY <1>1, <1>5, SameReader DEF Inv, RowInv

LEMMA NegateStep ==
  ASSUME Inv, Negate
  PROVE  Inv'
<1>1. UNCHANGED <<row, bm, page, fault, reader>> /\ cond.terms > 0
      /\ cond' = [cond EXCEPT !.answer = Not(@), !.truth = [c \in DOMAIN @ |-> ~@[c]]]
  BY DEF Negate
<1>2. DOMAIN cond = {"terms", "answer", "odd", "truth"} /\ cond.answer \in Answers
      /\ cond.odd \in BOOLEAN /\ DOMAIN cond.truth \subseteq Completions
      /\ reader.field = Len(Schema) + 1
      /\ Cautious(cond.answer, cond.truth) /\ Decided(cond.answer, cond.odd)
  BY <1>1 DEF Inv, CondInv
<1>3. DOMAIN cond' = {"terms", "answer", "odd", "truth"} /\ cond'.answer = Not(cond.answer)
      /\ cond'.odd = cond.odd /\ DOMAIN cond'.truth = DOMAIN cond.truth
      /\ \A c \in DOMAIN cond.truth : cond'.truth[c] <=> ~cond.truth[c]
  BY <1>1, <1>2
<1>4. Cautious(cond'.answer, cond'.truth)
  BY <1>2, <1>3, Connectives DEF Cautious
<1>5. Decided(cond'.answer, cond'.odd)
  BY <1>2, <1>3, Connectives DEF Decided
<1>6. CondInv'
  BY <1>1, <1>2, <1>3, <1>4, <1>5, Connectives, SameReader DEF CondInv, Cautious, Decided
<1> QED BY <1>1, <1>6, SameReader DEF Inv, RowInv

LEMMA AndAlsoStep ==
  ASSUME Inv, NEW t \in Terms, AndAlso(t)
  PROVE  Inv'
<1>1. UNCHANGED <<row, bm, page, fault, reader>> /\ cond.terms # 0
      /\ cond' = [terms |-> cond.terms + 1, answer |-> And(cond.answer, Says(t)),
                  odd |-> cond.odd \/ t.op = "odd",
                  truth |-> [c \in DOMAIN cond.truth |-> cond.truth[c] /\ Holds(t, c)]]
  BY DEF AndAlso
<1>2. cond.answer \in Answers /\ DOMAIN cond.truth \subseteq Completions
      /\ reader.field = Len(Schema) + 1
      /\ Cautious(cond.answer, cond.truth) /\ Decided(cond.answer, cond.odd)
  BY <1>1 DEF Inv, CondInv
<1>3. DOMAIN cond' = {"terms", "answer", "odd", "truth"} /\ cond'.answer = And(cond.answer, Says(t))
      /\ cond'.odd \in BOOLEAN /\ (cond'.odd <=> cond.odd \/ t.op = "odd")
      /\ DOMAIN cond'.truth = DOMAIN cond.truth
      /\ \A c \in DOMAIN cond.truth : cond'.truth[c] <=> cond.truth[c] /\ Holds(t, c)
  BY <1>1
<1>4. /\ Says(t) \in Answers
      /\ \A c \in Completions : /\ norm(Says(t)) = True  => Holds(t, c)
                                /\ norm(Says(t)) = False => ~Holds(t, c)
      /\ ~Any(bm, Len(Schema)) /\ t.op # "odd" => norm(Says(t)) # Unknown
  BY <1>2, SaysCautiously DEF Inv
<1>5. /\ cond'.answer \in Answers
      /\ norm(cond'.answer) = True  <=> norm(cond.answer) = True /\ norm(Says(t)) = True
      /\ norm(cond'.answer) = False <=> norm(cond.answer) = False \/ norm(Says(t)) = False
      /\ norm(cond.answer) # Unknown /\ norm(Says(t)) # Unknown => norm(cond'.answer) # Unknown
  <2>1. PICK a \in Answers, s \in Answers : a = cond.answer /\ s = Says(t)
    BY <1>2, <1>4
  <2>2. PICK r \in Answers : r = And(a, s)
    BY Connectives
  <2>3. /\ norm(r) = True  <=> norm(a) = True /\ norm(s) = True
        /\ norm(r) = False <=> norm(a) = False \/ norm(s) = False
        /\ norm(a) # Unknown /\ norm(s) # Unknown => norm(r) # Unknown
    BY <2>2 DEF Answers, And, norm, True, False, Unknown
  <2> QED BY <1>3, <2>1, <2>2, <2>3, Zenon
<1>6. Cautious(cond'.answer, cond'.truth)
  <2>1. \A c \in DOMAIN cond.truth : /\ norm(cond'.answer) = True  => cond'.truth[c]
                                     /\ norm(cond'.answer) = False => ~cond'.truth[c]
    BY <1>2, <1>3, <1>4, <1>5, Zenon DEF Cautious
  <2> QED BY <1>3, <2>1, Zenon DEF Cautious
<1>7. Decided(cond'.answer, cond'.odd)
  BY <1>2, <1>3, <1>4, <1>5, Zenon DEF Decided
<1>8. CondInv'
  BY <1>1, <1>2, <1>3, <1>5, <1>6, <1>7, SameReader DEF CondInv, Cautious, Decided
<1> QED BY <1>1, <1>8, SameReader DEF Inv, RowInv

LEMMA OrElseStep ==
  ASSUME Inv, NEW t \in Terms, OrElse(t)
  PROVE  Inv'
<1>1. UNCHANGED <<row, bm, page, fault, reader>> /\ cond.terms # 0
      /\ cond' = [terms |-> cond.terms + 1, answer |-> Or(cond.answer, Says(t)),
                  odd |-> cond.odd \/ t.op = "odd",
                  truth |-> [c \in DOMAIN cond.truth |-> cond.truth[c] \/ Holds(t, c)]]
  BY DEF OrElse
<1>2. cond.answer \in Answers /\ DOMAIN cond.truth \subseteq Completions
      /\ reader.field = Len(Schema) + 1
      /\ Cautious(cond.answer, cond.truth) /\ Decided(cond.answer, cond.odd)
  BY <1>1 DEF Inv, CondInv
<1>3. DOMAIN cond' = {"terms", "answer", "odd", "truth"} /\ cond'.answer = Or(cond.answer, Says(t))
      /\ cond'.odd \in BOOLEAN /\ (cond'.odd <=> cond.odd \/ t.op = "odd")
      /\ DOMAIN cond'.truth = DOMAIN cond.truth
      /\ \A c \in DOMAIN cond.truth : cond'.truth[c] <=> cond.truth[c] \/ Holds(t, c)
  BY <1>1
<1>4. /\ Says(t) \in Answers
      /\ \A c \in Completions : /\ norm(Says(t)) = True  => Holds(t, c)
                                /\ norm(Says(t)) = False => ~Holds(t, c)
      /\ ~Any(bm, Len(Schema)) /\ t.op # "odd" => norm(Says(t)) # Unknown
  BY <1>2, SaysCautiously DEF Inv
<1>5. /\ cond'.answer \in Answers
      /\ norm(cond'.answer) = True  <=> norm(cond.answer) = True \/ norm(Says(t)) = True
      /\ norm(cond'.answer) = False <=> norm(cond.answer) = False /\ norm(Says(t)) = False
      /\ norm(cond.answer) # Unknown /\ norm(Says(t)) # Unknown => norm(cond'.answer) # Unknown
  <2>1. PICK a \in Answers, s \in Answers : a = cond.answer /\ s = Says(t)
    BY <1>2, <1>4
  <2>2. PICK r \in Answers : r = Or(a, s)
    BY Connectives
  <2>3. /\ norm(r) = True  <=> norm(a) = True \/ norm(s) = True
        /\ norm(r) = False <=> norm(a) = False /\ norm(s) = False
        /\ norm(a) # Unknown /\ norm(s) # Unknown => norm(r) # Unknown
    BY <2>2 DEF Answers, Or, norm, True, False, Unknown
  <2> QED BY <1>3, <2>1, <2>2, <2>3, Zenon
<1>6. Cautious(cond'.answer, cond'.truth)
  <2>1. \A c \in DOMAIN cond.truth : /\ norm(cond'.answer) = True  => cond'.truth[c]
                                     /\ norm(cond'.answer) = False => ~cond'.truth[c]
    BY <1>2, <1>3, <1>4, <1>5, Zenon DEF Cautious
  <2> QED BY <1>3, <2>1, Zenon DEF Cautious
<1>7. Decided(cond'.answer, cond'.odd)
  BY <1>2, <1>3, <1>4, <1>5, Zenon DEF Decided
<1>8. CondInv'
  BY <1>1, <1>2, <1>3, <1>5, <1>6, <1>7, SameReader DEF CondInv, Cautious, Decided
<1> QED BY <1>1, <1>8, SameReader DEF Inv, RowInv

-----------------------------------------------------------------------------
LEMMA InitInv ==
  ASSUME Init
  PROVE  Inv
<1>1. reader.field = 0 /\ DOMAIN reader = {"field", "off", "got", "err"}
      /\ reader.got = [i \in Fieldset |-> {}] /\ cond.terms = 0 /\ row = <<>>
  BY DEF Init
<1>2. RowInv
  BY <1>1, SchemaLen DEF RowInv
<1>3. ReaderInv
  BY <1>1, SchemaLen DEF ReaderInv
<1> QED BY <1>1, <1>2, <1>3 DEF Inv, CondInv

LEMMA NextInv ==
  ASSUME Inv, [Next]_vars
  PROVE  Inv'
<1>1. CASE Next
  BY <1>1, WriteNullStep, WriteValueStep, StrayBitStep, FaultStep, StartReadingStep, ReadNullStep,
     ReadValueStep, CompareStep, AndAlsoStep, OrElseStep, NegateStep, Zenon DEF Next
<1>2. CASE UNCHANGED vars
  <2>1. UNCHANGED <<row, bm, reader, cond>>
    BY <1>2 DEF vars
  <2> QED BY <2>1, Elsewhere DEF Inv, RowInv
<1> QED BY <1>1, <1>2

-----------------------------------------------------------------------------
(* The theorem. *)

\* WHERE keeps no row it might not have kept, whatever the fields of a row and however
\* many comparisons are put together: what is true holds and what is false fails in every
\* completion of the row, and without nulls nothing is unknown.
THEOREM LogicStaysCautious == Spec => []LogicIsCautious
<1>1. Init => Inv
  BY InitInv
<1>2. Inv /\ [Next]_vars => Inv'
  BY NextInv
<1>3. Inv => LogicIsCautious
  BY Connectives DEF Inv, CondInv, Cautious, Decided, LogicIsCautious, IsTrue
<1> QED BY <1>1, <1>2, <1>3, PTL DEF Spec

-----------------------------------------------------------------------------
(* What is read. *)

\* The page holds bytes, damaged or not, and the reader has not passed their end; a
\* float that was decoded is a word.
PageInv ==
  /\ page \in [itemCount : Nat, body : Seq(Byte)]
  /\ fault \in Nat \X Nat
  /\ reader.off \in 0 .. Len(page.body)
  /\ reader.field = 0 => reader.off = 0
  /\ \A i \in Fieldset : Schema[i] = "float" => reader.got[i] \subseteq Word

\* A step that leaves the page and the reader alone.
LEMMA PageStays ==
  ASSUME PageInv, UNCHANGED <<page, fault, reader>>
  PROVE  PageInv'
BY DEF PageInv

\* Every field has a kind that has values.
LEMMA SchemaKinds ==
  ASSUME NEW i \in Fieldset
  PROVE  Schema[i] \in DOMAIN Values
BY RowsAssumption DEF Fieldset

LEMMA WriteValuePage ==
  ASSUME Inv, PageInv, WriteValue
  PROVE  PageInv'
<1>1. PICK v \in Values[Schema[Len(row) + 1]] : page' = PutItem(page, Encoded(Schema[Len(row) + 1], v))
  BY DEF WriteValue
<1>2. reader.field = 0 /\ Len(row) < Len(Schema) /\ UNCHANGED <<fault, reader>>
  BY DEF WriteValue, Writing
<1>3. Len(row) + 1 \in Fieldset
  BY <1>2, SchemaLen DEF Inv, RowInv
<1>4. PICK e \in Seq(Byte) : e = Encoded(Schema[Len(row) + 1], v)
  BY <1>1, <1>3, SchemaKinds, ValueReads
<1>5. page'.body = page.body \o e /\ page'.itemCount = page.itemCount + 1
      /\ page' = [itemCount |-> page.itemCount + 1, body |-> page.body \o e]
  BY <1>1, <1>4 DEF PutItem
<1>6. page.body \o e \in Seq(Byte)
  BY <1>4, ConcatProperties DEF PageInv
<1>7. page' \in [itemCount : Nat, body : Seq(Byte)]
  BY <1>5, <1>6 DEF PageInv
<1>8. reader'.off \in 0 .. Len(page'.body)
  BY <1>2, <1>5, <1>6, <1>7 DEF PageInv
<1> QED BY <1>2, <1>7, <1>8 DEF PageInv

LEMMA CutPage ==
  ASSUME PageInv, Cut
  PROVE  PageInv'
<1>1. PICK n \in 0 .. Len(page.body) - 1 :
        /\ page' = [page EXCEPT !.body = SubSeq(@, 1, n)]
        /\ fault' = <<Len(page.body) - n, 0>>
  BY DEF Cut
<1>2. reader.field = 0 /\ UNCHANGED reader
  BY DEF Cut
<1>3. PICK s \in Seq(Byte) : s = page.body
  BY DEF PageInv
<1>4. SubSeq(s, 1, n) \in Seq(Byte)
  <2>1. 1 \in 1 .. Len(s) + 1 /\ n \in 1 - 1 .. Len(s)
    BY <1>1, <1>3
  <2> QED BY <2>1, Slice
<1>5. page' = [page EXCEPT !.body = SubSeq(s, 1, n)]
  BY <1>1, <1>3
<1>6. page' \in [itemCount : Nat, body : Seq(Byte)]
  BY <1>4, <1>5 DEF PageInv
<1>7. Len(s) - n \in Nat
  BY <1>1, <1>3
<1>8. fault' \in Nat \X Nat
  BY <1>1, <1>3, <1>7
<1>9. 0 \in 0 .. Len(page'.body)
  BY <1>6
<1> QED BY <1>2, <1>6, <1>8, <1>9 DEF PageInv

LEMMA DamagePage ==
  ASSUME PageInv, Damage
  PROVE  PageInv' /\ fault'[2] # 0
<1>1. PICK i \in DOMAIN page.body, b \in Byte : page' = [page EXCEPT !.body[i] = b]
  BY DEF Damage
<1>2. reader.field = 0 /\ UNCHANGED reader /\ fault' = <<0, fault[2] + 1>>
  BY DEF Damage
<1>3. PICK s \in Seq(Byte) : s = page.body
  BY DEF PageInv
<1>4. [s EXCEPT ![i] = b] \in Seq(Byte)
  BY <1>1, <1>3
<1>5. page' = [page EXCEPT !.body = [s EXCEPT ![i] = b]]
  BY <1>1, <1>3
<1>6. page' \in [itemCount : Nat, body : Seq(Byte)]
  BY <1>4, <1>5 DEF PageInv
<1>7. fault[2] \in Nat
  BY DEF PageInv
<1>8. fault' \in Nat \X Nat /\ fault'[2] # 0
  BY <1>2, <1>7
<1>9. 0 \in 0 .. Len(page'.body)
  BY <1>6
<1> QED BY <1>2, <1>6, <1>8, <1>9 DEF PageInv

LEMMA StartReadingPage ==
  ASSUME Inv, PageInv, StartReading
  PROVE  PageInv'
<1>1. reader.field = 0 /\ reader' = [reader EXCEPT !.field = 1] /\ UNCHANGED <<page, fault>>
  BY DEF StartReading
<1>2. reader'.field = 1 /\ reader'.off = reader.off /\ reader'.got = reader.got
  BY <1>1 DEF Inv, ReaderInv
<1> QED BY <1>1, <1>2 DEF PageInv

LEMMA ReadNullPage ==
  ASSUME Inv, PageInv, ReadNull
  PROVE  PageInv'
<1>1. Reading /\ reader' = [reader EXCEPT !.field = @ + 1] /\ UNCHANGED <<page, fault>>
  BY DEF ReadNull, SkipNull
<1>2. reader'.field = reader.field + 1 /\ reader'.off = reader.off /\ reader'.got = reader.got
  BY <1>1 DEF Inv, ReaderInv
<1>3. reader.field + 1 # 0
  BY <1>1, ReadingIs, SchemaLen
<1> QED BY <1>1, <1>2, <1>3 DEF PageInv

\* What is left to read is bytes.
LEMMA RestIs ==
  ASSUME PageInv
  PROVE  Rest \in Seq(Byte) /\ Len(Rest) = Len(page.body) - reader.off
<1>1. PICK s \in Seq(Byte), a \in Nat : s = page.body /\ a = reader.off /\ a <= Len(s)
  BY DEF PageInv
<1>2. a + 1 \in 1 .. Len(s) + 1 /\ Len(s) \in (a + 1) - 1 .. Len(s) /\ Len(s) - (a + 1) + 1 = Len(s) - a
  BY <1>1
<1>3. SubSeq(s, a + 1, Len(s)) \in Seq(Byte) /\ Len(SubSeq(s, a + 1, Len(s))) = Len(s) - (a + 1) + 1
  BY <1>2, Slice
<1> QED BY <1>1, <1>2, <1>3 DEF Rest

LEMMA ReadValuePage ==
  ASSUME Inv, PageInv, ReadValue
  PROVE  PageInv'
<1>1. PICK d : d = Decode(Schema[reader.field], Rest)
  OBVIOUS
<1>2. Reading /\ UNCHANGED <<page, fault>>
      /\ reader' = IF d.err # "none" THEN [reader EXCEPT !.err = d.err]
                   ELSE [reader EXCEPT !.field = @ + 1, !.off = @ + d.n,
                                       !.got = [@ EXCEPT ![reader.field] = {d.value}]]
  BY <1>1 DEF ReadValue
<1>3. CASE d.err # "none"
  <2>1. reader'.field = reader.field /\ reader'.off = reader.off /\ reader'.got = reader.got
    BY <1>2, <1>3 DEF Inv, ReaderInv
  <2> QED BY <1>2, <2>1 DEF PageInv
<1>4. CASE d.err = "none"
  <2>1. reader'.field = reader.field + 1 /\ reader'.off = reader.off + d.n
        /\ reader'.got = [reader.got EXCEPT ![reader.field] = {d.value}]
    BY <1>2, <1>4 DEF Inv, ReaderInv
  <2>2. reader.field \in Fieldset /\ DOMAIN reader.got = Fieldset /\ reader.field + 1 # 0
    BY <1>2, ReadingIs, SchemaLen DEF Inv, ReaderInv
  <2>3. d.n \in 0 .. Len(Rest) /\ (Schema[reader.field] = "float" => d.value \in Word)
    BY <1>1, <1>4, <2>2, RestIs, SchemaKinds, DecodeBounded
  <2>4. reader.off + d.n \in 0 .. Len(page.body)
    <3>1. PICK a \in Nat, l \in Nat, n \in Nat : a = reader.off /\ l = Len(page.body) /\ n = d.n /\ n <= l - a
      BY <2>3, RestIs DEF PageInv
    <3>2. a + n \in 0 .. l
      BY <3>1
    <3> QED BY <3>1, <3>2
  <2>5. \A i \in Fieldset : reader'.got[i] = IF i = reader.field THEN {d.value} ELSE reader.got[i]
    BY <2>1, <2>2
  <2>6. \A i \in Fieldset : Schema[i] = "float" => reader'.got[i] \subseteq Word
    BY <2>3, <2>5 DEF PageInv
  <2> QED BY <1>2, <2>1, <2>2, <2>4, <2>6 DEF PageInv
<1> QED BY <1>3, <1>4

LEMMA InitPage ==
  ASSUME Init
  PROVE  PageInv
<1>1. page = [itemCount |-> 0, body |-> <<>>] /\ fault = <<0, 0>> /\ reader.off = 0
      /\ reader.got = [i \in Fieldset |-> {}]
  BY DEF Init
<1>2. page.body = <<>> /\ page \in [itemCount : Nat, body : Seq(Byte)]
  BY <1>1
<1> QED BY <1>1, <1>2 DEF PageInv

LEMMA NextPage ==
  ASSUME Inv, PageInv, [Next]_vars
  PROVE  PageInv'
<1>1. CASE UNCHANGED <<page, fault, reader>>
  BY <1>1, PageStays
<1>2. CASE ~UNCHANGED <<page, fault, reader>>
  <2>1. ~UNCHANGED vars
    BY <1>2 DEF vars
  <2>2. ~WriteNull /\ ~StrayBit /\ ~Negate
        /\ \A t \in Terms : ~Compare(t) /\ ~AndAlso(t) /\ ~OrElse(t)
    BY <1>2 DEF WriteNull, StrayBit, Negate, Compare, AndAlso, OrElse
  <2>3. WriteValue \/ Cut \/ Damage \/ StartReading \/ ReadNull \/ ReadValue
    BY <2>1, <2>2, Zenon DEF Next
  <2> QED BY <2>3, WriteValuePage, CutPage, DamagePage, StartReadingPage, ReadNullPage, ReadValuePage
<1> QED BY <1>1, <1>2

\* Keys sort as the numbers do: of words, whatever their width, the bytes of a key compare
\* as the numbers do, signed and unsigned and as floats, and read back.
THEOREM KeysAlwaysKeepOrder == Spec => []KeysKeepOrder
<1>1. Init => Inv /\ PageInv
  BY InitInv, InitPage
<1>2. Inv /\ PageInv /\ [Next]_vars => Inv' /\ PageInv'
  BY NextInv, NextPage
<1>3. PageInv => KeysKeepOrder
  <2> SUFFICES ASSUME PageInv, NEW i \in Fieldset, Schema[i] = "float", NEW u \in reader.got[i]
               PROVE  /\ KeyUint64(UintKey[u]) = Decoded(u, WordBytes)
                      /\ KeyInt64(IntKey[u]) = Decoded(int(u), WordBytes)
                      /\ KeyFloat64(FloatKey[u]) = Decoded(OneOfEach(u), WordBytes)
                      /\ \A w \in Word :
                           /\ u < w             <=> Below(UintKey[u], UintKey[w])
                           /\ int(u) < int(w)   <=> Below(IntKey[u], IntKey[w])
                           /\ FloatBefore(u, w) <=> Below(FloatKey[u], FloatKey[w])
                           /\ FloatBefore(w, u) <=> Below(FloatKey[w], FloatKey[u])
    BY Zenon DEF KeysKeepOrder
  <2>1. u \in Word
    BY DEF PageInv
  <2> QED BY <2>1, KeysCompare, Zenon
<1> QED BY <1>1, <1>2, <1>3, PTL DEF Spec

\* Whatever became of the bytes, a varint that is read is the number they come to, one that
\* is refused was too long or too short, and a string lies in the bytes that were there.
THEOREM DecodingStaysExact == Spec => []DecodingIsExact
<1>1. Init => Inv /\ PageInv
  BY InitInv, InitPage
<1>2. Inv /\ PageInv /\ [Next]_vars => Inv' /\ PageInv'
  BY NextInv, NextPage
<1>3. PageInv => DecodingIsExact
  <2> SUFFICES ASSUME PageInv
               PROVE  DecodingIsExact
    OBVIOUS
  <2>1. PICK src \in Seq(Byte) : src = Rest
    BY RestIs
  <2>2. reader.off <= Len(page.body)
    BY DEF PageInv
  <2> QED BY <2>1, <2>2, AnyBytes, Zenon DEF DecodingIsExact, FitsIn
<1> QED BY <1>1, <1>2, <1>3, PTL DEF Spec

-----------------------------------------------------------------------------
(* The null bitmap. *)

\* Two fields have the same bit of the same byte only if they are the same.
LEMMA BitsApart ==
  ASSUME NEW i \in Nat, NEW j \in Nat, ByteOf(i) = ByteOf(j), BitOf(i) = BitOf(j)
  PROVE  i = j
<1>1. PICK b \in Nat \ {0} : b = ByteBits
  BY WidthsAre
<1>2. /\ i \div b \in Int /\ i = (i \div b) * b + (i % b)
      /\ j \div b \in Int /\ j = (j \div b) * b + (j % b)
  BY Division
<1>3. PICK p \in Int, q \in Int : p = i \div b /\ q = j \div b
  BY <1>2
<1>4. p + 1 = q + 1 /\ i % b = j % b
  BY <1>1, <1>3 DEF ByteOf, BitOf
<1>5. p = q
  BY <1>4
<1> QED BY <1>2, <1>3, <1>4, <1>5

\* A field the bitmap has a bit of has it in one of its bytes.
LEMMA ByteIs ==
  ASSUME NEW m \in Seq(SUBSET Int), NEW i \in Int, Has(m, i)
  PROVE  ByteOf(i) \in 1 .. Len(m) /\ BitOf(i) \in Int /\ i \in Nat
<1>1. PICK b \in Nat \ {0}, l \in Nat : b = ByteBits /\ l = Len(m)
  BY WidthsAre
<1>2. 0 <= i /\ i < l * b
  BY <1>1 DEF Has, Fields
<1>3. i % b \in 0 .. b - 1 /\ i \div b \in Int /\ i = (i \div b) * b + (i % b)
  BY Division
<1>4. PICK q \in Int, r \in 0 .. b - 1 : q = i \div b /\ r = i % b /\ i = q * b + r
  BY <1>3
<1>5. q < l
  <2>1. q * b \in Int /\ l * b \in Int
    BY Products
  <2>2. q * b < l * b
    BY <1>2, <1>4, <2>1
  <2> QED BY <2>2, Cancel
<1>6. 0 <= q
  <2>1. CASE q < 0
    <3>1. q + 1 <= 0
      BY <2>1
    <3>2. (q + 1) * b <= 0 * b /\ (q + 1) * b = q * b + b
      BY <3>1, Products
    <3>3. q * b \in Int /\ 0 * b = 0
      BY Products
    <3> QED BY <1>2, <1>4, <3>2, <3>3
  <2> QED BY <2>1
<1>7. q + 1 \in 1 .. l
  BY <1>5, <1>6
<1> QED BY <1>1, <1>2, <1>3, <1>4, <1>7 DEF ByteOf, BitOf

\* SetNull sets one bit, or none.
LEMMA SetNullIs ==
  ASSUME NEW m \in Seq(SUBSET Int), NEW i \in Int
  PROVE  /\ SetNull(m, i) \in Seq(SUBSET Int) /\ Len(SetNull(m, i)) = Len(m)
         /\ \A j \in Int : IsNull(SetNull(m, i), j) <=> IsNull(m, j) \/ (Has(m, i) /\ j = i)
<1>1. CASE ~Has(m, i)
  BY <1>1 DEF SetNull
<1>2. CASE Has(m, i)
  <2>1. PICK k \in 1 .. Len(m), t \in Int : k = ByteOf(i) /\ t = BitOf(i) /\ i \in Nat
    BY <1>2, ByteIs
  <2>2. PICK new : new = SetNull(m, i)
    OBVIOUS
  <2>3. new = [m EXCEPT ![k] = @ \cup {t}]
    BY <1>2, <2>1, <2>2 DEF SetNull
  <2>4. m[k] \in SUBSET Int
    BY <2>1
  <2>5. m[k] \cup {t} \in SUBSET Int
    BY <2>1, <2>4
  <2>6. new \in Seq(SUBSET Int) /\ Len(new) = Len(m)
        /\ \A n \in 1 .. Len(m) : new[n] = IF n = k THEN m[k] \cup {t} ELSE m[n]
    BY <2>1, <2>3, <2>5
  <2>7. \A j : Has(new, j) <=> Has(m, j)
    BY <2>6 DEF Has, Fields
  <2>8. ASSUME NEW j \in Int, Has(m, j)
        PROVE  BitOf(j) \in new[ByteOf(j)] <=> BitOf(j) \in m[ByteOf(j)] \/ j = i
    <3>1. PICK n \in 1 .. Len(m), s \in Int : n = ByteOf(j) /\ s = BitOf(j) /\ j \in Nat
      BY <2>8, ByteIs
    <3>2. n = k /\ s = t <=> j = i
      BY <2>1, <3>1, BitsApart
    <3> QED BY <2>6, <3>1, <3>2
  <2>9. \A j \in Int : IsNull(new, j) <=> IsNull(m, j) \/ j = i
    BY <1>2, <2>7, <2>8 DEF IsNull
  <2> QED BY <1>2, <2>2, <2>6, <2>9
<1> QED BY <1>1, <1>2

\* SetPresent clears one bit, or none.
LEMMA SetPresentIs ==
  ASSUME NEW m \in Seq(SUBSET Int), NEW i \in Int
  PROVE  /\ SetPresent(m, i) \in Seq(SUBSET Int) /\ Len(SetPresent(m, i)) = Len(m)
         /\ \A j \in Int : j # i => (IsNull(SetPresent(m, i), j) <=> IsNull(m, j))
<1>1. CASE ~Has(m, i)
  BY <1>1 DEF SetPresent
<1>2. CASE Has(m, i)
  <2>1. PICK k \in 1 .. Len(m), t \in Int : k = ByteOf(i) /\ t = BitOf(i) /\ i \in Nat
    BY <1>2, ByteIs
  <2>2. PICK new : new = SetPresent(m, i)
    OBVIOUS
  <2>3. new = [m EXCEPT ![k] = @ \ {t}]
    BY <1>2, <2>1, <2>2 DEF SetPresent
  <2>4. m[k] \in SUBSET Int
    BY <2>1
  <2>5. m[k] \ {t} \in SUBSET Int
    BY <2>1, <2>4
  <2>6. new \in Seq(SUBSET Int) /\ Len(new) = Len(m)
        /\ \A n \in 1 .. Len(m) : new[n] = IF n = k THEN m[k] \ {t} ELSE m[n]
    BY <2>1, <2>3, <2>5
  <2>7. \A j : Has(new, j) <=> Has(m, j)
    BY <2>6 DEF Has, Fields
  <2>8. ASSUME NEW j \in Int, Has(m, j), j # i
        PROVE  BitOf(j) \in new[ByteOf(j)] <=> BitOf(j) \in m[ByteOf(j)]
    <3>1. PICK n \in 1 .. Len(m), s \in Int : n = ByteOf(j) /\ s = BitOf(j) /\ j \in Nat
      BY <2>8, ByteIs
    <3>2. ~(n = k /\ s = t)
      BY <2>1, <2>8, <3>1, BitsApart
    <3> QED BY <2>6, <3>1, <3>2
  <2>9. \A j \in Int : j # i => (IsNull(new, j) <=> IsNull(m, j))
    BY <2>7, <2>8 DEF IsNull
  <2> QED BY <2>2, <2>6, <2>9
<1> QED BY <1>1, <1>2

\* The bitmap of a row has a bit for every field.
LEMMA BitmapSize ==
  ASSUME NEW n \in Nat
  PROVE  /\ Size(n) \in Nat /\ n <= Size(n) * ByteBits
         /\ New(n) \in Seq(SUBSET Int) /\ Len(New(n)) = Size(n)
         /\ \A i \in Int : ~IsNull(New(n), i)
<1>1. PICK b \in Nat \ {0} : b = ByteBits
  BY WidthsAre
<1>2. PICK s : s = Size(n)
  OBVIOUS
<1>3. s \in Nat /\ n <= s * b
  <2>1. CASE n = 0
    BY <1>1, <1>2, <2>1 DEF Size
  <2>2. CASE n > 0
    <3>1. s = (n + b - 1) \div b
      BY <1>1, <1>2, <2>2 DEF Size
    <3>2. PICK c \in Nat : c = n + b - 1 /\ c >= b
      BY <2>2
    <3>3. c % b \in 0 .. b - 1 /\ c \div b \in Int /\ c = (c \div b) * b + (c % b)
      BY Division
    <3>4. PICK q \in Int, r \in 0 .. b - 1 : q = c \div b /\ r = c % b /\ c = q * b + r
      BY <3>3
    <3>5. q * b \in Int
      BY Products
    <3>6. n <= q * b
      BY <3>2, <3>4, <3>5
    <3>7. q \in Nat
      <4>1. CASE q < 0
        <5>1. q <= 0 /\ 0 * b = 0
          BY <4>1, Products
        <5>2. q * b <= 0 * b
          BY <5>1, Products
        <5> QED BY <2>2, <3>5, <3>6, <5>1, <5>2
      <4> QED BY <4>1
    <3> QED BY <3>1, <3>2, <3>4, <3>6, <3>7
  <2> QED BY <2>1, <2>2
<1>4. PICK m : m = New(n)
  OBVIOUS
<1>5. m = [i \in 1 .. s |-> {}]
  BY <1>2, <1>4 DEF New
<1>6. m \in Seq(SUBSET Int) /\ Len(m) = s /\ \A i \in 1 .. s : m[i] = {}
  BY <1>3, <1>5
<1>7. ASSUME NEW i \in Int PROVE ~IsNull(m, i)
  <2>1. CASE ~Has(m, i)
    BY <2>1 DEF IsNull
  <2>2. CASE Has(m, i)
    <3>1. ByteOf(i) \in 1 .. s
      BY <1>6, <2>2, ByteIs
    <3> QED BY <1>6, <3>1 DEF IsNull
  <2> QED BY <2>1, <2>2
<1> QED BY <1>1, <1>2, <1>3, <1>4, <1>6, <1>7

\* The bit of a field says whether the row has a null there; the row's other fields have
\* none yet.
BitsInv ==
  /\ bm \in Seq(SUBSET Int) /\ Len(bm) = Size(Len(Schema))
  /\ \A i \in 0 .. Len(Schema) - 1 : IsNull(bm, i) <=> i < Len(row) /\ row[i + 1] = {}

LEMMA WriteNullBits ==
  ASSUME Inv, BitsInv, WriteNull
  PROVE  BitsInv'
<1>1. row' = Append(row, {}) /\ bm' = SetNull(bm, Len(row)) /\ Len(row) < Len(Schema)
  BY DEF WriteNull, Writing
<1>2. PICK n \in Nat, l \in Nat : n = Len(Schema) /\ l = Len(row) /\ l < n
  BY <1>1, SchemaLen DEF Inv, RowInv
<1>3. /\ Len(row') = l + 1 /\ row'[l + 1] = {}
      /\ \A i \in 1 .. l : row'[i] = row[i]
  BY <1>1, <1>2 DEF Inv, RowInv
<1>4. /\ bm' \in Seq(SUBSET Int) /\ Len(bm') = Len(bm)
      /\ \A j \in Int : IsNull(bm', j) <=> IsNull(bm, j) \/ (Has(bm, l) /\ j = l)
  <2>1. bm \in Seq(SUBSET Int) /\ l \in Int
    BY DEF BitsInv
  <2> QED BY <1>1, <1>2, <2>1, SetNullIs
<1>5. Has(bm, l)
  <2>1. PICK s \in Nat, b \in Nat : s = Size(n) /\ b = ByteBits /\ n <= s * b /\ Len(bm) = s
    BY <1>2, BitmapSize, WidthsAre DEF BitsInv
  <2>2. s * b \in Nat
    BY Products
  <2>3. 0 <= l /\ l < s * b
    BY <1>2, <2>1, <2>2
  <2> QED BY <2>1, <2>3 DEF Has, Fields
<1>6. ASSUME NEW i \in 0 .. n - 1
      PROVE  IsNull(bm', i) <=> i < l + 1 /\ row'[i + 1] = {}
  <2>1. IsNull(bm', i) <=> IsNull(bm, i) \/ i = l
    BY <1>4, <1>5
  <2>2. IsNull(bm, i) <=> i < l /\ row[i + 1] = {}
    BY <1>2 DEF BitsInv
  <2>3. CASE i = l
    BY <1>3, <2>1, <2>3
  <2>4. CASE i < l
    <3>1. i + 1 \in 1 .. l /\ i < l + 1 /\ i # l
      BY <2>4
    <3> QED BY <1>3, <2>1, <2>2, <2>4, <3>1
  <2>5. CASE i > l
    BY <2>1, <2>2, <2>5
  <2> QED BY <1>2, <2>3, <2>4, <2>5
<1> QED BY <1>2, <1>3, <1>4, <1>6 DEF BitsInv

LEMMA WriteValueBits ==
  ASSUME Inv, BitsInv, WriteValue
  PROVE  BitsInv'
<1>1. PICK v : row' = Append(row, {v})
  BY DEF WriteValue
<1>2. bm' = bm /\ Len(row) < Len(Schema)
  BY DEF WriteValue, Writing
<1>3. PICK n \in Nat, l \in Nat : n = Len(Schema) /\ l = Len(row) /\ l < n
  BY <1>2, SchemaLen DEF Inv, RowInv
<1>4. /\ Len(row') = l + 1 /\ row'[l + 1] # {}
      /\ \A i \in 1 .. l : row'[i] = row[i]
  BY <1>1, <1>3 DEF Inv, RowInv
<1>5. ASSUME NEW i \in 0 .. n - 1
      PROVE  IsNull(bm, i) <=> i < l + 1 /\ row'[i + 1] = {}
  <2>1. IsNull(bm, i) <=> i < l /\ row[i + 1] = {}
    BY <1>3 DEF BitsInv
  <2>2. CASE i = l
    BY <1>4, <2>1, <2>2
  <2>3. CASE i < l
    <3>1. i + 1 \in 1 .. l /\ i < l + 1
      BY <2>3
    <3> QED BY <1>4, <2>1, <2>3, <3>1
  <2>4. CASE i > l
    BY <2>1, <2>4
  <2> QED BY <1>3, <2>2, <2>3, <2>4
<1> QED BY <1>2, <1>3, <1>4, <1>5 DEF BitsInv

LEMMA StrayBitBits ==
  ASSUME Inv, BitsInv, StrayBit
  PROVE  BitsInv'
<1>1. PICK i \in {-1} \cup Len(Schema) .. Fields(bm) : bm' \in {SetNull(bm, i), SetPresent(bm, i)}
  BY DEF StrayBit
<1>2. row' = row
  BY DEF StrayBit
<1>3. PICK n \in Nat : n = Len(Schema)
  BY SchemaLen
<1>4. i \in Int /\ i \notin 0 .. n - 1
  BY <1>1, <1>3
<1>5. /\ bm' \in Seq(SUBSET Int) /\ Len(bm') = Len(bm)
      /\ \A j \in Int : j # i => (IsNull(bm', j) <=> IsNull(bm, j))
  <2>1. bm \in Seq(SUBSET Int)
    BY DEF BitsInv
  <2>2. CASE bm' = SetNull(bm, i)
    BY <1>4, <2>1, <2>2, SetNullIs
  <2>3. CASE bm' = SetPresent(bm, i)
    BY <1>4, <2>1, <2>3, SetPresentIs
  <2> QED BY <1>1, <2>2, <2>3
<1>6. \A j \in 0 .. n - 1 : j \in Int /\ j # i
  BY <1>4
<1> QED BY <1>2, <1>3, <1>5, <1>6 DEF BitsInv

LEMMA InitBits ==
  ASSUME Init
  PROVE  BitsInv
<1>1. bm = New(Len(Schema)) /\ Len(row) = 0 /\ Len(Schema) \in Nat
  BY SchemaLen DEF Init
<1>2. \A i \in 0 .. Len(Schema) - 1 : i \in Int /\ ~(i < Len(row))
  BY <1>1
<1> QED BY <1>1, <1>2, BitmapSize DEF BitsInv

\* Only writes and strayed calls change the bitmap.
LEMMA NextBits ==
  ASSUME Inv, BitsInv, [Next]_vars
  PROVE  BitsInv'
<1>1. CASE UNCHANGED <<row, bm>>
  <2>1. \A i : IsNull(bm, i)' <=> IsNull(bm, i)
    BY <1>1 DEF IsNull, Has, Fields
  <2> QED BY <1>1, <2>1 DEF BitsInv
<1>2. CASE ~UNCHANGED <<row, bm>>
  <2>1. ~UNCHANGED vars
    BY <1>2 DEF vars
  <2>2. ~Cut /\ ~Damage /\ ~StartReading /\ ~ReadNull /\ ~ReadValue /\ ~Negate
        /\ \A t \in Terms : ~Compare(t) /\ ~AndAlso(t) /\ ~OrElse(t)
    BY <1>2 DEF Cut, Damage, StartReading, ReadNull, ReadValue, Negate, Compare, AndAlso, OrElse
  <2>3. WriteNull \/ WriteValue \/ StrayBit
    BY <2>1, <2>2, Zenon DEF Next
  <2> QED BY <2>3, WriteNullBits, WriteValueBits, StrayBitBits
<1> QED BY <1>1, <1>2

-----------------------------------------------------------------------------
(* The row and its nulls, counted. *)

ItemsInv == page.itemCount = Cardinality(Present)

\* The fields with a value are some of the fields.
LEMMA PresentIs ==
  ASSUME Inv
  PROVE  /\ Len(row) \in Nat /\ DOMAIN row = 1 .. Len(row) /\ Present \subseteq 1 .. Len(row)
         /\ IsFiniteSet(Present) /\ IsFiniteSet(1 .. Len(row)) /\ Cardinality(1 .. Len(row)) = Len(row)
<1>1. PICK l \in Nat : l = Len(row) /\ DOMAIN row = 1 .. l
  BY DEF Inv, RowInv
<1>2. Present \in SUBSET (1 .. l)
  BY <1>1 DEF Present
<1>3. IsFiniteSet(1 .. l) /\ Cardinality(1 .. l) = IF 1 > l THEN 0 ELSE l - 1 + 1
  <2>1. 1 \in Int /\ l \in Int
    OBVIOUS
  <2> QED BY <2>1, FS_Interval, Zenon
<1>4. (IF 1 > l THEN 0 ELSE l - 1 + 1) = l
  OBVIOUS
<1>5. IsFiniteSet(Present)
  BY <1>2, <1>3, FS_Subset
<1> QED BY <1>1, <1>2, <1>3, <1>4, <1>5

\* One field more.
LEMMA OneFieldMore ==
  ASSUME Inv, NEW x, row' = Append(row, x)
  PROVE  Present' = IF x = {} THEN Present ELSE Present \cup {Len(row) + 1}
<1>1. PICK l \in Nat : l = Len(row) /\ DOMAIN row = 1 .. l
  BY DEF Inv, RowInv
<1>2. /\ DOMAIN row' = 1 .. l + 1 /\ row'[l + 1] = x
      /\ \A i \in 1 .. l : row'[i] = row[i]
  <2>1. row \in Seq({x} \cup SUBSET UNION {Values[kind] : kind \in DOMAIN Values})
    BY DEF Inv, RowInv
  <2> QED BY <1>1, <2>1
<1>3. 1 .. l + 1 = (1 .. l) \cup {l + 1}
  OBVIOUS
<1>4. \A i : i \in Present' <=> i \in 1 .. l + 1 /\ row'[i] # {}
  BY <1>2 DEF Present
<1>5. \A i : i \in Present <=> i \in 1 .. l /\ row[i] # {}
  BY <1>1 DEF Present
<1> QED BY <1>1, <1>2, <1>3, <1>4, <1>5

\* Every value written is an item, and no null is.
LEMMA NextItems ==
  ASSUME Inv, PageInv, ItemsInv, [Next]_vars
  PROVE  ItemsInv'
<1>1. CASE UNCHANGED <<row, page>>
  BY <1>1 DEF ItemsInv, Present
<1>2. CASE WriteNull
  <2>1. row' = Append(row, {}) /\ UNCHANGED page
    BY <1>2 DEF WriteNull
  <2>2. Present' = Present
    BY <2>1, OneFieldMore
  <2> QED BY <2>1, <2>2 DEF ItemsInv
<1>3. CASE WriteValue
  <2>1. PICK v, e : row' = Append(row, {v}) /\ page' = PutItem(page, e)
    BY <1>3 DEF WriteValue
  <2>2. Present' = Present \cup {Len(row) + 1}
    BY <2>1, OneFieldMore
  <2>3. Len(row) + 1 \notin Present
    BY PresentIs
  <2>4. Cardinality(Present \cup {Len(row) + 1}) = Cardinality(Present) + 1
    BY <2>3, PresentIs, FS_AddElement
  <2>5. page'.itemCount = page.itemCount + 1
    BY <2>1 DEF PutItem
  <2> QED BY <2>2, <2>4, <2>5 DEF ItemsInv
<1>4. CASE Cut
  <2>1. PICK s : page' = [page EXCEPT !.body = s] /\ UNCHANGED row
    BY <1>4 DEF Cut
  <2>2. page'.itemCount = page.itemCount
    BY <2>1 DEF PageInv
  <2> QED BY <2>1, <2>2 DEF ItemsInv, Present
<1>5. CASE Damage
  <2>1. PICK s : page' = [page EXCEPT !.body = s] /\ UNCHANGED row
    BY <1>5 DEF Damage
  <2>2. page'.itemCount = page.itemCount
    BY <2>1 DEF PageInv
  <2> QED BY <2>1, <2>2 DEF ItemsInv, Present
<1>6. CASE ~UNCHANGED <<row, page>>
  <2>1. ~UNCHANGED vars
    BY <1>6 DEF vars
  <2>2. ~StrayBit /\ ~StartReading /\ ~ReadNull /\ ~ReadValue /\ ~Negate
        /\ \A t \in Terms : ~Compare(t) /\ ~AndAlso(t) /\ ~OrElse(t)
    BY <1>6 DEF StrayBit, StartReading, ReadNull, ReadValue, Negate, Compare, AndAlso, OrElse
  <2>3. WriteNull \/ WriteValue \/ Cut \/ Damage
    BY <2>1, <2>2, Zenon DEF Next
  <2> QED BY <1>2, <1>3, <1>4, <1>5, <2>3
<1> QED BY <1>1, <1>6

\* The nulls and the items of a row are its fields.
LEMMA NullsCounted ==
  ASSUME Inv, BitsInv, ItemsInv
  PROVE  /\ Count(bm, Len(row)) = Len(row) - page.itemCount
         /\ Any(bm, Len(row)) <=> Present # DOMAIN row
<1>1. PICK l \in Nat : l = Len(row) /\ DOMAIN row = 1 .. l /\ l <= Len(Schema)
  BY DEF Inv, RowInv
<1> DEFINE nulls  == {i \in 0 .. l - 1 : IsNull(bm, i)}
           absent == (1 .. l) \ Present
<1>2. \A i \in 0 .. l - 1 : IsNull(bm, i) <=> row[i + 1] = {}
  <2>1. \A i \in 0 .. l - 1 : i \in 0 .. Len(Schema) - 1 /\ i < l
    BY <1>1, SchemaLen
  <2> QED BY <1>1, <2>1 DEF BitsInv
<1>3. \A j : j \in absent <=> j \in 1 .. l /\ row[j] = {}
  BY <1>1 DEF Present
<1>4. \A i : i \in nulls <=> i \in 0 .. l - 1 /\ row[i + 1] = {}
  BY <1>2
<1>5. ExistsBijection(absent, nulls)
  <2> DEFINE back == [j \in absent |-> j - 1]
  <2>1. \A j \in absent : j - 1 \in nulls /\ j \in Nat
    <3> TAKE j \in absent
    <3>1. j \in 1 .. l /\ row[j] = {}
      BY <1>3
    <3>2. j - 1 \in 0 .. l - 1 /\ (j - 1) + 1 = j
      BY <3>1
    <3> QED BY <1>4, <3>1, <3>2
  <2>2. back \in [absent -> nulls]
    <3> HIDE DEF absent, nulls
    <3> QED BY <2>1
  <2>3. \A i, j \in absent : back[i] = back[j] => i = j
    <3> HIDE DEF absent, nulls
    <3> QED BY <2>1
  <2>4. \A i \in nulls : \E j \in absent : back[j] = i
    <3> TAKE i \in nulls
    <3>1. i \in 0 .. l - 1 /\ row[i + 1] = {}
      BY <1>4
    <3>2. i + 1 \in 1 .. l /\ (i + 1) - 1 = i
      BY <3>1
    <3>3. i + 1 \in absent
      BY <1>3, <3>1, <3>2
    <3>4. back[i + 1] = i
      <4> HIDE DEF absent, nulls
      <4> QED BY <3>2, <3>3
    <3> QED BY <3>3, <3>4
  <2>5. back \in Bijection(absent, nulls)
    <3> HIDE DEF back, absent, nulls
    <3> QED BY <2>2, <2>3, <2>4, Fun_IsBij
  <2> QED BY <2>5 DEF ExistsBijection
<1>6. IsFiniteSet(absent) /\ Cardinality(absent) = l - Cardinality(Present)
  <2>1. IsFiniteSet(1 .. l) /\ Cardinality(1 .. l) = l /\ (1 .. l) \cap Present = Present
    BY <1>1, PresentIs
  <2>2. PICK s : s = 1 .. l /\ IsFiniteSet(s)
    BY <2>1
  <2>3. IsFiniteSet(s \ Present) /\ Cardinality(s \ Present) = Cardinality(s) - Cardinality(s \cap Present)
    BY <2>2, FS_Difference
  <2> QED BY <2>1, <2>2, <2>3
<1>7. Cardinality(nulls) = Cardinality(absent)
  <2> HIDE DEF absent, nulls
  <2> QED BY <1>5, <1>6, FS_Bijection
<1>8. Count(bm, l) = Cardinality(nulls)
  BY DEF Count
<1>9. Any(bm, l) <=> absent # {}
  <2>1. ASSUME NEW i \in 0 .. l - 1, IsNull(bm, i) PROVE absent # {}
    <3>1. i + 1 \in 1 .. l /\ row[i + 1] = {}
      BY <1>2, <2>1
    <3> QED BY <1>3, <3>1
  <2>2. ASSUME NEW j \in absent PROVE \E i \in 0 .. l - 1 : IsNull(bm, i)
    <3>1. j \in 1 .. l /\ row[j] = {}
      BY <1>3
    <3>2. j - 1 \in 0 .. l - 1 /\ (j - 1) + 1 = j
      BY <3>1
    <3> QED BY <1>2, <3>1, <3>2
  <2> QED BY <2>1, <2>2 DEF Any
<1>10. absent # {} <=> Present # 1 .. l
  BY <1>1, PresentIs
<1> QED BY <1>1, <1>6, <1>7, <1>8, <1>9, <1>10 DEF ItemsInv

-----------------------------------------------------------------------------
(* The record. *)

\* The n bytes after the first a.
LEMMA Taken ==
  ASSUME NEW s \in Seq(Byte), NEW a \in Nat, NEW n \in Nat, a + n <= Len(s)
  PROVE  \E x \in Seq(Byte) : /\ x = SubSeq(s, a + 1, a + n) /\ Len(x) = n
                              /\ \A i \in 1 .. n : x[i] = s[a + i]
<1>1. PICK p \in Nat, q \in Nat : p = a + 1 /\ q = a + n
  OBVIOUS
<1>2. p \in 1 .. Len(s) + 1 /\ q \in p - 1 .. Len(s) /\ q - p + 1 = n
  BY <1>1
<1>3. SubSeq(s, p, q) \in Seq(Byte) /\ Len(SubSeq(s, p, q)) = q - p + 1
      /\ \A i \in 1 .. q - p + 1 : SubSeq(s, p, q)[i] = s[p + i - 1]
  BY <1>2, Slice
<1>4. \A i \in 1 .. n : i \in 1 .. q - p + 1 /\ p + i - 1 = a + i
  BY <1>1
<1>5. SubSeq(s, p, q) \in Seq(Byte) /\ Len(SubSeq(s, p, q)) = n
      /\ \A i \in 1 .. n : SubSeq(s, p, q)[i] = s[a + i]
  BY <1>2, <1>3, <1>4
<1> QED BY <1>1, <1>5

\* The n bytes of s after its first a are the n bytes of t after its first b.
LEMMA SamePart ==
  ASSUME NEW s \in Seq(Byte), NEW t \in Seq(Byte), NEW a \in Nat, NEW b \in Nat, NEW n \in Nat,
         a + n <= Len(s), b + n <= Len(t), \A i \in 1 .. n : s[a + i] = t[b + i]
  PROVE  SubSeq(s, a + 1, a + n) = SubSeq(t, b + 1, b + n)
<1>1. PICK x \in Seq(Byte) : x = SubSeq(s, a + 1, a + n) /\ Len(x) = n /\ \A i \in 1 .. n : x[i] = s[a + i]
  BY Taken
<1>2. PICK y \in Seq(Byte) : y = SubSeq(t, b + 1, b + n) /\ Len(y) = n /\ \A i \in 1 .. n : y[i] = t[b + i]
  BY Taken
<1>3. x = y
  BY <1>1, <1>2, SeqEqual, ZenonT(40)
<1> QED BY <1>1, <1>2, <1>3

\* What was there is still there when more follows.
LEMMA StillThere ==
  ASSUME NEW s \in Seq(Byte), NEW t \in Seq(Byte), NEW a \in Nat, NEW n \in Nat, a + n <= Len(s)
  PROVE  SubSeq(s \o t, a + 1, a + n) = SubSeq(s, a + 1, a + n)
<1>1. PICK x \in Seq(Byte) : /\ x = s \o t /\ Len(x) = Len(s) + Len(t)
                             /\ \A i \in 1 .. Len(s) + Len(t) : x[i] = IF i <= Len(s) THEN s[i] ELSE t[i - Len(s)]
  <2>1. s \o t \in Seq(Byte) /\ Len(s \o t) = Len(s) + Len(t)
        /\ \A i \in 1 .. Len(s) + Len(t) : (s \o t)[i] = IF i <= Len(s) THEN s[i] ELSE t[i - Len(s)]
    BY ConcatProperties
  <2> QED BY <2>1
<1>2. a + n <= Len(x)
  BY <1>1
<1>3. \A i \in 1 .. n : x[a + i] = s[a + i]
  <2> TAKE i \in 1 .. n
  <2>1. a + i \in 1 .. Len(s) + Len(t) /\ a + i <= Len(s)
    OBVIOUS
  <2> QED BY <1>1, <2>1
<1> QED BY <1>1, <1>2, <1>3, SamePart

\* Of the first m bytes of a record, those after the first a: the n bytes of a field and
\* what follows them, or no more than the field's first m - a.
LEMMA WhatIsLeft ==
  ASSUME NEW rec \in Seq(Byte), NEW m \in 0 .. Len(rec), NEW a \in 0 .. m, NEW n \in Nat,
         a + n <= Len(rec)
  PROVE  /\ SubSeq(rec, 1, m) \in Seq(Byte) /\ Len(SubSeq(rec, 1, m)) = m
         /\ SubSeq(rec, a + 1, a + n) \in Seq(Byte) /\ Len(SubSeq(rec, a + 1, a + n)) = n
         /\ a + n <= m =>
              \E t \in Seq(Byte) :
                SubSeq(SubSeq(rec, 1, m), a + 1, m) = SubSeq(rec, a + 1, a + n) \o t
         /\ a + n > m =>
              SubSeq(SubSeq(rec, 1, m), a + 1, m) = SubSeq(SubSeq(rec, a + 1, a + n), 1, m - a)
<1>1. 0 \in Nat /\ m \in Nat /\ a \in Nat /\ 0 + m <= Len(rec) /\ 0 + 1 = 1 /\ 0 + m = m
      /\ \A i \in 1 .. m : 0 + i = i
  OBVIOUS
<1>2. PICK body \in Seq(Byte) : /\ body = SubSeq(rec, 1, m) /\ Len(body) = m
                                /\ \A i \in 1 .. m : body[i] = rec[i]
  <2>1. PICK x \in Seq(Byte) : x = SubSeq(rec, 0 + 1, 0 + m) /\ Len(x) = m /\ \A i \in 1 .. m : x[i] = rec[0 + i]
    BY <1>1, Taken
  <2> QED BY <1>1, <2>1
<1>4. PICK e \in Seq(Byte) : /\ e = SubSeq(rec, a + 1, a + n) /\ Len(e) = n
                             /\ \A i \in 1 .. n : e[i] = rec[a + i]
  BY <1>1, Taken
<1>5. PICK k \in Nat : k = m - a /\ m = a + k
  OBVIOUS
<1>6. SubSeq(body, a + 1, a + k) = SubSeq(rec, a + 1, a + k)
  <2>1. a + k <= Len(body) /\ a + k <= Len(rec)
    BY <1>2, <1>5
  <2>2. \A i \in 1 .. k : body[a + i] = rec[a + i]
    <3> TAKE i \in 1 .. k
    <3>1. a + i \in 1 .. m
      BY <1>5
    <3> QED BY <1>2, <3>1
  <2> QED BY <2>1, <2>2, SamePart
<1>7. ASSUME a + n <= m PROVE \E t \in Seq(Byte) : SubSeq(body, a + 1, m) = e \o t
  <2>1. a + 1 \in 1 .. Len(rec) + 1 /\ a + n \in (a + 1) - 1 .. Len(rec) /\ m \in a + n .. Len(rec)
    BY <1>7
  <2>2. SubSeq(rec, a + 1, a + n) \o SubSeq(rec, a + n + 1, m) = SubSeq(rec, a + 1, m)
    BY <2>1, ConcatAdjacentSubSeq
  <2>3. a + n + 1 \in 1 .. Len(rec) + 1 /\ m \in (a + n + 1) - 1 .. Len(rec)
    BY <1>7
  <2>4. SubSeq(rec, a + n + 1, m) \in Seq(Byte)
    <3>1. PICK p \in Nat : p = a + n + 1
      OBVIOUS
    <3>2. p \in 1 .. Len(rec) + 1 /\ m \in p - 1 .. Len(rec)
      BY <2>3, <3>1
    <3>3. SubSeq(rec, p, m) \in Seq(Byte)
      BY <3>2, Slice
    <3> QED BY <3>1, <3>3
  <2> QED BY <1>4, <1>5, <1>6, <2>2, <2>4
<1>8. ASSUME a + n > m PROVE SubSeq(body, a + 1, m) = SubSeq(e, 1, m - a)
  <2>1. a + k <= Len(rec) /\ 0 + k <= Len(e) /\ 0 \in Nat /\ 0 + 1 = 1 /\ 0 + k = k
    BY <1>4, <1>5, <1>8
  <2>2. \A i \in 1 .. k : rec[a + i] = e[0 + i]
    <3> TAKE i \in 1 .. k
    <3>1. i \in 1 .. n /\ 0 + i = i
      BY <1>5, <1>8
    <3> QED BY <1>4, <3>1
  <2>3. SubSeq(rec, a + 1, a + k) = SubSeq(e, 0 + 1, 0 + k)
    BY <2>1, <2>2, SamePart
  <2> QED BY <1>5, <1>6, <2>1, <2>3
<1> QED BY <1>2, <1>4, <1>7, <1>8

\* What field x of some kind left in the bytes from a to c: nothing if it is null.
FieldAt(rec, a, c, kind, x) ==
  \/ x = {} /\ c = a
  \/ \E v \in Values[kind] :
       /\ x = {v} /\ c = a + Len(Encoded(kind, v))
       /\ SubSeq(rec, a + 1, c) = Encoded(kind, v)

\* Where the fields of r end in a record.
Laid(r, rec, at) ==
  /\ rec \in Seq(Byte) /\ at \in [0 .. Len(r) -> 0 .. Len(rec)]
  /\ at[0] = 0 /\ at[Len(r)] = Len(rec)
  /\ \A i \in 1 .. Len(r) : FieldAt(rec, at[i - 1], at[i], Schema[i], r[i])

\* A field is what it was when more follows.
LEMMA FieldStays ==
  ASSUME NEW rec \in Seq(Byte), NEW e \in Seq(Byte), NEW kind \in DOMAIN Values, NEW x,
         NEW a \in Nat, NEW c \in 0 .. Len(rec), FieldAt(rec, a, c, kind, x)
  PROVE  FieldAt(rec \o e, a, c, kind, x)
<1>1. CASE x = {} /\ c = a
  BY <1>1 DEF FieldAt
<1>2. ASSUME NEW v \in Values[kind], x = {v}, c = a + Len(Encoded(kind, v)),
             SubSeq(rec, a + 1, c) = Encoded(kind, v)
      PROVE  FieldAt(rec \o e, a, c, kind, x)
  <2>1. PICK n \in Nat : n = Len(Encoded(kind, v)) /\ c = a + n /\ a + n <= Len(rec)
    <3>1. Encoded(kind, v) \in Seq(Byte)
      BY ValueReads
    <3>2. Len(Encoded(kind, v)) \in Nat /\ a + Len(Encoded(kind, v)) <= Len(rec)
      BY <1>2, <3>1
    <3> QED BY <1>2, <3>2
  <2>2. SubSeq(rec \o e, a + 1, c) = SubSeq(rec, a + 1, c)
    BY <2>1, StillThere
  <2> QED BY <1>2, <2>2 DEF FieldAt
<1> QED BY <1>1, <1>2 DEF FieldAt

\* A field more.
LEMMA LaidOn ==
  ASSUME NEW S, NEW r \in Seq(S), NEW x \in S, NEW rec, NEW at, Laid(r, rec, at), Len(r) < Len(Schema),
         NEW e \in Seq(Byte),
         FieldAt(rec \o e, Len(rec), Len(rec) + Len(e), Schema[Len(r) + 1], x)
  PROVE  \E on : Laid(Append(r, x), rec \o e, on)
<1>1. PICK l \in Nat, k \in Nat, n \in Nat : l = Len(r) /\ k = Len(rec) /\ n = Len(e) /\ l < Len(Schema)
  BY DEF Laid
<1>2. PICK new \in Seq(S) : /\ new = Append(r, x) /\ Len(new) = l + 1 /\ new[l + 1] = x
                            /\ \A i \in 1 .. l : new[i] = r[i]
  <2>1. Append(r, x) \in Seq(S) /\ Len(Append(r, x)) = l + 1 /\ Append(r, x)[l + 1] = x
        /\ \A i \in 1 .. l : Append(r, x)[i] = r[i]
    BY <1>1, AppendProperties
  <2> QED BY <2>1
<1>3. rec \in Seq(Byte) /\ rec \o e \in Seq(Byte) /\ Len(rec \o e) = k + n
  <2>1. rec \in Seq(Byte)
    BY DEF Laid
  <2> QED BY <1>1, <2>1, ConcatProperties
<1>4. /\ at \in [0 .. l -> 0 .. k] /\ at[0] = 0 /\ at[l] = k
      /\ \A i \in 1 .. l : FieldAt(rec, at[i - 1], at[i], Schema[i], r[i])
  BY <1>1 DEF Laid
<1> DEFINE to == [i \in 0 .. l + 1 |-> IF i <= l THEN at[i] ELSE k + n]
<1>5. to \in [0 .. l + 1 -> 0 .. k + n]
  <2>1. \A i \in 0 .. l + 1 : i <= l => at[i] \in 0 .. k + n
    <3> TAKE i \in 0 .. l + 1
    <3>1. i <= l => i \in 0 .. l
      OBVIOUS
    <3> QED BY <1>4, <3>1
  <2> QED BY <2>1
<1>6. to[l + 1] = k + n /\ \A i \in 0 .. l : to[i] = at[i]
  OBVIOUS
<1> HIDE DEF to
<1>7. to[0] = 0
  BY <1>4, <1>6
<1>8. ASSUME NEW i \in 1 .. l + 1
      PROVE  FieldAt(rec \o e, to[i - 1], to[i], Schema[i], new[i])
  <2>1. CASE i <= l
    <3>1. i \in 1 .. l /\ i \in 0 .. l /\ i - 1 \in 0 .. l /\ i \in Fieldset
      BY <1>1, <2>1, SchemaLen
    <3>2. to[i - 1] = at[i - 1] /\ to[i] = at[i] /\ new[i] = r[i]
      BY <1>2, <1>6, <3>1
    <3>3. at[i - 1] \in 0 .. k /\ at[i] \in 0 .. k /\ k = Len(rec)
      BY <1>1, <1>4, <3>1
    <3>6. at[i - 1] \in Nat /\ at[i] \in 0 .. Len(rec)
      BY <3>3
    <3>4. FieldAt(rec, at[i - 1], at[i], Schema[i], r[i])
      BY <1>4, <3>1
    <3>5. FieldAt(rec \o e, at[i - 1], at[i], Schema[i], r[i])
      BY <1>3, <3>1, <3>4, <3>6, SchemaKinds, FieldStays
    <3> QED BY <3>2, <3>5
  <2>2. CASE ~(i <= l)
    <3>1. i = l + 1 /\ i - 1 = l /\ l \in 0 .. l
      BY <2>2
    <3>2. to[i - 1] = k /\ to[i] = k + n /\ new[i] = x
      BY <1>2, <1>4, <1>6, <3>1
    <3> QED BY <1>1, <3>1, <3>2
  <2> QED BY <2>1, <2>2
<1>9. Laid(new, rec \o e, to)
  BY <1>2, <1>3, <1>5, <1>6, <1>7, <1>8 DEF Laid
<1> QED BY <1>2, <1>9

-----------------------------------------------------------------------------
(* A record is read back. *)

\* What is on the page is the first bytes of a record that holds the row, and the reader is
\* where a field ends.
RecordAt(rec, at) ==
  /\ Laid(row, rec, at)
  /\ fault[1] \in 0 .. Len(rec) /\ page.body = SubSeq(rec, 1, Len(rec) - fault[1])
  /\ reader.field # 0 => reader.off = at[reader.field - 1]

ReadInv ==
  /\ reader.field <= Len(row) + 1
  /\ \A i \in Fieldset : i >= reader.field => reader.got[i] = {}
  /\ fault[2] = 0 =>
       /\ \E rec, at : RecordAt(rec, at)
       /\ \A i \in 1 .. reader.field - 1 : reader.got[i] = row[i]
       /\ fault[1] = 0 => reader.err = "none"

AllInv == Inv /\ PageInv /\ BitsInv /\ ReadInv

\* A step that leaves row, page and reader alone.
LEMMA ReadStays ==
  ASSUME ReadInv, UNCHANGED <<row, page, fault, reader>>
  PROVE  ReadInv'
<1>1. \A rec, at : RecordAt(rec, at)' <=> RecordAt(rec, at)
  BY DEF RecordAt
<1> QED BY <1>1 DEF ReadInv

\* What was written last.
LEMMA LastBytes ==
  ASSUME NEW g \in Seq(Byte), NEW e \in Seq(Byte)
  PROVE  SubSeq(g \o e, Len(g) + 1, Len(g) + Len(e)) = e
<1>1. <<>> \in Seq(Byte)
  OBVIOUS
<1>2. SubSeq((g \o e) \o <<>>, Len(g) + 1, Len(g) + Len(e)) = e
  BY <1>1, Halves
<1>3. g \o e \in Seq(Byte)
  BY ConcatProperties
<1>4. (g \o e) \o <<>> = g \o e
  BY <1>3, ConcatEmptySeq
<1> QED BY <1>2, <1>4

\* One field more is written.
LEMMA WrittenOn ==
  ASSUME AllInv, Writing, NEW x \in SUBSET UNION {Values[kind] : kind \in DOMAIN Values},
         NEW e \in Seq(Byte), row' = Append(row, x), page'.body = page.body \o e,
         UNCHANGED <<fault, reader>>,
         \/ x = {} /\ e = <<>>
         \/ \E v \in Values[Schema[Len(row) + 1]] : x = {v} /\ e = Encoded(Schema[Len(row) + 1], v)
  PROVE  ReadInv'
<1>1. fault[1] = 0 /\ fault[2] = 0 /\ reader.field = 0 /\ Len(row) < Len(Schema)
  BY DEF Writing
<1>2. PICK rec, at : RecordAt(rec, at)
  BY <1>1 DEF AllInv, ReadInv
<1>3. PICK kind : kind = Schema[Len(row) + 1] /\ kind \in DOMAIN Values
  <2>1. Len(row) + 1 \in Fieldset
    BY <1>1, SchemaLen DEF AllInv, Inv, RowInv
  <2> QED BY <2>1, SchemaKinds
<1>4. Laid(row, rec, at) /\ rec \in Seq(Byte)
  BY <1>2 DEF RecordAt, Laid
<1>5. page.body = rec
  <2>1. Len(rec) - 0 = Len(rec)
    BY <1>4
  <2>2. page.body = SubSeq(rec, 1, Len(rec))
    BY <1>1, <1>2, <2>1 DEF RecordAt
  <2> QED BY <1>4, <2>2, SubSeqFull
<1>6. FieldAt(rec \o e, Len(rec), Len(rec) + Len(e), kind, x)
  <2>1. CASE x = {} /\ e = <<>>
    <3>1. Len(rec) + Len(e) = Len(rec)
      BY <1>4, <2>1
    <3> QED BY <2>1, <3>1 DEF FieldAt
  <2>2. ASSUME NEW v \in Values[kind], x = {v}, e = Encoded(kind, v)
        PROVE  FieldAt(rec \o e, Len(rec), Len(rec) + Len(e), kind, x)
    <3>1. SubSeq(rec \o e, Len(rec) + 1, Len(rec) + Len(e)) = e
      BY <1>4, LastBytes
    <3> QED BY <2>2, <3>1 DEF FieldAt
  <2> QED BY <1>3, <2>1, <2>2
<1>7. row \in Seq(SUBSET UNION {Values[k] : k \in DOMAIN Values})
  BY DEF AllInv, Inv, RowInv
<1>8. PICK on : Laid(Append(row, x), rec \o e, on)
  BY <1>1, <1>3, <1>4, <1>6, <1>7, LaidOn
<1>9. PICK new \in Seq(Byte) : new = rec \o e /\ page'.body = new /\ Laid(row', new, on)
  <2>1. rec \o e \in Seq(Byte)
    BY <1>4, ConcatProperties
  <2> QED BY <1>5, <1>8, <2>1
<1>10. RecordAt(new, on)'
  <2>1. fault'[1] = 0 /\ reader'.field = 0
    BY <1>1
  <2>2. Len(new) - 0 = Len(new) /\ 0 \in 0 .. Len(new)
    BY <1>9
  <2>3. SubSeq(new, 1, Len(new)) = new
    BY <1>9, SubSeqFull
  <2> QED BY <1>9, <2>1, <2>2, <2>3 DEF RecordAt
<1>11. reader'.field <= Len(row') + 1
  <2>1. row' \in Seq(SUBSET UNION {Values[k] : k \in DOMAIN Values})
    BY <1>7
  <2> QED BY <1>1, <2>1
<1>12. \A i \in 1 .. reader'.field - 1 : FALSE
  BY <1>1
<1>13. /\ \A i \in Fieldset : i >= reader.field => reader.got[i] = {}
       /\ reader.err = "none"
  BY <1>1 DEF AllInv, ReadInv
<1> QED BY <1>10, <1>11, <1>12, <1>13 DEF ReadInv

LEMMA WriteNullRead ==
  ASSUME AllInv, WriteNull
  PROVE  ReadInv'
<1>1. Writing /\ row' = Append(row, {}) /\ UNCHANGED <<page, fault, reader>>
  BY DEF WriteNull
<1>2. <<>> \in Seq(Byte) /\ page.body \o <<>> = page.body
  <2>1. page.body \in Seq(Byte)
    BY DEF AllInv, PageInv
  <2> QED BY <2>1, ConcatEmptySeq
<1>3. page'.body = page.body \o <<>>
  BY <1>1, <1>2
<1>4. {} \in SUBSET UNION {Values[kind] : kind \in DOMAIN Values}
  OBVIOUS
<1> QED BY <1>1, <1>2, <1>3, <1>4, WrittenOn

LEMMA WriteValueRead ==
  ASSUME AllInv, WriteValue
  PROVE  ReadInv'
<1>1. Writing /\ UNCHANGED <<fault, reader>> /\ Len(row) < Len(Schema)
  BY DEF WriteValue, Writing
<1>2. PICK kind : kind = Schema[Len(row) + 1] /\ kind \in DOMAIN Values
  <2>1. Len(row) + 1 \in Fieldset
    BY <1>1, SchemaLen DEF AllInv, Inv, RowInv
  <2> QED BY <2>1, SchemaKinds
<1>3. PICK v \in Values[kind] : page' = PutItem(page, Encoded(kind, v)) /\ row' = Append(row, {v})
  BY <1>2 DEF WriteValue
<1>4. PICK e \in Seq(Byte) : e = Encoded(kind, v)
  BY <1>2, <1>3, ValueReads
<1>5. page'.body = page.body \o e
  BY <1>3, <1>4 DEF PutItem
<1>6. {v} \in SUBSET UNION {Values[k] : k \in DOMAIN Values}
  BY <1>2, <1>3
<1>7. \E w \in Values[Schema[Len(row) + 1]] : {v} = {w} /\ e = Encoded(Schema[Len(row) + 1], w)
  BY <1>2, <1>3, <1>4
<1> QED BY <1>1, <1>3, <1>5, <1>6, <1>7, WrittenOn

LEMMA CutRead ==
  ASSUME AllInv, Cut
  PROVE  ReadInv'
<1>1. PICK n \in 0 .. Len(page.body) - 1 :
        /\ page' = [page EXCEPT !.body = SubSeq(@, 1, n)]
        /\ fault' = <<Len(page.body) - n, 0>>
  BY DEF Cut
<1>2. reader.field = 0 /\ fault[1] = 0 /\ fault[2] = 0 /\ UNCHANGED <<row, reader>>
  BY DEF Cut
<1>3. PICK rec, at : RecordAt(rec, at)
  BY <1>2 DEF AllInv, ReadInv
<1>4. rec \in Seq(Byte) /\ Laid(row, rec, at)
  BY <1>3 DEF RecordAt, Laid
<1>5. page.body = rec
  <2>1. Len(rec) - 0 = Len(rec)
    BY <1>4
  <2>2. page.body = SubSeq(rec, 1, Len(rec))
    BY <1>2, <1>3, <2>1 DEF RecordAt
  <2> QED BY <1>4, <2>2, SubSeqFull
<1>6. PICK l \in Nat, c \in Nat : l = Len(rec) /\ c = l - n /\ c <= l /\ l - c = n
  BY <1>1, <1>4, <1>5
<1>7. fault'[1] = c /\ fault'[2] = 0 /\ c # 0
  BY <1>1, <1>5, <1>6
<1>8. page'.body = SubSeq(rec, 1, n)
  BY <1>1, <1>5 DEF AllInv, PageInv
<1>9. RecordAt(rec, at)'
  <2>1. c \in 0 .. Len(rec) /\ Len(rec) - c = n
    BY <1>6
  <2> QED BY <1>2, <1>4, <1>7, <1>8, <2>1 DEF RecordAt
<1>10. \A i \in 1 .. reader'.field - 1 : FALSE
  BY <1>2
<1> QED BY <1>2, <1>7, <1>9, <1>10 DEF AllInv, ReadInv

LEMMA DamageRead ==
  ASSUME AllInv, Damage
  PROVE  ReadInv'
<1>1. fault'[2] # 0
  BY DamagePage DEF AllInv
<1>2. UNCHANGED <<row, reader>>
  BY DEF Damage
<1> QED BY <1>1, <1>2 DEF AllInv, ReadInv

LEMMA StartReadingRead ==
  ASSUME AllInv, StartReading
  PROVE  ReadInv'
<1>1. reader.field = 0 /\ row # <<>> /\ reader' = [reader EXCEPT !.field = 1]
      /\ UNCHANGED <<row, page, fault>>
  BY DEF StartReading
<1>2. reader'.field = 1 /\ reader'.off = 0 /\ reader'.got = reader.got /\ reader'.err = reader.err
  <2>1. reader'.field = 1 /\ reader'.off = reader.off /\ reader'.got = reader.got
        /\ reader'.err = reader.err
    BY <1>1 DEF AllInv, Inv, ReaderInv
  <2>2. reader.off = 0
    BY <1>1 DEF AllInv, PageInv
  <2> QED BY <2>1, <2>2
<1>3. ASSUME NEW rec, NEW at, RecordAt(rec, at)
      PROVE  RecordAt(rec, at)'
  <2>1. at[reader'.field - 1] = 0
    BY <1>2, <1>3 DEF RecordAt, Laid
  <2> QED BY <1>1, <1>2, <1>3, <2>1 DEF RecordAt
<1>4. reader'.field <= Len(row') + 1
  BY <1>1, <1>2 DEF AllInv, Inv, RowInv
<1>5. \A i \in Fieldset : i >= 0
  BY SchemaLen
<1>6. \A i \in 1 .. reader'.field - 1 : FALSE
  BY <1>2
<1> QED BY <1>1, <1>2, <1>3, <1>4, <1>5, <1>6 DEF AllInv, ReadInv

\* The field that is read next, in a record that was not changed.
LEMMA NextField ==
  ASSUME AllInv, Reading, NEW rec, NEW at, RecordAt(rec, at)
  PROVE  /\ reader.field \in Nat /\ reader.field + 1 - 1 = reader.field
         /\ reader.off = at[reader.field - 1] /\ at[reader.field] \in 0 .. Len(rec)
         /\ FieldAt(rec, reader.off, at[reader.field], Schema[reader.field], row[reader.field])
         /\ IsNull(bm, reader.field - 1) <=> row[reader.field] = {}
<1>1. PICK f \in Nat, l \in Nat : f = reader.field /\ l = Len(row) /\ f \in 1 .. l /\ l <= Len(Schema)
  BY DEF Reading, AllInv, Inv, RowInv
<1>2. f # 0 /\ f + 1 - 1 = f /\ f \in 0 .. l /\ f - 1 \in 0 .. l
  BY <1>1
<1>3. reader.off = at[f - 1] /\ at[f] \in 0 .. Len(rec)
      /\ FieldAt(rec, at[f - 1], at[f], Schema[f], row[f])
  BY <1>1, <1>2 DEF RecordAt, Laid
<1>4. IsNull(bm, f - 1) <=> row[f] = {}
  <2>1. f - 1 \in 0 .. Len(Schema) - 1 /\ f - 1 < l /\ (f - 1) + 1 = f
    BY <1>1, SchemaLen
  <2> QED BY <1>1, <2>1 DEF AllInv, BitsInv
<1> QED BY <1>1, <1>2, <1>3, <1>4

\* A field was decoded, or skipped: the reader is behind it and has what is in the row.
LEMMA FieldRead ==
  ASSUME AllInv, Reading, UNCHANGED <<row, page, fault>>,
         reader'.field = reader.field + 1, reader'.err = reader.err,
         DOMAIN reader'.got = Fieldset,
         \A i \in Fieldset : i # reader.field => reader'.got[i] = reader.got[i],
         NEW rec, NEW at,
         fault[2] = 0 => /\ RecordAt(rec, at) /\ reader'.off = at[reader.field]
                         /\ reader'.got[reader.field] = row[reader.field]
  PROVE  ReadInv'
<1>1. PICK f \in Nat, l \in Nat : f = reader.field /\ l = Len(row) /\ f \in 1 .. l /\ l <= Len(Schema)
  BY DEF Reading, AllInv, Inv, RowInv
<1>2. reader'.field <= Len(row') + 1
  BY <1>1
<1>3. \A i \in Fieldset : i >= reader'.field => reader'.got[i] = {}
  <2> TAKE i \in Fieldset
  <2>1. i >= f + 1 => i # f /\ i >= f
    BY <1>1, SchemaLen
  <2> QED BY <1>1, <2>1 DEF AllInv, ReadInv
<1>4. ASSUME fault[2] = 0
      PROVE  /\ RecordAt(rec, at)'
             /\ \A i \in 1 .. reader'.field - 1 : reader'.got[i] = row'[i]
  <2>1. f + 1 - 1 = f
    OBVIOUS
  <2>2. RecordAt(rec, at)'
    BY <1>1, <1>4, <2>1 DEF RecordAt
  <2>3. \A i \in 1 .. f : reader'.got[i] = row[i]
    <3> TAKE i \in 1 .. f
    <3>1. i \in Fieldset /\ (i # f => i \in 1 .. f - 1)
      BY <1>1, SchemaLen
    <3> QED BY <1>1, <1>4, <3>1 DEF AllInv, ReadInv
  <2> QED BY <1>1, <2>1, <2>2, <2>3
<1>5. fault[2] = 0 /\ fault[1] = 0 => reader'.err = "none"
  BY DEF AllInv, ReadInv
<1> QED BY <1>2, <1>3, <1>4, <1>5 DEF ReadInv

LEMMA ReadNullRead ==
  ASSUME AllInv, ReadNull
  PROVE  ReadInv'
<1>1. Reading /\ IsNull(bm, reader.field - 1) /\ UNCHANGED <<row, page, fault>>
      /\ reader' = [reader EXCEPT !.field = @ + 1]
  BY DEF ReadNull, SkipNull
<1>2. reader'.field = reader.field + 1 /\ reader'.off = reader.off /\ reader'.got = reader.got
      /\ reader'.err = reader.err /\ DOMAIN reader.got = Fieldset
  BY <1>1 DEF AllInv, Inv, ReaderInv
<1>3. PICK rec, at : fault[2] = 0 => RecordAt(rec, at)
  BY DEF AllInv, ReadInv
<1>4. reader.got[reader.field] = {}
  <2>1. PICK f : f = reader.field /\ f \in Fieldset /\ f >= f
    BY <1>1, ReadingIs, SchemaLen DEF AllInv
  <2> QED BY <2>1 DEF AllInv, ReadInv
<1>5. ASSUME fault[2] = 0
      PROVE  /\ RecordAt(rec, at) /\ reader'.off = at[reader.field]
             /\ reader'.got[reader.field] = row[reader.field]
  <2>1. /\ FieldAt(rec, reader.off, at[reader.field], Schema[reader.field], row[reader.field])
        /\ IsNull(bm, reader.field - 1) <=> row[reader.field] = {}
    BY <1>1, <1>3, <1>5, NextField
  <2>2. row[reader.field] = {}
    BY <1>1, <2>1
  <2>3. at[reader.field] = reader.off
    BY <2>1, <2>2 DEF FieldAt
  <2> QED BY <1>2, <1>3, <1>4, <1>5, <2>2, <2>3
<1> QED BY <1>1, <1>2, <1>5, FieldRead

\* What the next field decodes into: its value, or an error if the record was cut.
LEMMA FieldDecodes ==
  ASSUME AllInv, Reading, ~IsNull(bm, reader.field - 1), fault[2] = 0, NEW rec, NEW at, RecordAt(rec, at)
  PROVE  LET d == Decode(Schema[reader.field], Rest) IN
         /\ d.err = "none" => reader.off + d.n = at[reader.field] /\ {d.value} = row[reader.field]
         /\ d.err # "none" => fault[1] # 0
<1>1. PICK kind, a, c, x :
        /\ kind = Schema[reader.field] /\ kind \in DOMAIN Values /\ a = reader.off /\ c = at[reader.field] /\ x = row[reader.field]
        /\ c \in 0 .. Len(rec) /\ FieldAt(rec, a, c, kind, x) /\ x # {}
  <2>1. Schema[reader.field] \in DOMAIN Values
    BY ReadingIs, SchemaKinds DEF AllInv
  <2>2. /\ at[reader.field] \in 0 .. Len(rec)
        /\ FieldAt(rec, reader.off, at[reader.field], Schema[reader.field], row[reader.field])
        /\ row[reader.field] # {}
    BY NextField
  <2> QED BY <2>1, <2>2
<1>2. PICK v \in Values[kind] : /\ x = {v} /\ c = a + Len(Encoded(kind, v))
                                /\ SubSeq(rec, a + 1, c) = Encoded(kind, v)
  BY <1>1 DEF FieldAt
<1>3. PICK e \in Seq(Byte), n \in Nat : e = Encoded(kind, v) /\ n = Len(e)
  BY <1>1, <1>2, ValueReads
<1>4. /\ \A t \in Seq(Byte) : Decode(kind, e \o t) = Decoded(v, n)
      /\ \A k \in 0 .. n - 1 : Decode(kind, SubSeq(e, 1, k)).err = "truncated"
  BY <1>1, <1>2, <1>3, ValueReads
<1>5. PICK m \in 0 .. Len(rec) : /\ m = Len(rec) - fault[1] /\ page.body = SubSeq(rec, 1, m)
                                 /\ (m = Len(rec) <=> fault[1] = 0)
  <2>1. PICK l \in Nat, q \in Nat : l = Len(rec) /\ q = fault[1] /\ q \in 0 .. l
    BY DEF RecordAt, Laid
  <2>2. l - q \in 0 .. l /\ (l - q = l <=> q = 0)
    BY <2>1
  <2> QED BY <2>1, <2>2 DEF RecordAt
<1>6. rec \in Seq(Byte)
  BY DEF RecordAt, Laid
<1>7. Len(page.body) = m
  <2>1. 0 \in 0 .. m /\ 0 \in Nat /\ 0 + 0 <= Len(rec)
    BY <1>5
  <2>2. Len(SubSeq(rec, 1, m)) = m
    BY <1>6, <2>1, WhatIsLeft
  <2> QED BY <1>5, <2>2
<1>8. a \in 0 .. m
  BY <1>1, <1>7 DEF AllInv, PageInv
<1>9. c = a + n /\ a + n <= Len(rec) /\ SubSeq(rec, a + 1, a + n) = e
  BY <1>1, <1>2, <1>3
<1>10. Rest = SubSeq(SubSeq(rec, 1, m), a + 1, m)
  BY <1>1, <1>5, <1>7 DEF Rest
<1>11. CASE a + n <= m
  <2>1. PICK t \in Seq(Byte) : SubSeq(SubSeq(rec, 1, m), a + 1, m) = SubSeq(rec, a + 1, a + n) \o t
    BY <1>6, <1>8, <1>9, <1>11, WhatIsLeft, Zenon
  <2>2. Decode(kind, Rest) = Decoded(v, n)
    BY <1>4, <1>9, <1>10, <2>1
  <2>3. /\ Decode(kind, Rest).err = "none" /\ Decode(kind, Rest).n = n
        /\ Decode(kind, Rest).value = v
    BY <2>2, ResultsAre
  <2> QED BY <1>1, <1>2, <1>9, <2>3
<1>12. CASE a + n > m
  <2>1. SubSeq(SubSeq(rec, 1, m), a + 1, m) = SubSeq(SubSeq(rec, a + 1, a + n), 1, m - a)
    BY <1>6, <1>8, <1>9, <1>12, WhatIsLeft
  <2>2. m - a \in 0 .. n - 1
    BY <1>8, <1>12
  <2>3. Decode(kind, Rest).err = "truncated"
    BY <1>4, <1>9, <1>10, <2>1, <2>2
  <2>4. m # Len(rec)
    BY <1>6, <1>9, <1>12
  <2> QED BY <1>1, <1>5, <2>3, <2>4
<1>13. a + n <= m \/ a + n > m
  BY <1>8
<1> QED BY <1>11, <1>12, <1>13

LEMMA ReadValueRead ==
  ASSUME AllInv, ReadValue
  PROVE  ReadInv'
<1>1. PICK d : d = Decode(Schema[reader.field], Rest)
  OBVIOUS
<1>2. Reading /\ ~IsNull(bm, reader.field - 1) /\ UNCHANGED <<row, page, fault>>
      /\ reader' = IF d.err # "none" THEN [reader EXCEPT !.err = d.err]
                   ELSE [reader EXCEPT !.field = @ + 1, !.off = @ + d.n,
                                       !.got = [@ EXCEPT ![reader.field] = {d.value}]]
  BY <1>1 DEF ReadValue
<1>3. PICK rec, at : fault[2] = 0 => RecordAt(rec, at)
  BY DEF AllInv, ReadInv
<1>4. ASSUME fault[2] = 0
      PROVE  /\ d.err = "none" => reader.off + d.n = at[reader.field] /\ {d.value} = row[reader.field]
             /\ d.err # "none" => fault[1] # 0
  BY <1>1, <1>2, <1>3, <1>4, FieldDecodes
<1>5. CASE d.err # "none"
  <2>1. reader'.field = reader.field /\ reader'.off = reader.off /\ reader'.got = reader.got
    BY <1>2, <1>5 DEF AllInv, Inv, ReaderInv
  <2>2. \A r, t : RecordAt(r, t) => RecordAt(r, t)'
    BY <1>2, <2>1 DEF RecordAt
  <2>3. fault[2] = 0 => fault[1] # 0
    BY <1>4, <1>5
  <2> QED BY <1>2, <2>1, <2>2, <2>3 DEF AllInv, ReadInv
<1>6. CASE d.err = "none"
  <2>1. reader'.field = reader.field + 1 /\ reader'.off = reader.off + d.n
        /\ reader'.err = reader.err /\ reader'.got = [reader.got EXCEPT ![reader.field] = {d.value}]
    BY <1>2, <1>6 DEF AllInv, Inv, ReaderInv
  <2>2. reader.field \in Fieldset /\ DOMAIN reader.got = Fieldset
    BY <1>2, ReadingIs DEF AllInv, Inv, ReaderInv
  <2>3. DOMAIN reader'.got = Fieldset /\ reader'.got[reader.field] = {d.value}
        /\ \A i \in Fieldset : i # reader.field => reader'.got[i] = reader.got[i]
    BY <2>1, <2>2
  <2>4. fault[2] = 0 => /\ RecordAt(rec, at) /\ reader'.off = at[reader.field]
                        /\ reader'.got[reader.field] = row[reader.field]
    BY <1>3, <1>4, <1>6, <2>1, <2>3
  <2> QED BY <1>2, <2>1, <2>3, <2>4, FieldRead
<1> QED BY <1>5, <1>6

LEMMA InitRead ==
  ASSUME Init
  PROVE  ReadInv
<1>1. /\ row = <<>> /\ page.body = <<>> /\ fault[1] = 0 /\ reader.field = 0 /\ reader.err = "none"
      /\ reader.got = [i \in Fieldset |-> {}]
  BY DEF Init
<1>2. Len(row) = 0 /\ Len(<<>>) = 0 /\ <<>> \in Seq(Byte)
  BY <1>1
<1> DEFINE at == [i \in 0 .. 0 |-> 0]
<1>3. Laid(row, <<>>, at)
  BY <1>1, <1>2 DEF Laid
<1>4. SubSeq(<<>>, 1, Len(<<>>) - 0) = <<>>
  BY <1>2, SubSeqEmpty
<1>5. RecordAt(<<>>, at)
  BY <1>1, <1>2, <1>3, <1>4 DEF RecordAt
<1>6. \A i \in 1 .. reader.field - 1 : FALSE
  BY <1>1
<1> HIDE DEF at
<1> QED BY <1>1, <1>2, <1>5, <1>6 DEF ReadInv

LEMMA NextRead ==
  ASSUME AllInv, [Next]_vars
  PROVE  ReadInv'
<1>1. CASE UNCHANGED <<row, page, fault, reader>>
  BY <1>1, ReadStays DEF AllInv
<1>2. CASE ~UNCHANGED <<row, page, fault, reader>>
  <2>1. ~UNCHANGED vars
    BY <1>2 DEF vars
  <2>2. ~StrayBit /\ ~Negate /\ \A t \in Terms : ~Compare(t) /\ ~AndAlso(t) /\ ~OrElse(t)
    BY <1>2 DEF StrayBit, Negate, Compare, AndAlso, OrElse
  <2>3. WriteNull \/ WriteValue \/ Cut \/ Damage \/ StartReading \/ ReadNull \/ ReadValue
    BY <2>1, <2>2, Zenon DEF Next
  <2> QED BY <2>3, WriteNullRead, WriteValueRead, CutRead, DamageRead, StartReadingRead,
             ReadNullRead, ReadValueRead
<1> QED BY <1>1, <1>2

\* The invariant says what RowsReadBack says.
LEMMA AllReadsBack ==
  ASSUME AllInv, ItemsInv
  PROVE  RowsReadBack
<1> SUFFICES ASSUME fault[2] = 0
             PROVE  /\ \A i \in 1 .. reader.field - 1 : reader.got[i] = row[i]
                    /\ reader.field = Len(row) + 1 => fault[1] = 0 /\ reader.off = Len(page.body)
                    /\ fault[1] = 0 => reader.err = "none"
                    /\ page.itemCount = Cardinality(Present)
                    /\ Count(bm, Len(row)) = Len(row) - page.itemCount
                    /\ Any(bm, Len(row)) <=> Present # DOMAIN row
  BY DEF RowsReadBack
<1>1. PICK rec, at : RecordAt(rec, at)
  BY DEF AllInv, ReadInv
<1>2. ASSUME reader.field = Len(row) + 1
      PROVE  fault[1] = 0 /\ reader.off = Len(page.body)
  <2>1. PICK l \in Nat : l = Len(row) /\ reader.field = l + 1 /\ l + 1 # 0 /\ l + 1 - 1 = l
    BY <1>2 DEF AllInv, Inv, RowInv
  <2>2. rec \in Seq(Byte) /\ at[l] = Len(rec) /\ reader.off = at[l]
    BY <1>1, <2>1 DEF RecordAt, Laid
  <2>3. PICK k \in Nat, q \in Nat : k = Len(rec) /\ q = fault[1] /\ q \in 0 .. k
    BY <1>1, <2>2 DEF RecordAt
  <2>4. k - q \in 0 .. Len(rec) /\ 0 \in 0 .. k - q /\ 0 \in Nat /\ 0 + 0 <= Len(rec)
    BY <2>3
  <2>5. Len(SubSeq(rec, 1, k - q)) = k - q
    BY <2>2, <2>4, WhatIsLeft
  <2>6. Len(page.body) = k - q
    BY <1>1, <2>3, <2>5 DEF RecordAt
  <2>7. k <= k - q
    BY <2>2, <2>3, <2>6 DEF AllInv, PageInv
  <2> QED BY <2>2, <2>3, <2>6, <2>7
<1>3. /\ Count(bm, Len(row)) = Len(row) - page.itemCount
      /\ Any(bm, Len(row)) <=> Present # DOMAIN row
  BY NullsCounted DEF AllInv
<1> QED BY <1>2, <1>3 DEF AllInv, ReadInv, ItemsInv

\* A record decodes into the row it was made from, field by field and to its last byte, and
\* one that was cut short is an error before anything wrong is decoded: for every schema,
\* whatever the values and however wide words and bytes are.
THEOREM RowsAlwaysReadBack == Spec => []RowsReadBack
<1>1. Init => AllInv /\ ItemsInv
  <2> SUFFICES ASSUME Init PROVE AllInv /\ ItemsInv
    OBVIOUS
  <2>1. AllInv
    BY InitInv, InitPage, InitBits, InitRead DEF AllInv
  <2>2. Present = {} /\ page.itemCount = 0
    BY DEF Init, Present
  <2> QED BY <2>1, <2>2, FS_EmptySet DEF ItemsInv
<1>2. AllInv /\ ItemsInv /\ [Next]_vars => AllInv' /\ ItemsInv'
  <2> SUFFICES ASSUME AllInv, ItemsInv, [Next]_vars PROVE AllInv' /\ ItemsInv'
    OBVIOUS
  <2>1. Inv' /\ PageInv' /\ BitsInv'
    BY NextInv, NextPage, NextBits DEF AllInv
  <2>2. ReadInv'
    BY NextRead
  <2>3. ItemsInv'
    BY NextItems DEF AllInv
  <2> QED BY <2>1, <2>2, <2>3 DEF AllInv
<1>3. AllInv /\ ItemsInv => RowsReadBack
  BY AllReadsBack
<1> QED BY <1>1, <1>2, <1>3, PTL DEF Spec

===============================================================================
