--------------------------- MODULE NodePageProofs ---------------------------
(***************************************************************************)
(* Proofs about the node page: what is appended reads back, a node takes   *)
(* as many keys as MaxKeys says, and lookups on a page that Validate       *)
(* accepts find what is there, for every size of page, key and payload.    *)
(***************************************************************************)
EXTENDS NodePage, SequenceTheorems, FunctionTheorems, FiniteSetTheorems,
        WellFoundedInduction, TLAPS

-----------------------------------------------------------------------------
(* Numbers. *)

LEMMA Product ==
  ASSUME NEW a \in Nat, NEW e \in Nat
  PROVE  a * e \in Nat /\ (a + 1) * e = a * e + e
OBVIOUS

LEMMA ProductGrows ==
  ASSUME NEW a \in Nat, NEW b \in Nat, NEW e \in Nat, a <= b
  PROVE  a * e <= b * e
OBVIOUS

\* A division that cuts off tells how many whole parts there are.
LEMMA WholeParts ==
  ASSUME NEW n \in Nat, NEW e \in Nat \ {0}, NEW all \in Nat
  PROVE  (n + 1) * e <= all <=> n < all \div e
<1>1. PICK q \in Nat : q = all \div e /\ q * e <= all /\ all < (q + 1) * e
  <2>1. all \div e \in Int /\ all % e \in Int
    OBVIOUS
  <2>a. PICK q \in Int, r \in Int : q = all \div e /\ r = all % e
    BY <2>1, Zenon
  <2>2. all = q * e + r /\ 0 <= r /\ r < e
    BY <2>a
  <2>3. q >= 0
    <3>1. ASSUME q < 0 PROVE q * e <= - e
      BY <3>1
    <3> QED BY <2>2, <3>1
  <2>4. (q + 1) * e = q * e + e
    OBVIOUS
  <2>5. q * e <= all /\ all < (q + 1) * e
    BY <2>2, <2>4
  <2> QED BY <2>a, <2>3, <2>5
<1>2. q * e <= all /\ all < q * e + e
  BY <1>1, Product
<1>3. n < q => (n + 1) * e <= q * e
  BY ProductGrows
<1>4. ~ (n < q) => q * e <= n * e
  BY ProductGrows
<1>5. (n + 1) * e = n * e + e /\ n * e \in Nat /\ q * e \in Nat
  BY Product
<1>6. ASSUME n < q PROVE (n + 1) * e <= all
  BY <1>2, <1>3, <1>5, <1>6
<1>7. ASSUME ~ (n < q) PROVE ~ ((n + 1) * e <= all)
  BY <1>2, <1>4, <1>5, <1>7
<1> QED BY <1>1, <1>6, <1>7

\* Two digits hold a number below the square of their base.
LEMMA TwoDigits ==
  ASSUME NEW b \in Nat, b > 0, NEW v \in Nat, v < b * b
  PROVE  v \div b \in 0 .. b - 1 /\ v % b \in 0 .. b - 1 /\ (v \div b) * b + (v % b) = v
<1>1. v \div b \in Int /\ v % b \in Int
  OBVIOUS
<1>2. PICK q \in Int, r \in Int : q = v \div b /\ r = v % b
  BY <1>1, Zenon
<1>3. v = q * b + r /\ r >= 0 /\ r < b
  BY <1>2
<1>4. q < 0 => q * b <= - b
  OBVIOUS
<1>5. q >= b => q * b >= b * b
  OBVIOUS
<1>6. q \in 0 .. b - 1 /\ r \in 0 .. b - 1
  BY <1>3, <1>4, <1>5
<1>7. q * b + r = v
  BY <1>3
<1> QED BY <1>2, <1>6, <1>7, Zenon

\* The least-number principle, for sets.
LEMMA LeastNumber ==
  ASSUME NEW T \in SUBSET Nat, T # {}
  PROVE  \E n \in T : \A m \in T : n <= m
<1>1. PICK n \in T : \A m \in T : ~ (<<m, n>> \in OpToRel(<, Nat))
  BY NatLessThanWellFounded, WFMin, Zenon
<1>2. ASSUME NEW m \in T, m < n PROVE FALSE
  <2>1. <<m, n>> \in Nat \X Nat
    OBVIOUS
  <2>2. <<m, n>> \in OpToRel(<, Nat)
    BY <1>2, <2>1 DEF OpToRel
  <2> QED BY <1>1, <2>2
<1> QED BY <1>2

USE SizeAssumption, SlotAssumption, SuffixAssumption, DamageAssumption, KeysAssumption

-----------------------------------------------------------------------------
(* The inductive invariant. *)

Addresses == SlotArrayStart .. PageSize - 1

PageNode ==
  [kind : {"leaf", "internal", "heap"}, level : Nat, link : Links \cup {0}, pad : Nat,
   count : Nat, freeStart : Nat, freeEnd : Nat, bytes : [Addresses -> Nat]]

Entry == [key : Seq(Nat), tail : Seq(Nat)]

TypeOK ==
  /\ node \in PageNode
  /\ linked \in Links \cup {0}
  /\ entries \in Seq(Entry)
  /\ damage \in Nat

\* Cell i of n lies in the part of the page that is taken, and holds the entry e.
Holds(n, i, e) ==
  /\ cellStart(n, i) \in n.freeEnd .. PageSize
  /\ cellEnd(n, i) = cellStart(n, i) + (Len(e.key) + Len(e.tail))
  /\ cellEnd(n, i) <= PageSize
  /\ \A j \in 1 .. Len(e.key) : n.bytes[cellStart(n, i) + j - 1] = e.key[j]
  /\ \A j \in 1 .. Len(e.tail) : n.bytes[cellStart(n, i) + Len(e.key) + j - 1] = e.tail[j]

\* The slots grow up to the free start, and each has its cell.
LaidOut(n, es) ==
  /\ n.count = Len(es)
  /\ n.freeStart = slotOffset(Len(es) + 1)
  /\ n.freeStart <= n.freeEnd /\ n.freeEnd <= PageSize
  /\ \A i \in 1 .. Len(es) : Len(es[i].tail) = suffixLen(n) /\ Holds(n, i, es[i])

\* Cells of keys of one length leave the free end at a multiple of their size.
Even(n, es) ==
  \A keyLen \in Nat :
    (\A i \in 1 .. Len(es) : Len(es[i].key) = keyLen) =>
      n.freeEnd = PageSize - Len(es) * (keyLen + suffixLen(n))

\* Each cell ends where the one before it starts, the first at the end of the page.
CellTop(n, i) == IF i = 0 THEN PageSize ELSE cellStart(n, i)

Chained(n) ==
  /\ n.freeEnd = CellTop(n, n.count)
  /\ \A i \in 1 .. n.count : cellEnd(n, i) = CellTop(n, i - 1)

Headed(n) ==
  /\ n.kind \in {"leaf", "internal"}
  /\ Leaf(n) <=> n.level = 0
  /\ n.pad = 0

Sound ==
  damage = 0 =>
    /\ Headed(node) /\ node.link = linked
    /\ LaidOut(node, entries) /\ Even(node, entries) /\ Chained(node)

Inv == TypeOK /\ Sound

-----------------------------------------------------------------------------
(* The bytes of a page. *)

LEMMA SuffixType ==
  ASSUME NEW n
  PROVE  suffixLen(n) \in Nat \ {0}
BY DEF suffixLen

\* Copying changes the bytes it copies to and no others.
LEMMA Copied ==
  ASSUME NEW bytes \in [Addresses -> Nat], NEW at \in Int, NEW data \in Seq(Nat)
  PROVE  /\ Copy(bytes, at, data) \in [Addresses -> Nat]
         /\ \A b \in Addresses : ~ (b \in at .. at + Len(data) - 1)
              => Copy(bytes, at, data)[b] = bytes[b]
         /\ \A b \in Addresses : b \in at .. at + Len(data) - 1
              => Copy(bytes, at, data)[b] = data[b - at + 1]
<1>1. Len(data) \in Nat /\ \A j \in 1 .. Len(data) : data[j] \in Nat
  BY LenProperties
<1>2. \A b \in Addresses : b \in Int
  BY DEF Addresses
<1>3. ASSUME NEW b \in Addresses, b \in at .. at + Len(data) - 1
      PROVE  data[b - at + 1] \in Nat
  <2>1. PICK len \in Nat : len = Len(data)
    BY <1>1
  <2>2. b - at + 1 \in 1 .. len
    BY <1>2, <1>3, <2>1
  <2> QED BY <1>1, <2>1, <2>2
<1>4. Copy(bytes, at, data)
        = [b \in Addresses |-> IF b \in at .. at + Len(data) - 1 THEN data[b - at + 1] ELSE bytes[b]]
  BY DEF Copy
<1> QED BY <1>3, <1>4

\* The four bytes of a slot: the place v of a cell and its length w.
IsSlot(s, v, w) ==
  /\ s \in Seq(Nat) /\ Len(s) = 4
  /\ s[1] * 256 + s[2] = v /\ s[3] * 256 + s[4] = w

LEMMA SlotBytes ==
  ASSUME NEW v \in Nat, NEW w \in Nat, v < 256 * 256, w < 256 * 256
  PROVE  IsSlot(PutUint16(v) \o PutUint16(w), v, w)
<1>1. /\ v \div 256 \in Nat /\ v % 256 \in Nat /\ (v \div 256) * 256 + (v % 256) = v
      /\ w \div 256 \in Nat /\ w % 256 \in Nat /\ (w \div 256) * 256 + (w % 256) = w
  BY TwoDigits
<1>2. PICK a \in Nat, b \in Nat, c \in Nat, d \in Nat :
        a = v \div 256 /\ b = v % 256 /\ c = w \div 256 /\ d = w % 256
  BY <1>1
<1>3. a * 256 + b = v /\ c * 256 + d = w
  BY <1>1, <1>2
<1>4. <<a, b>> \in Seq(Nat) /\ <<c, d>> \in Seq(Nat) /\ Len(<<a, b>>) = 2 /\ Len(<<c, d>>) = 2
  OBVIOUS
<1>5. LET s == <<a, b>> \o <<c, d>> IN
      /\ s \in Seq(Nat) /\ Len(s) = 4 /\ s[1] = a /\ s[2] = b /\ s[3] = c /\ s[4] = d
  BY <1>4, ConcatProperties
<1> QED BY <1>2, <1>3, <1>5 DEF PutUint16, IsSlot

-----------------------------------------------------------------------------
(* Appending. *)

LEMMA SlotPlace ==
  ASSUME NEW i \in Int
  PROVE  /\ slotOffset(i) \in Int /\ slotOffset(i + 1) = slotOffset(i) + 4
         /\ i >= 1 => slotOffset(i) >= SlotArrayStart
         /\ \A k \in Int : i < k => slotOffset(i) + 4 <= slotOffset(k)
BY DEF slotOffset

\* The free space begins after the slots and has room for one more, and its cell.
HasRoom(n, key, tail) ==
  /\ n.freeStart = slotOffset(n.count + 1) /\ n.freeEnd <= PageSize
  /\ 4 + (Len(key) + Len(tail)) <= n.freeEnd - n.freeStart

\* What appendCell makes of a node, field by field: m is n with that cell.
Extends(m, n, key, tail) ==
  LET len   == Len(key) + Len(tail)
      start == n.freeEnd - len
  IN /\ m \in PageNode
     /\ m.kind = n.kind /\ m.level = n.level /\ m.pad = n.pad
     /\ m.link = n.link /\ m.count = n.count + 1
     /\ m.freeStart = n.freeStart + 4 /\ m.freeEnd = start
     /\ uint16(m.bytes, n.freeStart) = start
     /\ uint16(m.bytes, n.freeStart + 2) = len
     /\ \A j \in 1 .. Len(key) : m.bytes[start + j - 1] = key[j]
     /\ \A j \in 1 .. Len(tail) : m.bytes[start + Len(key) + j - 1] = tail[j]
     /\ \A b \in Addresses : b < n.freeStart \/ b >= n.freeEnd => m.bytes[b] = n.bytes[b]

LEMMA AppendCellFields ==
  ASSUME NEW n \in PageNode, NEW key \in Seq(Nat), NEW tail \in Seq(Nat),
         HasRoom(n, key, tail)
  PROVE  Extends(appendCell(n, key, tail), n, key, tail)
<1> DEFINE m == appendCell(n, key, tail)
<1>1. PICK k \in Nat, t \in Nat, len \in Nat : k = Len(key) /\ t = Len(tail) /\ len = k + t
  BY LenProperties
<1>2. PICK slot \in Nat, end \in Nat : slot = n.freeStart /\ end = n.freeEnd
  <2>1. n.freeStart \in Nat /\ n.freeEnd \in Nat
    BY DEF PageNode
  <2> QED BY <2>1, Zenon
<1>a. SlotArrayStart <= slot /\ 4 + len <= end - slot /\ end <= PageSize
  <2>1. slotOffset(n.count + 1) >= SlotArrayStart
    BY DEF PageNode, slotOffset
  <2>2. n.freeStart >= SlotArrayStart /\ n.freeEnd <= PageSize
        /\ 4 + len <= n.freeEnd - n.freeStart
    BY <1>1, <2>1 DEF HasRoom
  <2> QED BY <1>2, <2>2, Zenon
<1>b. PICK start \in Nat : start = end - len
  BY <1>a
<1>3. /\ SlotArrayStart <= slot /\ slot + 4 <= start /\ start <= end /\ end <= PageSize
      /\ start + len = end
  <2>1. 4 + len <= end - slot => slot + 4 <= end - len
    OBVIOUS
  <2>2. end - len <= end /\ (end - len) + len = end
    OBVIOUS
  <2> QED BY <1>a, <1>b, <2>1, <2>2, Zenon
<1>4. start < 256 * 256 /\ len < 256 * 256
  BY <1>3
<1> DEFINE cellBytes == key \o tail
           slotBytes == PutUint16(start) \o PutUint16(len)
           once      == Copy(n.bytes, start, cellBytes)
           twice     == Copy(once, slot, slotBytes)
<1>5. /\ cellBytes \in Seq(Nat) /\ Len(cellBytes) = len
      /\ \A j \in 1 .. k : cellBytes[j] = key[j]
      /\ \A j \in 1 .. t : cellBytes[k + j] = tail[j]
  <2>1. /\ cellBytes \in Seq(Nat) /\ Len(cellBytes) = len
        /\ \A j \in 1 .. len : cellBytes[j] = IF j <= k THEN key[j] ELSE tail[j - k]
    BY <1>1, ConcatProperties
  <2>2. ASSUME NEW j \in 1 .. t PROVE cellBytes[k + j] = tail[j]
    <3>1. k + j \in 1 .. len /\ ~ (k + j <= k) /\ (k + j) - k = j
      BY <1>1
    <3> QED BY <2>1, <3>1
  <2> QED BY <1>1, <2>1, <2>2
<1>6. /\ slotBytes \in Seq(Nat) /\ Len(slotBytes) = 4
      /\ slotBytes[1] * 256 + slotBytes[2] = start /\ slotBytes[3] * 256 + slotBytes[4] = len
  <2> HIDE DEF slotBytes
  <2>1. IsSlot(PutUint16(start) \o PutUint16(len), start, len)
    BY <1>4, SlotBytes, Zenon
  <2>2. IsSlot(slotBytes, start, len)
    BY <2>1, Zenon DEF slotBytes
  <2> QED BY <2>2, Zenon DEF IsSlot
<1> HIDE DEF cellBytes, slotBytes
<1>7. n.bytes \in [Addresses -> Nat]
  BY DEF PageNode
<1>8. /\ once \in [Addresses -> Nat]
      /\ \A b \in Addresses : ~ (b \in start .. start + len - 1) => once[b] = n.bytes[b]
      /\ \A b \in Addresses : b \in start .. start + len - 1 => once[b] = cellBytes[b - start + 1]
  <2> HIDE DEF once
  <2>1. /\ Copy(n.bytes, start, cellBytes) \in [Addresses -> Nat]
        /\ \A b \in Addresses : ~ (b \in start .. start + Len(cellBytes) - 1)
              => Copy(n.bytes, start, cellBytes)[b] = n.bytes[b]
        /\ \A b \in Addresses : b \in start .. start + Len(cellBytes) - 1
              => Copy(n.bytes, start, cellBytes)[b] = cellBytes[b - start + 1]
    <3>1. start \in Int /\ cellBytes \in Seq(Nat)
      BY <1>5
    <3> QED BY <1>7, <3>1, Copied, ZenonT(40)
  <2> QED BY <1>5, <2>1, Zenon DEF once
<1> HIDE DEF once
<1>9. /\ twice \in [Addresses -> Nat]
      /\ \A b \in Addresses : ~ (b \in slot .. slot + 3) => twice[b] = once[b]
      /\ \A b \in Addresses : b \in slot .. slot + 3 => twice[b] = slotBytes[b - slot + 1]
  <2> HIDE DEF twice
  <2>1. slot + 4 - 1 = slot + 3
    OBVIOUS
  <2>2. /\ Copy(once, slot, slotBytes) \in [Addresses -> Nat]
        /\ \A b \in Addresses : ~ (b \in slot .. slot + Len(slotBytes) - 1)
              => Copy(once, slot, slotBytes)[b] = once[b]
        /\ \A b \in Addresses : b \in slot .. slot + Len(slotBytes) - 1
              => Copy(once, slot, slotBytes)[b] = slotBytes[b - slot + 1]
    <3>1. slot \in Int /\ slotBytes \in Seq(Nat) /\ once \in [Addresses -> Nat]
      BY <1>6, <1>8
    <3> QED BY <3>1, Copied, ZenonT(40)
  <2> QED BY <1>6, <2>1, <2>2, Zenon DEF twice
<1> HIDE DEF twice
<1>10. m = [n EXCEPT !.bytes = twice, !.freeEnd = start, !.freeStart = slot + 4, !.count = @ + 1]
  <2>1. Len(key) = k /\ Len(tail) = t /\ (end - k) - t = start /\ k + t = len
    <3>1. (end - k) - t = end - (k + t)
      OBVIOUS
    <3> QED BY <1>1, <1>b, <3>1, Zenon
  <2>2. slotOffset(n.count + 1) = slot /\ n.freeEnd = end
    BY <1>2 DEF HasRoom
  <2> QED BY <2>1, <2>2 DEF appendCell, twice, once, cellBytes, slotBytes
<1>11. /\ m \in PageNode
       /\ m.kind = n.kind /\ m.level = n.level /\ m.pad = n.pad
       /\ m.link = n.link /\ m.count = n.count + 1
       /\ m.freeStart = slot + 4 /\ m.freeEnd = start /\ m.bytes = twice
  <2> HIDE DEF m
  <2>1. n.kind \in {"leaf", "internal", "heap"} /\ n.count \in Nat
    BY DEF PageNode
  <2>2. slot + 4 \in Nat /\ n.count + 1 \in Nat
    BY <2>1
  <2> QED BY <1>9, <1>10, <2>2, ZenonT(40) DEF PageNode
<1> HIDE DEF m
<1>12. slot \in Addresses /\ slot + 1 \in Addresses /\ slot + 2 \in Addresses /\ slot + 3 \in Addresses
  BY <1>3 DEF Addresses
<1>13. /\ twice[slot] = slotBytes[1] /\ twice[slot + 1] = slotBytes[2]
       /\ twice[slot + 2] = slotBytes[3] /\ twice[slot + 3] = slotBytes[4]
  <2>1. /\ slot - slot + 1 = 1 /\ (slot + 1) - slot + 1 = 2
        /\ (slot + 2) - slot + 1 = 3 /\ (slot + 3) - slot + 1 = 4
    OBVIOUS
  <2>2. /\ slot \in slot .. slot + 3 /\ slot + 1 \in slot .. slot + 3
        /\ slot + 2 \in slot .. slot + 3 /\ slot + 3 \in slot .. slot + 3
    OBVIOUS
  <2> QED BY <1>9, <1>12, <2>1, <2>2, ZenonT(40)
<1>14. uint16(twice, slot) = start /\ uint16(twice, slot + 2) = len
  <2>1. slot + 2 + 1 = slot + 3
    BY <1>2
  <2> QED BY <1>6, <1>13, <2>1 DEF uint16
<1>15. \A j \in 1 .. len : twice[start + j - 1] = cellBytes[j]
  <2>1. ASSUME NEW j \in 1 .. len PROVE twice[start + j - 1] = cellBytes[j]
    <3>1. /\ start + j - 1 \in start .. start + len - 1
          /\ (start + j - 1) - start + 1 = j
      OBVIOUS
    <3>2. start + j - 1 \in Addresses /\ ~ (start + j - 1 \in slot .. slot + 3)
      BY <1>3 DEF Addresses
    <3> QED BY <1>8, <1>9, <3>1, <3>2, ZenonT(40)
  <2> QED BY <2>1
<1>16. \A j \in 1 .. k : twice[start + j - 1] = key[j]
  BY <1>1, <1>5, <1>15
<1>17. \A j \in 1 .. t : twice[start + k + j - 1] = tail[j]
  <2>1. ASSUME NEW j \in 1 .. t PROVE twice[start + k + j - 1] = tail[j]
    <3>1. k + j \in 1 .. k + t /\ start + (k + j) - 1 = start + k + j - 1
      OBVIOUS
    <3> QED BY <1>1, <1>5, <1>15, <3>1, Zenon
  <2> QED BY <2>1
<1>18. \A b \in Addresses : b < slot \/ b >= end => twice[b] = n.bytes[b]
  <2>1. ASSUME NEW b \in Addresses, b < slot \/ b >= end PROVE twice[b] = n.bytes[b]
    <3>1. ~ (b \in slot .. slot + 3) /\ ~ (b \in start .. start + len - 1)
      BY <1>3, <2>1 DEF Addresses
    <3> QED BY <1>8, <1>9, <3>1
  <2> QED BY <2>1
<1> QED BY <1>1, <1>2, <1>b, <1>11, <1>14, <1>16, <1>17, <1>18 DEF m, Extends

\* A slot below the free start keeps its offset and length.
LEMMA SlotStays ==
  ASSUME NEW n \in PageNode, NEW m, NEW i \in Nat \ {0},
         slotOffset(i + 1) <= n.freeStart, n.freeStart <= n.freeEnd, n.freeEnd <= PageSize,
         \A b \in Addresses : b < n.freeStart \/ b >= n.freeEnd => m.bytes[b] = n.bytes[b]
  PROVE  cellStart(m, i) = cellStart(n, i) /\ cellEnd(m, i) = cellEnd(n, i)
<1>1. PICK slot \in Int : /\ slot = slotOffset(i) /\ SlotArrayStart <= slot
                          /\ slot + 4 <= n.freeStart
  <2>1. i \in Int /\ i >= 1
    OBVIOUS
  <2>2. slotOffset(i) \in Int /\ slotOffset(i + 1) = slotOffset(i) + 4 /\ slotOffset(i) >= SlotArrayStart
    BY <2>1, SlotPlace
  <2>3. slotOffset(i) + 4 <= n.freeStart
    BY <2>2, Zenon
  <2>4. SlotArrayStart <= slotOffset(i)
    BY <2>2
  <2> QED BY <2>2, <2>3, <2>4, Zenon
<1>2. PICK first \in Nat, end \in Nat : first = n.freeStart /\ end = n.freeEnd
  BY DEF PageNode
<1>3. slot + 4 <= first /\ first <= end /\ end <= PageSize
  BY <1>1, <1>2, Zenon
<1>4. /\ slot \in Addresses /\ slot + 1 \in Addresses /\ slot + 2 \in Addresses
      /\ slot + 2 + 1 \in Addresses
      /\ slot < first /\ slot + 1 < first /\ slot + 2 < first /\ slot + 2 + 1 < first
  BY <1>1, <1>3 DEF Addresses
<1>5. /\ m.bytes[slot] = n.bytes[slot] /\ m.bytes[slot + 1] = n.bytes[slot + 1]
      /\ m.bytes[slot + 2] = n.bytes[slot + 2] /\ m.bytes[slot + 2 + 1] = n.bytes[slot + 2 + 1]
  BY <1>2, <1>4, Zenon
<1>6. uint16(m.bytes, slot) = uint16(n.bytes, slot)
      /\ uint16(m.bytes, slot + 2) = uint16(n.bytes, slot + 2)
  BY <1>5, Zenon DEF uint16
<1> QED BY <1>1, <1>6, Zenon DEF cellStart, cellEnd

\* A cell that was there stays as it is under a new free end, if its bytes do.
LEMMA HoldsOn ==
  ASSUME NEW n \in PageNode, NEW m \in PageNode, NEW i \in Nat \ {0}, NEW e \in Entry,
         Holds(n, i, e), m.freeEnd <= n.freeEnd,
         slotOffset(i + 1) <= n.freeStart, n.freeStart <= n.freeEnd, n.freeEnd <= PageSize,
         \A b \in Addresses : b < n.freeStart \/ b >= n.freeEnd => m.bytes[b] = n.bytes[b]
  PROVE  Holds(m, i, e)
<1>2. PICK first \in Nat, end \in Nat : first = n.freeStart /\ end = n.freeEnd
  BY DEF PageNode
<1>3. SlotArrayStart <= first /\ first <= end /\ end <= PageSize
  <2>1. PICK slot \in Int : slot = slotOffset(i + 1) /\ SlotArrayStart <= slot
    BY SlotPlace
  <2>2. slot <= first /\ first <= end /\ end <= PageSize
    BY <1>2, <2>1, Zenon
  <2> QED BY <2>1, <2>2
<1>5. cellStart(m, i) = cellStart(n, i) /\ cellEnd(m, i) = cellEnd(n, i)
  BY SlotStays, Zenon
<1>6. PICK k \in Nat, t \in Nat, at \in Int :
        k = Len(e.key) /\ t = Len(e.tail) /\ at = cellStart(n, i)
  <2>1. Len(e.key) \in Nat /\ Len(e.tail) \in Nat
    BY LenProperties DEF Entry
  <2>2. cellStart(n, i) \in Int
    BY <1>2 DEF Holds
  <2> QED BY <2>1, <2>2, Zenon
<1>7. /\ at \in end .. PageSize /\ at + (k + t) <= PageSize
      /\ cellEnd(n, i) = at + (k + t)
      /\ \A j \in 1 .. k : n.bytes[at + j - 1] = e.key[j]
      /\ \A j \in 1 .. t : n.bytes[at + k + j - 1] = e.tail[j]
  <2>1. /\ cellStart(n, i) \in n.freeEnd .. PageSize
        /\ cellEnd(n, i) = cellStart(n, i) + (Len(e.key) + Len(e.tail))
        /\ cellEnd(n, i) <= PageSize
        /\ \A j \in 1 .. Len(e.key) : n.bytes[cellStart(n, i) + j - 1] = e.key[j]
        /\ \A j \in 1 .. Len(e.tail) : n.bytes[cellStart(n, i) + Len(e.key) + j - 1] = e.tail[j]
    BY DEF Holds
  <2> QED BY <1>2, <1>6, <2>1, Zenon
<1>8. \A b \in Addresses : b >= end => m.bytes[b] = n.bytes[b]
  BY <1>2
<1>9. \A j \in 1 .. k : m.bytes[at + j - 1] = e.key[j]
  <2>1. ASSUME NEW j \in 1 .. k PROVE m.bytes[at + j - 1] = e.key[j]
    <3>1. at + j - 1 \in Addresses /\ at + j - 1 >= end
      <4>1. at >= end /\ at + (k + t) <= PageSize /\ SlotArrayStart <= end
        BY <1>3, <1>7
      <4> QED BY <4>1 DEF Addresses
    <3> QED BY <1>7, <1>8, <3>1, Zenon
  <2> QED BY <2>1
<1>10. \A j \in 1 .. t : m.bytes[at + k + j - 1] = e.tail[j]
  <2>1. ASSUME NEW j \in 1 .. t PROVE m.bytes[at + k + j - 1] = e.tail[j]
    <3>1. at + k + j - 1 \in Addresses /\ at + k + j - 1 >= end
      <4>1. at >= end /\ at + (k + t) <= PageSize /\ SlotArrayStart <= end
        BY <1>3, <1>7
      <4> QED BY <4>1 DEF Addresses
    <3> QED BY <1>7, <1>8, <3>1, Zenon
  <2> QED BY <2>1
<1>11. at \in m.freeEnd .. PageSize
  <2>1. m.freeEnd \in Int /\ m.freeEnd <= end
    BY <1>2 DEF PageNode
  <2>2. at >= end /\ at <= PageSize
    BY <1>7
  <2> QED BY <2>1, <2>2
<1>12. cellStart(m, i) = at /\ cellEnd(m, i) = at + (k + t)
  BY <1>5, <1>6, <1>7, Zenon
<1>13. \A j \in 1 .. Len(e.key) : m.bytes[cellStart(m, i) + j - 1] = e.key[j]
  BY <1>6, <1>9, <1>12, Zenon
<1>14. \A j \in 1 .. Len(e.tail) : m.bytes[cellStart(m, i) + Len(e.key) + j - 1] = e.tail[j]
  BY <1>6, <1>10, <1>12, Zenon
<1>15. /\ cellStart(m, i) \in m.freeEnd .. PageSize
       /\ cellEnd(m, i) = cellStart(m, i) + (Len(e.key) + Len(e.tail))
       /\ cellEnd(m, i) <= PageSize
  <2>1. cellStart(m, i) \in m.freeEnd .. PageSize
    BY <1>11, <1>12, Zenon
  <2>2. cellEnd(m, i) = cellStart(m, i) + (Len(e.key) + Len(e.tail))
    BY <1>6, <1>12, Zenon
  <2>3. cellEnd(m, i) <= PageSize
    BY <1>7, <1>12, Zenon
  <2> QED BY <2>1, <2>2, <2>3
<1> QED BY <1>13, <1>14, <1>15, Zenon DEF Holds

\* An entry that is appended has its cell, and all that were there before keep theirs.
LEMMA AppendKeepsLayout ==
  ASSUME NEW n \in PageNode, NEW es \in Seq(Entry), LaidOut(n, es),
         Chained(n), NEW e \in Entry, Len(e.tail) = suffixLen(n), Fits(n, Len(e.key))
  PROVE  /\ appendCell(n, e.key, e.tail) \in PageNode
         /\ appendCell(n, e.key, e.tail).kind = n.kind
         /\ appendCell(n, e.key, e.tail).level = n.level
         /\ appendCell(n, e.key, e.tail).pad = n.pad
         /\ appendCell(n, e.key, e.tail).link = n.link
         /\ LaidOut(appendCell(n, e.key, e.tail), Append(es, e))
         /\ Chained(appendCell(n, e.key, e.tail))
         /\ appendCell(n, e.key, e.tail).freeEnd = n.freeEnd - (Len(e.key) + Len(e.tail))
<1>1. e.key \in Seq(Nat) /\ e.tail \in Seq(Nat)
  BY DEF Entry
<1>2. PICK m : m = appendCell(n, e.key, e.tail)
  OBVIOUS
<1>3. PICK len \in Nat, c \in Nat, first \in Nat, end \in Nat :
        /\ len = Len(e.key) + Len(e.tail) /\ c = Len(es)
        /\ first = n.freeStart /\ end = n.freeEnd
  <2>1. Len(e.key) + Len(e.tail) \in Nat /\ Len(es) \in Nat
    BY <1>1, LenProperties
  <2>2. n.freeStart \in Nat /\ n.freeEnd \in Nat
    BY DEF PageNode
  <2> QED BY <2>1, <2>2, Zenon
<1>4. /\ n.count = c /\ first = slotOffset(c + 1) /\ first <= end /\ end <= PageSize
  BY <1>3, Zenon DEF LaidOut
<1>5. 4 + len <= end - first
  <2>1. PICK k \in Nat, t \in Nat : k = Len(e.key) /\ t = Len(e.tail)
    BY <1>1, LenProperties
  <2>2. (SlotSize + k) + t <= end - first
    BY <1>3, <2>1 DEF Fits, EntrySize, FreeSpace
  <2>3. len = k + t
    BY <1>3, <2>1, Zenon
  <2> QED BY <2>2, <2>3
<1>6. HasRoom(n, e.key, e.tail)
  BY <1>3, <1>4, <1>5, Zenon DEF HasRoom
<1>7. PICK start \in Int : start = end - len
  OBVIOUS
<1>8. /\ m \in PageNode
      /\ m.kind = n.kind /\ m.level = n.level /\ m.pad = n.pad
      /\ m.link = n.link /\ m.count = c + 1
      /\ m.freeStart = first + 4 /\ m.freeEnd = start
      /\ uint16(m.bytes, first) = start
      /\ uint16(m.bytes, first + 2) = len
      /\ \A j \in 1 .. Len(e.key) : m.bytes[start + j - 1] = e.key[j]
      /\ \A j \in 1 .. Len(e.tail) : m.bytes[start + Len(e.key) + j - 1] = e.tail[j]
      /\ \A b \in Addresses : b < first \/ b >= end => m.bytes[b] = n.bytes[b]
  <2>1. /\ m \in PageNode
        /\ m.kind = n.kind /\ m.level = n.level /\ m.pad = n.pad
        /\ m.link = n.link /\ m.count = n.count + 1
        /\ m.freeStart = n.freeStart + 4
        /\ m.freeEnd = n.freeEnd - (Len(e.key) + Len(e.tail))
        /\ uint16(m.bytes, n.freeStart) = n.freeEnd - (Len(e.key) + Len(e.tail))
        /\ uint16(m.bytes, n.freeStart + 2) = Len(e.key) + Len(e.tail)
        /\ \A j \in 1 .. Len(e.key) :
             m.bytes[n.freeEnd - (Len(e.key) + Len(e.tail)) + j - 1] = e.key[j]
        /\ \A j \in 1 .. Len(e.tail) :
             m.bytes[n.freeEnd - (Len(e.key) + Len(e.tail)) + Len(e.key) + j - 1] = e.tail[j]
        /\ \A b \in Addresses : b < n.freeStart \/ b >= n.freeEnd => m.bytes[b] = n.bytes[b]
    <3>1. Extends(m, n, e.key, e.tail)
      BY <1>1, <1>2, <1>6, AppendCellFields, Zenon
    <3> QED BY <3>1 DEF Extends
  <2>2. start = n.freeEnd - (Len(e.key) + Len(e.tail))
    BY <1>3, <1>7, Zenon
  <2>3. /\ \A j \in 1 .. Len(e.key) : m.bytes[start + j - 1] = e.key[j]
        /\ \A j \in 1 .. Len(e.tail) : m.bytes[start + Len(e.key) + j - 1] = e.tail[j]
    BY <2>1, <2>2, Zenon
  <2>4. /\ m.count = c + 1 /\ m.freeStart = first + 4 /\ m.freeEnd = start
        /\ uint16(m.bytes, first) = start /\ uint16(m.bytes, first + 2) = len
        /\ \A b \in Addresses : b < first \/ b >= end => m.bytes[b] = n.bytes[b]
    BY <1>3, <1>4, <2>1, <2>2, Zenon
  <2> QED BY <2>1, <2>3, <2>4
<1>9. PICK all : all = Append(es, e)
  OBVIOUS
<1>10. /\ Len(all) = c + 1 /\ all[c + 1] = e
       /\ \A i \in 1 .. c : all[i] = es[i]
  BY <1>3, <1>9, AppendProperties
<1>11. suffixLen(m) = suffixLen(n)
  BY <1>8, Zenon DEF suffixLen, Leaf
<1>12. ASSUME NEW i \in 1 .. c
       PROVE  /\ Len(es[i].tail) = suffixLen(n) /\ Holds(m, i, es[i])
              /\ cellStart(m, i) = cellStart(n, i) /\ cellEnd(m, i) = cellEnd(n, i)
  <2>1. Len(es[i].tail) = suffixLen(n) /\ Holds(n, i, es[i])
    BY <1>3 DEF LaidOut
  <2>2. es[i] \in Entry
    BY <1>3, ElementOfSeq
  <2>3. slotOffset(i + 1) <= n.freeStart
    <3>1. i + 1 \in Int /\ i + 1 <= c + 1
      OBVIOUS
    <3>2. slotOffset(i + 1) <= slotOffset(c + 1)
      BY <3>1 DEF slotOffset
    <3> QED BY <1>3, <1>4, <3>2, Zenon
  <2>4. start <= end
    BY <1>7
  <2>5. /\ m.freeEnd <= n.freeEnd /\ n.freeStart <= n.freeEnd /\ n.freeEnd <= PageSize
        /\ \A b \in Addresses : b < n.freeStart \/ b >= n.freeEnd => m.bytes[b] = n.bytes[b]
    BY <1>3, <1>4, <1>8, <2>4, Zenon
  <2>6. i \in Nat \ {0}
    OBVIOUS
  <2>7. Holds(m, i, es[i])
    BY <1>8, <2>1, <2>2, <2>3, <2>5, <2>6, HoldsOn, Zenon
  <2>8. cellStart(m, i) = cellStart(n, i) /\ cellEnd(m, i) = cellEnd(n, i)
    BY <2>3, <2>5, <2>6, SlotStays, Zenon
  <2> QED BY <2>1, <2>7, <2>8
<1>13. /\ Holds(m, c + 1, e)
       /\ cellStart(m, c + 1) = start /\ cellEnd(m, c + 1) = end
  <2>1. cellStart(m, c + 1) = start /\ cellEnd(m, c + 1) = start + len
    BY <1>4, <1>8, Zenon DEF cellStart, cellEnd
  <2>2. start \in start .. PageSize /\ start + len = end
    BY <1>4, <1>7
  <2>3. cellEnd(m, c + 1) = start + (Len(e.key) + Len(e.tail)) /\ cellEnd(m, c + 1) <= PageSize
    BY <1>3, <1>4, <2>1, <2>2, Zenon
  <2> QED BY <1>8, <2>1, <2>2, <2>3, ZenonT(40) DEF Holds
<1>14. ASSUME NEW i \in 1 .. c + 1
       PROVE  Len(all[i].tail) = suffixLen(m) /\ Holds(m, i, all[i])
  <2>1. CASE i = c + 1
    BY <1>10, <1>11, <1>13, <2>1, Zenon
  <2>2. CASE i \in 1 .. c
    BY <1>10, <1>11, <1>12, <2>2, Zenon
  <2> QED BY <2>1, <2>2
<1>15. first + 4 = slotOffset(c + 1 + 1) /\ first + 4 <= start /\ start <= PageSize
  <2>1. slotOffset(c + 1 + 1) = slotOffset(c + 1) + 4
    BY SlotPlace
  <2>2. first + 4 <= end - len /\ end - len <= end
    BY <1>5
  <2>3. end - len <= PageSize
    BY <1>4, <2>2
  <2> QED BY <1>4, <1>7, <2>1, <2>2, <2>3, Zenon
<1>16. LaidOut(m, all)
  BY <1>8, <1>10, <1>14, <1>15, Zenon DEF LaidOut
<1>17. Chained(m)
  <2>1. /\ end = CellTop(n, c)
        /\ \A i \in 1 .. c : cellEnd(n, i) = CellTop(n, i - 1)
    BY <1>3, <1>4, Zenon DEF Chained
  <2>2. \A i \in 0 .. c : CellTop(m, i) = CellTop(n, i)
    <3>1. \A i \in 0 .. c : i = 0 \/ i \in 1 .. c
      OBVIOUS
    <3> QED BY <1>12, <3>1, Zenon DEF CellTop
  <2>3. CellTop(m, c + 1) = start
    <3>1. c + 1 # 0
      OBVIOUS
    <3> QED BY <1>13, <3>1, Zenon DEF CellTop
  <2>4. ASSUME NEW i \in 1 .. c + 1 PROVE cellEnd(m, i) = CellTop(m, i - 1)
    <3>1. i - 1 \in 0 .. c
      OBVIOUS
    <3>2. CASE i \in 1 .. c
      BY <1>12, <2>1, <2>2, <3>1, <3>2, Zenon
    <3>3. CASE i = c + 1
      <4>1. i - 1 = c
        BY <3>3
      <4> QED BY <1>13, <2>1, <2>2, <3>1, <3>3, <4>1, Zenon
    <3> QED BY <3>2, <3>3
  <2> QED BY <1>8, <2>3, <2>4, Zenon DEF Chained
<1> QED BY <1>2, <1>3, <1>7, <1>8, <1>9, <1>16, <1>17, Zenon

\* A function on the first numbers is a sequence.
LEMMA FunctionIsSeq ==
  ASSUME NEW S, NEW len \in Nat, NEW f \in [1 .. len -> S]
  PROVE  f \in Seq(S) /\ Len(f) = len
OBVIOUS

LEMMA AppendKeepsEven ==
  ASSUME NEW n \in PageNode, NEW es \in Seq(Entry), Even(n, es),
         NEW e \in Entry, Len(e.tail) = suffixLen(n),
         NEW m, suffixLen(m) = suffixLen(n),
         m.freeEnd = n.freeEnd - (Len(e.key) + Len(e.tail))
  PROVE  Even(m, Append(es, e))
<1>1. PICK c \in Nat, k \in Nat, t \in Nat, end \in Nat :
        c = Len(es) /\ k = Len(e.key) /\ t = suffixLen(n) /\ end = n.freeEnd
  <2>1. Len(es) \in Nat /\ Len(e.key) \in Nat /\ suffixLen(n) \in Nat /\ n.freeEnd \in Nat
    BY LenProperties, SuffixType DEF Entry, PageNode
  <2> QED BY <2>1, Zenon
<1>2. PICK all : all = Append(es, e)
  OBVIOUS
<1>3. /\ Len(all) = c + 1 /\ all[c + 1] = e
      /\ \A i \in 1 .. c : all[i] = es[i]
  BY <1>1, <1>2, AppendProperties
<1>4. ASSUME NEW keyLen \in Nat, \A i \in 1 .. Len(all) : Len(all[i].key) = keyLen
      PROVE  m.freeEnd = PageSize - Len(all) * (keyLen + suffixLen(m))
  <2>1. /\ 1 .. Len(all) = 1 .. c + 1 /\ c + 1 \in 1 .. c + 1
        /\ \A i \in 1 .. c : i \in 1 .. c + 1
    BY <1>3
  <2>2. k = keyLen
    BY <1>1, <1>3, <1>4, <2>1, Zenon
  <2>3. \A i \in 1 .. Len(es) : Len(es[i].key) = keyLen
    BY <1>1, <1>3, <1>4, <2>1, ZenonT(40)
  <2>4. end = PageSize - c * (k + t)
    BY <1>1, <2>2, <2>3, Zenon DEF Even
  <2>5. PICK size \in Nat, room \in Nat : size = k + t /\ room = c * size
    OBVIOUS
  <2>6. (c + 1) * size = room + size
    <3>1. (c + 1) * size = c * size + size
      BY Product
    <3> QED BY <2>5, <3>1, Zenon
  <2>7. (PageSize - room) - size = PageSize - (room + size)
    OBVIOUS
  <2>8. m.freeEnd = (PageSize - room) - size
    BY <1>1, <2>4, <2>5, Zenon
  <2> QED BY <1>1, <1>3, <2>2, <2>5, <2>6, <2>7, <2>8, Zenon
<1> QED BY <1>2, <1>4, Zenon DEF Even

-----------------------------------------------------------------------------
(* The invariant holds at first, and every step keeps it. *)

LEMMA InitKeepsInv ==
  ASSUME Init
  PROVE  Inv
<1>1. PICK level \in Nat, kind \in {"leaf", "internal"} :
        node = NewPage(kind, level) /\ (kind = "leaf" <=> level = 0)
  BY DEF Init, NewLeaf, NewInternal
<1>2. /\ entries = <<>> /\ linked = 0 /\ damage = 0
      /\ entries \in Seq(Entry) /\ Len(entries) = 0
  BY EmptySeq DEF Init
<1>3. /\ node.kind = kind /\ node.link = 0 /\ node.count = 0
      /\ node.freeStart = SlotArrayStart /\ node.freeEnd = PageSize
      /\ node.level = level /\ node.pad = 0
  BY <1>1 DEF NewPage
<1>4. node \in PageNode
  BY <1>1 DEF NewPage, PageNode, Addresses
<1>5. LaidOut(node, entries)
  <2>1. slotOffset(0 + 1) = SlotArrayStart
    BY DEF slotOffset
  <2> QED BY <1>2, <1>3, <2>1 DEF LaidOut
<1>6. Even(node, entries)
  <2>1. suffixLen(node) \in Nat
    BY SuffixType
  <2>2. \A keyLen \in Nat : PageSize = PageSize - 0 * (keyLen + suffixLen(node))
    BY <2>1
  <2> QED BY <1>2, <1>3, <2>2 DEF Even
<1>7. Headed(node)
  BY <1>1, <1>3, Zenon DEF Headed, Leaf
<1>8. Chained(node)
  <2>1. \A i : ~ (i \in 1 .. 0)
    OBVIOUS
  <2> QED BY <1>3, <2>1, Zenon DEF Chained, CellTop
<1> QED BY <1>2, <1>3, <1>4, <1>5, <1>6, <1>7, <1>8, Zenon DEF Inv, TypeOK, Sound

LEMMA AppendKeepsInv ==
  ASSUME Inv, NEW kind \in {"leaf", "internal"}, NEW key \in Keys, AppendTo(kind, key)
  PROVE  Inv'
<1>1. PICK tail \in [1 .. suffixLen(node) -> Bytes] :
        /\ node' = appendCell(node, key, tail)
        /\ entries' = Append(entries, [key |-> key, tail |-> tail])
  BY DEF AppendTo
<1>2. /\ damage = 0 /\ Fits(node, Len(key)) /\ UNCHANGED <<linked, damage>>
      /\ node \in PageNode /\ entries \in Seq(Entry)
      /\ Headed(node) /\ node.link = linked
      /\ LaidOut(node, entries) /\ Even(node, entries) /\ Chained(node)
  BY DEF AppendTo, Inv, TypeOK, Sound
<1>3. key \in Seq(Nat) /\ tail \in Seq(Nat) /\ Len(tail) = suffixLen(node)
  <2>1. Bytes \subseteq Nat /\ 0 .. 255 \subseteq Nat /\ key \in Seq(0 .. 255)
    OBVIOUS
  <2>2. tail \in [1 .. suffixLen(node) -> Nat] /\ suffixLen(node) \in Nat
    BY <2>1, SuffixType
  <2>3. tail \in Seq(Nat) /\ Len(tail) = suffixLen(node)
    BY <2>2, FunctionIsSeq
  <2>4. key \in Seq(Nat)
    BY <2>1, SeqMonotonic
  <2> QED BY <2>3, <2>4
<1>4. PICK e : e = [key |-> key, tail |-> tail]
  OBVIOUS
<1>5. e \in Entry /\ e.key = key /\ e.tail = tail
  BY <1>3, <1>4 DEF Entry
<1>6. /\ node' \in PageNode /\ node'.kind = node.kind /\ node'.link = node.link
      /\ node'.level = node.level /\ node'.pad = node.pad
      /\ LaidOut(node', Append(entries, e)) /\ Chained(node')
      /\ node'.freeEnd = node.freeEnd - (Len(e.key) + Len(e.tail))
  BY <1>1, <1>2, <1>3, <1>5, AppendKeepsLayout, ZenonT(40)
<1>7. suffixLen(node') = suffixLen(node)
  BY <1>6, Zenon DEF suffixLen, Leaf
<1>8. Even(node', Append(entries, e))
  BY <1>2, <1>3, <1>5, <1>6, <1>7, AppendKeepsEven, Zenon
<1>9. entries' = Append(entries, e) /\ entries' \in Seq(Entry)
  BY <1>1, <1>2, <1>4, <1>5, AppendProperties
<1>10. TypeOK'
  BY <1>2, <1>6, <1>9 DEF Inv, TypeOK
<1>11. Headed(node')
  BY <1>2, <1>6, ZenonT(40) DEF Headed, Leaf
<1>12. Sound'
  BY <1>2, <1>6, <1>8, <1>9, <1>11, Zenon DEF Sound
<1> QED BY <1>10, <1>12 DEF Inv


\* The link lies in the header, apart from slots and cells.
LEMMA LinkKeepsInv ==
  ASSUME Inv, NEW id \in Links, LinkTo(id)
  PROVE  Inv'
<1>1. /\ node' = [node EXCEPT !.link = id] /\ linked' = id
      /\ entries' = entries /\ damage' = damage /\ damage = 0
  BY DEF LinkTo, SetLink
<1>2. /\ node \in PageNode /\ entries \in Seq(Entry)
      /\ Headed(node) /\ LaidOut(node, entries) /\ Even(node, entries) /\ Chained(node)
  BY <1>1 DEF Inv, TypeOK, Sound
<1>3. /\ node' \in PageNode /\ node'.kind = node.kind /\ node'.link = id
      /\ node'.level = node.level /\ node'.pad = node.pad
      /\ node'.count = node.count /\ node'.bytes = node.bytes
      /\ node'.freeStart = node.freeStart /\ node'.freeEnd = node.freeEnd
  BY <1>1, <1>2, ZenonT(40) DEF PageNode
<1>4. suffixLen(node') = suffixLen(node)
  BY <1>3, Zenon DEF suffixLen, Leaf
<1>5. ASSUME NEW i, NEW e, Holds(node, i, e) PROVE Holds(node', i, e)
  BY <1>3, <1>5, Zenon DEF Holds, cellStart, cellEnd
<1>6. LaidOut(node', entries)
  BY <1>2, <1>3, <1>4, <1>5, Zenon DEF LaidOut
<1>7. Even(node', entries)
  BY <1>2, <1>3, <1>4, Zenon DEF Even
<1>8. TypeOK'
  BY <1>1, <1>2, <1>3 DEF Inv, TypeOK
<1>9. Headed(node') /\ Chained(node')
  <2>1. Headed(node')
    BY <1>2, <1>3, ZenonT(40) DEF Headed, Leaf
  <2>2. \A i : cellStart(node', i) = cellStart(node, i) /\ cellEnd(node', i) = cellEnd(node, i)
    BY <1>3, Zenon DEF cellStart, cellEnd
  <2>3. \A i : CellTop(node', i) = CellTop(node, i)
    BY <2>2, Zenon DEF CellTop
  <2>4. Chained(node')
    BY <1>2, <1>3, <2>2, <2>3, Zenon DEF Chained
  <2> QED BY <2>1, <2>4
<1>10. Sound'
  BY <1>1, <1>2, <1>3, <1>6, <1>7, <1>9, Zenon DEF Sound
<1> QED BY <1>8, <1>10 DEF Inv

\* Damage keeps a page a page: of what it says no more is claimed.
LEMMA DamageKeepsInv ==
  ASSUME Inv, Damage
  PROVE  Inv'
<1>1. /\ node' \in Damaged(node) /\ damage' = damage + 1
      /\ linked' = linked /\ entries' = entries
      /\ node \in PageNode /\ damage \in Nat
      /\ linked \in Links \cup {0} /\ entries \in Seq(Entry)
  BY DEF Damage, Inv, TypeOK
<1>2. damage' \in Nat /\ damage' # 0
  BY <1>1
<1>3. ASSUME NEW v \in Nat
      PROVE  /\ [node EXCEPT !.count = v] \in PageNode
             /\ [node EXCEPT !.freeStart = v] \in PageNode
             /\ [node EXCEPT !.freeEnd = v] \in PageNode
             /\ [node EXCEPT !.level = v] \in PageNode
             /\ [node EXCEPT !.pad = v] \in PageNode
  <2>a. node \in PageNode
    BY <1>1
  <2>1. [node EXCEPT !.count = v] \in PageNode
    BY <2>a, ZenonT(40) DEF PageNode
  <2>2. [node EXCEPT !.freeStart = v] \in PageNode
    BY <2>a, ZenonT(40) DEF PageNode
  <2>3. [node EXCEPT !.freeEnd = v] \in PageNode
    BY <2>a, ZenonT(40) DEF PageNode
  <2>4. [node EXCEPT !.level = v] \in PageNode
    BY <2>a, ZenonT(40) DEF PageNode
  <2>5. [node EXCEPT !.pad = v] \in PageNode
    BY <2>a, ZenonT(40) DEF PageNode
  <2> QED BY <2>1, <2>2, <2>3, <2>4, <2>5
<1>4. ASSUME NEW v \in {"leaf", "internal", "heap"}
      PROVE  [node EXCEPT !.kind = v] \in PageNode
  BY <1>1, ZenonT(40) DEF PageNode
<1>5. ASSUME NEW i \in 1 .. node.count, NEW at \in {0, 2}, NEW v \in 0 .. PageSize + 1
      PROVE  [node EXCEPT !.bytes = Copy(@, slotOffset(i) + at, PutUint16(v))] \in PageNode
  <2>1. v \in Nat
    OBVIOUS
  <2>2. PutUint16(v) \in Seq(Nat)
    <3>1. v \div 256 \in Nat /\ v % 256 \in Nat
      BY <2>1
    <3>2. PICK a \in Nat, b \in Nat : a = v \div 256 /\ b = v % 256
      BY <3>1
    <3>3. <<a, b>> \in Seq(Nat)
      OBVIOUS
    <3> QED BY <3>2, <3>3 DEF PutUint16
  <2>3. slotOffset(i) + at \in Int
    BY DEF slotOffset
  <2>4. PICK b : b = Copy(node.bytes, slotOffset(i) + at, PutUint16(v))
    OBVIOUS
  <2>5. b \in [Addresses -> Nat]
    <3>1. node.bytes \in [Addresses -> Nat]
      BY <1>1 DEF PageNode
    <3> QED BY <2>2, <2>3, <2>4, <3>1, Copied, Zenon
  <2>6. [node EXCEPT !.bytes = b] \in PageNode
    BY <1>1, <2>5 DEF PageNode
  <2> QED BY <2>4, <2>6
<1>6. node' \in PageNode
  <2>1. EntryArea \div SlotSize \in Int
    BY DEF EntryArea
  <2>2. \A v \in 0 .. EntryArea \div SlotSize : v \in Nat
    BY <2>1
  <2>3. \A v \in SlotArrayStart .. PageSize : v \in Nat
    OBVIOUS
  <2>4. \A v \in 0 .. PageSize + 1 : v \in Nat
    OBVIOUS
  <2>5. {[node EXCEPT !.count = v] : v \in 0 .. EntryArea \div SlotSize} \subseteq PageNode
    BY <1>3, <2>2, Zenon
  <2>6. {[node EXCEPT !.freeStart = v] : v \in SlotArrayStart .. PageSize} \subseteq PageNode
    BY <1>3, <2>3, Zenon
  <2>7. {[node EXCEPT !.freeEnd = v] : v \in 0 .. PageSize + 1} \subseteq PageNode
    BY <1>3, <2>4, Zenon
  <2>8. {[node EXCEPT !.level = v] : v \in {0, 1}} \subseteq PageNode
    <3>1. \A v \in {0, 1} : v \in Nat
      OBVIOUS
    <3> QED BY <1>3, <3>1, Zenon
  <2>9. {[node EXCEPT !.kind = v] : v \in {"leaf", "internal", "heap"}} \subseteq PageNode
    BY <1>4, Zenon
  <2>10. {[node EXCEPT !.pad = 1]} \subseteq PageNode
    <3>1. 1 \in Nat
      OBVIOUS
    <3> QED BY <1>3, <3>1, Zenon
  <2> DEFINE slotsHit == {[node EXCEPT !.bytes = Copy(@, slotOffset(i) + at, PutUint16(v))] :
                            i \in 1 .. node.count, at \in {0, 2}, v \in 0 .. PageSize + 1}
  <2>11. slotsHit \subseteq PageNode
    <3>1. ASSUME NEW m \in slotsHit PROVE m \in PageNode
      <4>1. PICK i \in 1 .. node.count, at \in {0, 2}, v \in 0 .. PageSize + 1 :
              m = [node EXCEPT !.bytes = Copy(@, slotOffset(i) + at, PutUint16(v))]
        OBVIOUS
      <4>2. [node EXCEPT !.bytes = Copy(@, slotOffset(i) + at, PutUint16(v))] \in PageNode
        BY <1>5
      <4> QED BY <4>1, <4>2
    <3> HIDE DEF slotsHit
    <3> QED BY <3>1
  <2>12. Damaged(node) \subseteq PageNode
    BY <2>5, <2>6, <2>7, <2>8, <2>9, <2>10, <2>11 DEF Damaged
  <2> QED BY <1>1, <2>12, Zenon
<1> QED BY <1>1, <1>2, <1>6 DEF Inv, TypeOK, Sound

LEMMA NextKeepsInv ==
  ASSUME Inv, [Next]_vars
  PROVE  Inv'
<1>1. CASE Next
  BY <1>1, AppendKeepsInv, LinkKeepsInv, DamageKeepsInv, Zenon DEF Next
<1>2. CASE UNCHANGED vars
  BY <1>2 DEF vars, Inv, TypeOK, Sound
<1> QED BY <1>1, <1>2

\* A page is a page after any steps, and while it is undamaged its slots and
\* cells hold just what was appended (appendCell, SetLink of nodepage.go).
THEOREM NodeIsSound == Spec => []Inv
<1>1. Init => Inv
  BY InitKeepsInv
<1>2. Inv /\ [Next]_vars => Inv'
  BY NextKeepsInv
<1> QED BY <1>1, <1>2, PTL DEF Spec

-----------------------------------------------------------------------------
(* Reading back. *)

\* A cell that holds an entry gives back its key and its payload.
LEMMA CellReadsBack ==
  ASSUME NEW n \in PageNode, NEW i \in Nat, NEW e \in Entry,
         Len(e.tail) = suffixLen(n), Holds(n, i, e)
  PROVE  KeyRef(n, i) = e.key /\ Payload(n, i) = e.tail
<1>1. e.key \in Seq(Nat) /\ e.tail \in Seq(Nat)
  BY DEF Entry
<1>2. PICK k \in Nat, t \in Nat, at \in Int :
        k = Len(e.key) /\ t = Len(e.tail) /\ at = cellStart(n, i)
  <2>1. Len(e.key) \in Nat /\ Len(e.tail) \in Nat
    BY <1>1, LenProperties
  <2>2. cellStart(n, i) \in Int
    BY DEF Holds, PageNode
  <2> QED BY <2>1, <2>2, Zenon
<1>3. /\ cellEnd(n, i) = at + (k + t)
      /\ \A j \in 1 .. k : n.bytes[at + j - 1] = e.key[j]
      /\ \A j \in 1 .. t : n.bytes[at + k + j - 1] = e.tail[j]
  BY <1>2, Zenon DEF Holds
<1>4. PICK c : c = cell(n, i)
  OBVIOUS
<1>5. (at + (k + t)) - at = k + t
  OBVIOUS
<1>6. c = [j \in 1 .. k + t |-> n.bytes[at + j - 1]]
  BY <1>2, <1>3, <1>4, <1>5, Zenon DEF cell
<1>7. \A j \in 1 .. k : c[j] = e.key[j]
  <2>1. \A j \in 1 .. k : j \in 1 .. k + t
    OBVIOUS
  <2> QED BY <1>3, <1>6, <2>1
<1>8. \A j \in 1 .. t : c[k + j] = e.tail[j]
  <2>1. ASSUME NEW j \in 1 .. t PROVE c[k + j] = e.tail[j]
    <3>1. k + j \in 1 .. k + t /\ at + (k + j) - 1 = at + k + j - 1
      OBVIOUS
    <3> QED BY <1>3, <1>6, <3>1
  <2> QED BY <2>1
<1>9. /\ \A j \in 1 .. k : c[j] \in Nat
      /\ \A j \in 1 .. t : c[k + j] \in Nat
  <2>1. ASSUME NEW j \in 1 .. k PROVE c[j] \in Nat
    <3>1. e.key \in Seq(Nat) /\ j \in 1 .. Len(e.key)
      BY <1>1, <1>2
    <3>2. e.key[j] \in Nat
      BY <3>1, ElementOfSeq, Zenon
    <3> QED BY <1>7, <3>2
  <2>2. ASSUME NEW j \in 1 .. t PROVE c[k + j] \in Nat
    <3>1. e.tail \in Seq(Nat) /\ j \in 1 .. Len(e.tail)
      BY <1>1, <1>2
    <3>2. e.tail[j] \in Nat
      BY <3>1, ElementOfSeq, Zenon
    <3> QED BY <1>8, <3>2
  <2> QED BY <2>1, <2>2
<1>10. \A j \in 1 .. k + t : c[j] \in Nat
  <2>1. ASSUME NEW j \in 1 .. k + t, ~ (j \in 1 .. k) PROVE c[j] \in Nat
    <3>1. j - k \in 1 .. t /\ k + (j - k) = j
      BY <2>1
    <3> QED BY <1>9, <3>1
  <2> QED BY <1>9, <2>1
<1>11. Len(c) = k + t
  BY <1>6
<1>12. Len(c) - suffixLen(n) = k
  <2>1. (k + t) - t = k
    OBVIOUS
  <2> QED BY <1>2, <1>11, <2>1, Zenon
<1>13. SubSeq(c, 1, k) = e.key
  <2>1. /\ SubSeq(c, 1, k) \in Seq(Nat) /\ Len(SubSeq(c, 1, k)) = k
        /\ \A j \in 1 .. k : SubSeq(c, 1, k)[j] = c[j]
    BY <1>9, SubSeqProperties
  <2> QED BY <1>1, <1>2, <1>7, <2>1, SeqEqual
<1>14. SubSeq(c, k + 1, k + t) = e.tail
  <2>1. \A j \in k + 1 .. k + t : c[j] \in Nat
    BY <1>10
  <2>2. /\ SubSeq(c, k + 1, k + t) \in Seq(Nat) /\ Len(SubSeq(c, k + 1, k + t)) = t
        /\ \A j \in 1 .. (k + t) - (k + 1) + 1 : SubSeq(c, k + 1, k + t)[j] = c[k + 1 + j - 1]
    BY <2>1, SubSeqProperties
  <2>3. /\ (k + t) - (k + 1) + 1 = t
        /\ \A j \in 1 .. t : k + 1 + j - 1 = k + j
    OBVIOUS
  <2>4. \A j \in 1 .. t : SubSeq(c, k + 1, k + t)[j] = e.tail[j]
    BY <1>8, <2>2, <2>3
  <2> QED BY <1>1, <1>2, <2>2, <2>4, SeqEqual, ZenonT(40)
<1> QED BY <1>4, <1>11, <1>12, <1>13, <1>14, Zenon DEF KeyRef, Payload

\* What was appended to a node reads back (KeyRef, Payload, LeafRowID and Next of
\* nodepage.go): each key and payload, in the order of appending, and the link.
THEOREM AppendedReadsBack == Spec => []ReadsBack
<1>1. Inv => ReadsBack
  <2>1. SUFFICES ASSUME Inv, damage = 0
                 PROVE  /\ node.count = Len(entries) /\ node.link = linked
                        /\ \A i \in DOMAIN entries :
                             KeyRef(node, i) = entries[i].key /\ Payload(node, i) = entries[i].tail
    BY Zenon DEF ReadsBack
  <2>2. /\ node \in PageNode /\ entries \in Seq(Entry)
        /\ node.link = linked /\ LaidOut(node, entries)
    BY <2>1 DEF Inv, TypeOK, Sound
  <2>3. DOMAIN entries = 1 .. Len(entries) /\ Len(entries) \in Nat
    BY <2>2, LenProperties
  <2>4. ASSUME NEW i \in 1 .. Len(entries)
        PROVE  KeyRef(node, i) = entries[i].key /\ Payload(node, i) = entries[i].tail
    <3>1. Len(entries[i].tail) = suffixLen(node) /\ Holds(node, i, entries[i])
      BY <2>2, Zenon DEF LaidOut
    <3>2. i \in Nat /\ entries[i] \in Entry
      BY <2>2, <2>3, ElementOfSeq
    <3> QED BY <2>2, <3>1, <3>2, CellReadsBack, Zenon
  <2> QED BY <2>2, <2>3, <2>4, Zenon DEF LaidOut
<1> QED BY <1>1, NodeIsSound, PTL

\* A node that is filled with keys of one length takes MaxKeys of them and refuses
\* the next (Fits, EntrySize and MaxKeys of nodepage.go).
THEOREM NodeFillsToMaxKeys == Spec => []FillsToMaxKeys
<1>1. Inv => FillsToMaxKeys
  <2>1. SUFFICES ASSUME Inv, damage = 0, NEW key \in Keys,
                        \A i \in DOMAIN entries : Len(entries[i].key) = Len(key)
                 PROVE  Fits(node, Len(key)) <=> Len(entries) < MaxKeys(node.kind, Len(key))
    BY DEF FillsToMaxKeys
  <2>2. /\ node \in PageNode /\ entries \in Seq(Entry)
        /\ LaidOut(node, entries) /\ Even(node, entries)
    BY <2>1 DEF Inv, TypeOK, Sound
  <2>3. PICK c \in Nat, k \in Nat, t \in Nat \ {0}, first \in Nat, end \in Nat :
          /\ c = Len(entries) /\ k = Len(key) /\ t = suffixLen(node)
          /\ first = node.freeStart /\ end = node.freeEnd
    <3>1. Len(entries) \in Nat /\ Len(key) \in Nat
      BY <2>2, LenProperties
    <3>2. node.freeStart \in Nat /\ node.freeEnd \in Nat /\ suffixLen(node) \in Nat \ {0}
      BY <2>2, SuffixType DEF PageNode
    <3> QED BY <3>1, <3>2, Zenon
  <2>4. PICK e \in Nat \ {0}, all \in Nat : e = SlotSize + k + t /\ all = EntryArea
    BY DEF EntryArea
  <2>5. first = SlotArrayStart + c * 4
    <3>1. first = slotOffset(c + 1)
      BY <2>2, <2>3, Zenon DEF LaidOut
    <3>2. (c + 1) - 1 = c
      OBVIOUS
    <3> QED BY <3>1, <3>2, Zenon DEF slotOffset
  <2>6. end = PageSize - c * (k + t)
    <3>1. \A i \in 1 .. Len(entries) : Len(entries[i].key) = k
      BY <2>1, <2>2, <2>3, LenProperties
    <3> QED BY <2>2, <2>3, <3>1, Zenon DEF Even
  <2>7. end - first = all - c * e
    <3>1. c * e = c * 4 + c * (k + t)
      BY <2>4
    <3>2. PICK x \in Nat, y \in Nat : x = c * 4 /\ y = c * (k + t)
      OBVIOUS
    <3>3. (PageSize - y) - (SlotArrayStart + x) = (PageSize - SlotArrayStart) - (x + y)
      OBVIOUS
    <3> QED BY <2>4, <2>5, <2>6, <3>1, <3>2, <3>3, Zenon DEF EntryArea
  <2>8. Fits(node, Len(key)) <=> e <= all - c * e
    BY <2>3, <2>4, <2>7, Zenon DEF Fits, EntrySize, FreeSpace
  <2>9. e <= all - c * e <=> (c + 1) * e <= all
    <3>1. (c + 1) * e = c * e + e /\ c * e \in Nat
      BY Product
    <3>2. PICK x \in Nat : x = c * e
      BY <3>1
    <3>3. e <= all - x <=> x + e <= all
      OBVIOUS
    <3> QED BY <3>1, <3>2, <3>3, Zenon
  <2>10. (c + 1) * e <= all <=> c < all \div e
    BY WholeParts
  <2>11. MaxKeys(node.kind, Len(key)) = all \div e
    BY <2>3, <2>4, Zenon DEF MaxKeys, suffixLen, Leaf
  <2> QED BY <2>3, <2>8, <2>9, <2>10, <2>11, Zenon
<1> QED BY <1>1, NodeIsSound, PTL

-----------------------------------------------------------------------------
(* The order of keys. *)

LEMMA LessMeans ==
  ASSUME NEW a \in Seq(Nat), NEW b \in Seq(Nat)
  PROVE  Less(a, b) <=>
           \/ \E i \in 1 .. Len(a) : /\ i <= Len(b) /\ a[i] < b[i]
                                     /\ \A j \in 1 .. i - 1 : a[j] = b[j]
           \/ Len(a) < Len(b) /\ \A i \in 1 .. Len(a) : a[i] = b[i]
<1>1. PICK la \in Nat, lb \in Nat : /\ la = Len(a) /\ lb = Len(b)
                                    /\ DOMAIN a = 1 .. la /\ DOMAIN b = 1 .. lb
  BY LenProperties
<1>2. \A i : i \in DOMAIN a \cap DOMAIN b <=> i \in 1 .. la /\ i <= lb
  BY <1>1
<1>3. ASSUME la < lb PROVE IsPrefix(a, b) <=> \A i \in 1 .. la : a[i] = b[i]
  <2>1. /\ \A i \in 1 .. la : a[i] \in Nat
        /\ \A i \in 1 .. la : b[i] \in Nat
    BY <1>1, <1>3, ElementOfSeq
  <2>2. /\ SubSeq(a, 1, la) \in Seq(Nat) /\ Len(SubSeq(a, 1, la)) = la
        /\ \A i \in 1 .. la : SubSeq(a, 1, la)[i] = a[i]
        /\ SubSeq(b, 1, la) \in Seq(Nat) /\ Len(SubSeq(b, 1, la)) = la
        /\ \A i \in 1 .. la : SubSeq(b, 1, la)[i] = b[i]
    <3>1. 1 \in Int /\ la \in Int /\ (IF 1 <= la THEN la - 1 + 1 ELSE 0) = la /\ la - 1 + 1 = la
      OBVIOUS
    <3>2. \A i \in 1 .. la : 1 + i - 1 = i
      OBVIOUS
    <3>3. /\ SubSeq(a, 1, la) \in Seq(Nat) /\ Len(SubSeq(a, 1, la)) = la
          /\ \A i \in 1 .. la : SubSeq(a, 1, la)[i] = a[i]
      BY <2>1, <3>1, <3>2, SubSeqProperties
    <3>4. /\ SubSeq(b, 1, la) \in Seq(Nat) /\ Len(SubSeq(b, 1, la)) = la
          /\ \A i \in 1 .. la : SubSeq(b, 1, la)[i] = b[i]
      BY <2>1, <3>1, <3>2, SubSeqProperties
    <3> QED BY <3>3, <3>4, Zenon
  <2>3. SubSeq(a, 1, la) = SubSeq(b, 1, la) <=> \A i \in 1 .. la : a[i] = b[i]
    <3>1. ASSUME \A i \in 1 .. la : a[i] = b[i] PROVE SubSeq(a, 1, la) = SubSeq(b, 1, la)
      <4>1. \A i \in 1 .. Len(SubSeq(a, 1, la)) : SubSeq(a, 1, la)[i] = SubSeq(b, 1, la)[i]
        BY <2>2, <3>1
      <4>2. Len(SubSeq(a, 1, la)) = Len(SubSeq(b, 1, la))
        BY <2>2, Zenon
      <4> QED BY <2>2, <4>1, <4>2, SeqEqual, Zenon
    <3>2. ASSUME SubSeq(a, 1, la) = SubSeq(b, 1, la), NEW i \in 1 .. la PROVE a[i] = b[i]
      BY <2>2, <3>2, Zenon
    <3> QED BY <3>1, <3>2
  <2>4. la <= lb
    BY <1>3
  <2> QED BY <1>1, <2>3, <2>4, Zenon DEF IsPrefix
<1>4. Less(a, b) <=>
        \/ \E i \in 1 .. la : /\ i <= lb /\ a[i] < b[i]
                              /\ \A j \in 1 .. i - 1 : a[j] = b[j]
        \/ la < lb /\ IsPrefix(a, b)
  BY <1>1, <1>2, Zenon DEF Less
<1> QED BY <1>1, <1>3, <1>4, Zenon

LEMMA LessIrreflexive ==
  ASSUME NEW a \in Seq(Nat)
  PROVE  ~ Less(a, a)
<1>1. Len(a) \in Nat /\ \A i \in 1 .. Len(a) : a[i] \in Nat
  BY LenProperties, ElementOfSeq
<1>2. ~ (Len(a) < Len(a)) /\ \A i \in 1 .. Len(a) : ~ (a[i] < a[i])
  BY <1>1
<1> QED BY <1>2, LessMeans, Zenon

LEMMA LessTransitive ==
  ASSUME NEW a \in Seq(Nat), NEW b \in Seq(Nat), NEW c \in Seq(Nat), Less(a, b), Less(b, c)
  PROVE  Less(a, c)
<1>1. PICK la \in Nat, lb \in Nat, lc \in Nat : la = Len(a) /\ lb = Len(b) /\ lc = Len(c)
  BY LenProperties
<1>2. /\ \A i \in 1 .. la : a[i] \in Nat
      /\ \A i \in 1 .. lb : b[i] \in Nat
      /\ \A i \in 1 .. lc : c[i] \in Nat
  BY <1>1, ElementOfSeq
<1> DEFINE differ(s, t, i, ls, lt) == /\ i \in 1 .. ls /\ i <= lt /\ s[i] < t[i]
                                      /\ \A j \in 1 .. i - 1 : s[j] = t[j]
           prefix(s, t, ls, lt)    == ls < lt /\ \A i \in 1 .. ls : s[i] = t[i]
<1>3. (\E i : differ(a, b, i, la, lb)) \/ prefix(a, b, la, lb)
  <2>1. \/ \E i \in 1 .. Len(a) : i <= Len(b) /\ a[i] < b[i] /\ \A j \in 1 .. i - 1 : a[j] = b[j]
        \/ Len(a) < Len(b) /\ \A i \in 1 .. Len(a) : a[i] = b[i]
    BY LessMeans
  <2> QED BY <1>1, <2>1, Zenon
<1>4. (\E i : differ(b, c, i, lb, lc)) \/ prefix(b, c, lb, lc)
  <2>1. \/ \E i \in 1 .. Len(b) : i <= Len(c) /\ b[i] < c[i] /\ \A j \in 1 .. i - 1 : b[j] = c[j]
        \/ Len(b) < Len(c) /\ \A i \in 1 .. Len(b) : b[i] = c[i]
    BY LessMeans
  <2> QED BY <1>1, <2>1, Zenon
<1>5. ASSUME (\E i : differ(a, c, i, la, lc)) \/ prefix(a, c, la, lc) PROVE Less(a, c)
  BY <1>1, <1>5, LessMeans, Zenon
<1>6. ASSUME NEW i, NEW k, differ(a, b, i, la, lb), differ(b, c, k, lb, lc)
      PROVE  \E j : differ(a, c, j, la, lc)
  <2>1. CASE i <= k
    <3>1. differ(a, c, i, la, lc)
      <4>1. i < k \/ i = k
        BY <1>6, <2>1
      <4>2. i \in 1 .. la /\ i \in 1 .. lb /\ i \in 1 .. lc
        BY <1>6, <2>1
      <4>3. a[i] < c[i]
        BY <1>2, <1>6, <4>1, <4>2
      <4>4. \A j \in 1 .. i - 1 : j \in 1 .. k - 1
        BY <1>6, <2>1
      <4>5. \A j \in 1 .. i - 1 : a[j] = c[j]
        BY <1>6, <4>4
      <4>6. i <= lc
        BY <4>2
      <4> QED BY <4>2, <4>3, <4>5, <4>6, Zenon
    <3> QED BY <3>1, Zenon
  <2>2. CASE k < i
    <3>1. differ(a, c, k, la, lc)
      <4>1. k \in 1 .. la /\ k \in 1 .. i - 1
        BY <1>6, <2>2
      <4>2. \A j \in 1 .. k - 1 : j \in 1 .. i - 1
        BY <1>6, <2>2
      <4> QED BY <1>6, <4>1, <4>2
    <3> QED BY <3>1, Zenon
  <2> QED BY <1>6, <2>1, <2>2
<1>7. ASSUME NEW i, differ(a, b, i, la, lb), prefix(b, c, lb, lc)
      PROVE  \E j : differ(a, c, j, la, lc)
  <2>1. i \in 1 .. lb /\ i <= lc /\ \A j \in 1 .. i - 1 : j \in 1 .. lb
    BY <1>7
  <2>2. b[i] = c[i] /\ a[i] < b[i] /\ \A j \in 1 .. i - 1 : a[j] = c[j]
    BY <1>7, <2>1, Zenon
  <2>3. differ(a, c, i, la, lc)
    BY <1>7, <2>1, <2>2, Zenon
  <2> QED BY <2>3, Zenon
<1>8. ASSUME NEW k, prefix(a, b, la, lb), differ(b, c, k, lb, lc)
      PROVE  (\E j : differ(a, c, j, la, lc)) \/ prefix(a, c, la, lc)
  <2>1. CASE k <= la
    <3>1. k \in 1 .. la /\ \A j \in 1 .. k - 1 : j \in 1 .. la
      BY <1>8, <2>1
    <3>2. a[k] = b[k] /\ b[k] < c[k] /\ k <= lc
      BY <1>8, <3>1, Zenon
    <3>3. \A j \in 1 .. k - 1 : a[j] = c[j]
      BY <1>8, <3>1, Zenon
    <3>4. differ(a, c, k, la, lc)
      BY <3>1, <3>2, <3>3, Zenon
    <3> QED BY <3>4, Zenon
  <2>2. CASE la < k
    <3>1. la < lc /\ \A j \in 1 .. la : j \in 1 .. k - 1
      BY <1>8, <2>2
    <3> QED BY <1>8, <3>1
  <2> QED BY <1>8, <2>1, <2>2
<1>9. ASSUME prefix(a, b, la, lb), prefix(b, c, lb, lc) PROVE prefix(a, c, la, lc)
  <2>1. la < lc /\ \A j \in 1 .. la : j \in 1 .. lb
    BY <1>9
  <2> QED BY <1>9, <2>1
<1> QED BY <1>3, <1>4, <1>5, <1>6, <1>7, <1>8, <1>9, Zenon

LEMMA LessTotal ==
  ASSUME NEW a \in Seq(Nat), NEW b \in Seq(Nat), a # b
  PROVE  Less(a, b) \/ Less(b, a)
<1>1. PICK la \in Nat, lb \in Nat : la = Len(a) /\ lb = Len(b)
  BY LenProperties
<1>2. /\ \A i \in 1 .. la : a[i] \in Nat
      /\ \A i \in 1 .. lb : b[i] \in Nat
  BY <1>1, ElementOfSeq
<1> DEFINE T == {i \in 1 .. la : i <= lb /\ a[i] # b[i]}
<1>3. CASE T # {}
  <2>1. PICK i \in T : \A j \in T : i <= j
    <3>1. T \in SUBSET Nat
      OBVIOUS
    <3> QED BY <1>3, <3>1, LeastNumber, Zenon
  <2>2. i \in 1 .. la /\ i \in 1 .. lb /\ i <= lb /\ i <= la /\ (a[i] < b[i] \/ b[i] < a[i])
    BY <1>2, <2>1
  <2>3. \A j \in 1 .. i - 1 : a[j] = b[j]
    <3>1. ASSUME NEW j \in 1 .. i - 1, a[j] # b[j] PROVE FALSE
      <4>1. j \in T
        BY <2>2, <3>1
      <4> QED BY <2>1, <2>2, <4>1
    <3> QED BY <3>1
  <2>4. \A j \in 1 .. i - 1 : b[j] = a[j]
    BY <2>3
  <2> HIDE DEF T
  <2> QED BY <1>1, <2>2, <2>3, <2>4, LessMeans, Zenon
<1>4. CASE T = {}
  <2>1. \A i \in 1 .. la : i <= lb => a[i] = b[i]
    BY <1>4
  <2>2. CASE la < lb
    <3>1. \A i \in 1 .. la : a[i] = b[i]
      BY <2>1, <2>2
    <3> QED BY <1>1, <2>2, <3>1, LessMeans, Zenon
  <2>3. CASE lb < la
    <3>1. \A i \in 1 .. lb : b[i] = a[i]
      BY <2>1, <2>3
    <3> QED BY <1>1, <2>3, <3>1, LessMeans, Zenon
  <2>4. CASE la = lb
    <3>1. \A i \in 1 .. la : a[i] = b[i]
      BY <2>1, <2>4
    <3> QED BY <1>1, <2>4, <3>1, SeqEqual
  <2> QED BY <2>2, <2>3, <2>4
<1> QED BY <1>3, <1>4

-----------------------------------------------------------------------------
(* Lookups. *)

\* Keys each below the next are all in order.
LEMMA Ascending ==
  ASSUME NEW c \in Nat, NEW K \in [1 .. c -> Seq(Nat)],
         \A i \in 2 .. c : Less(K[i - 1], K[i])
  PROVE  \A i, j \in 1 .. c : i < j => Less(K[i], K[j])
<1> DEFINE T == {j \in 1 .. c : \E i \in 1 .. c : i < j /\ ~ Less(K[i], K[j])}
<1>1. ASSUME T # {} PROVE FALSE
  <2>1. PICK j \in T : \A k \in T : j <= k
    <3>1. T \in SUBSET Nat
      OBVIOUS
    <3> QED BY <1>1, <3>1, LeastNumber, Zenon
  <2>2. PICK i \in 1 .. c : i < j /\ ~ Less(K[i], K[j])
    OBVIOUS
  <2>3. j \in 2 .. c /\ j - 1 \in 1 .. c /\ i <= j - 1 /\ j - 1 < j
    BY <2>2
  <2>4. Less(K[j - 1], K[j])
    BY <2>3
  <2>5. CASE i = j - 1
    BY <2>2, <2>4, <2>5
  <2>6. CASE i < j - 1
    <3>1. ~ (j - 1 \in T)
      BY <2>1, <2>3
    <3>2. Less(K[i], K[j - 1])
      BY <2>3, <2>6, <3>1
    <3>3. K[i] \in Seq(Nat) /\ K[j - 1] \in Seq(Nat) /\ K[j] \in Seq(Nat)
      BY <2>3
    <3> QED BY <2>2, <2>4, <3>2, <3>3, LessTransitive, Zenon
  <2> QED BY <2>3, <2>5, <2>6
<1>2. ASSUME NEW i \in 1 .. c, NEW j \in 1 .. c, i < j, ~ Less(K[i], K[j]) PROVE j \in T
  BY <1>2
<1> QED BY <1>1, <1>2

\* The first place of a set that goes up to the last: those before it are not in it.
LEMMA FirstPlace ==
  ASSUME NEW c \in Nat, NEW S \in SUBSET (1 .. c),
         \A i \in S : \A j \in 1 .. c : i < j => j \in S
  PROVE  /\ Min(S \cup {c + 1}) \in 1 .. c + 1
         /\ \A i \in 1 .. c : i \in S <=> Min(S \cup {c + 1}) <= i
<1> DEFINE T == S \cup {c + 1}
<1>1. T \in SUBSET Nat /\ T # {} /\ c + 1 \in T
  OBVIOUS
<1>2. \E n \in T : \A m \in T : n <= m
  BY <1>1, LeastNumber, Zenon
<1>3. Min(T) \in T /\ \A m \in T : Min(T) <= m
  BY <1>2, Zenon DEF Min
<1>4. PICK first : first = Min(T)
  OBVIOUS
<1>5. first \in 1 .. c + 1
  <2>1. first \in S \/ first = c + 1
    BY <1>3, <1>4, Zenon
  <2>2. c + 1 \in 1 .. c + 1 /\ \A x \in S : x \in 1 .. c + 1
    OBVIOUS
  <2> QED BY <2>1, <2>2, Zenon
<1>6. ASSUME NEW i \in 1 .. c, first <= i PROVE i \in S
  <2>1. first \in S
    BY <1>3, <1>4, <1>6
  <2> QED BY <1>5, <1>6, <2>1
<1>7. \A i \in S : first <= i
  BY <1>3, <1>4
<1> QED BY <1>4, <1>5, <1>6, <1>7

\* Keys in order are as many as their places.
LEMMA KeysCounted ==
  ASSUME NEW c \in Nat, NEW K \in [1 .. c -> Seq(Nat)],
         \A i, j \in 1 .. c : i < j => Less(K[i], K[j]),
         NEW first \in 1 .. c + 1
  PROVE  Cardinality({K[i] : i \in 1 .. first - 1}) = first - 1
<1>1. PICK n \in Nat : n = first - 1
  OBVIOUS
<1>2. \A i \in 1 .. n : i \in 1 .. c
  BY <1>1
<1> DEFINE Img == {K[i] : i \in 1 .. n}
           F   == [i \in 1 .. n |-> K[i]]
<1>3. ASSUME NEW i \in 1 .. n, NEW j \in 1 .. n, F[i] = F[j] PROVE i = j
  <2>1. K[i] = K[j] /\ K[i] \in Seq(Nat)
    BY <1>2, <1>3
  <2>2. ~ Less(K[i], K[j]) /\ ~ Less(K[j], K[i])
    BY <2>1, LessIrreflexive, Zenon
  <2>3. ~ (i < j) /\ ~ (j < i)
    BY <1>2, <2>2, Zenon
  <2> QED BY <2>3
<1>4. F \in [1 .. n -> Img] /\ \A t \in Img : \E i \in 1 .. n : F[i] = t
  OBVIOUS
<1>5. F \in Bijection(1 .. n, Img)
  <2> HIDE DEF F, Img
  <2> QED BY <1>3, <1>4, Fun_IsBij
<1>6. ExistsBijection(1 .. n, Img)
  BY <1>5, Zenon DEF ExistsBijection
<1>7. Cardinality(Img) = n
  <2> HIDE DEF Img
  <2> QED BY <1>6, FS_CountingElements, Zenon
<1> QED BY <1>1, <1>7, Zenon

\* The keys before the first place of such a set are as many as there are places.
LEMMA PlacesCounted ==
  ASSUME NEW c \in Nat, NEW K \in [1 .. c -> Seq(Nat)],
         \A i, j \in 1 .. c : i < j => Less(K[i], K[j]),
         NEW S \in SUBSET (1 .. c),
         \A i \in S : \A j \in 1 .. c : i < j => j \in S
  PROVE  Cardinality({K[i] : i \in (1 .. c) \ S}) = Min(S \cup {c + 1}) - 1
<1>1. PICK first \in 1 .. c + 1 : /\ first = Min(S \cup {c + 1})
                                  /\ \A i \in 1 .. c : i \in S <=> first <= i
  <2>1. /\ Min(S \cup {c + 1}) \in 1 .. c + 1
        /\ \A i \in 1 .. c : i \in S <=> Min(S \cup {c + 1}) <= i
    BY FirstPlace, Zenon
  <2> QED BY <2>1, Zenon
<1>2. (1 .. c) \ S = 1 .. first - 1
  <2>1. \A i \in 1 .. c : i \in S <=> first <= i
    BY <1>1, Zenon
  <2>2. \A i \in Int : i \in 1 .. first - 1 <=> i \in 1 .. c /\ ~ (first <= i)
    OBVIOUS
  <2>3. \A i \in 1 .. c : i \in Int
    OBVIOUS
  <2>4. \A i \in 1 .. first - 1 : i \in Int
    OBVIOUS
  <2>5. ASSUME NEW i PROVE i \in (1 .. c) \ S <=> i \in 1 .. first - 1
    BY <2>1, <2>2, <2>3, <2>4, Zenon
  <2> QED BY <2>5, Zenon
<1>3. Cardinality({K[i] : i \in 1 .. first - 1}) = first - 1
  BY KeysCounted, ZenonT(40)
<1> QED BY <1>1, <1>2, <1>3, Zenon

\* On a page that Validate accepts the slots and cells lie in the page.
LEMMA ValidCells ==
  ASSUME NEW n \in PageNode, Validate(n), NEW i \in 1 .. n.count
  PROVE  /\ cellStart(n, i) \in Nat /\ cellEnd(n, i) \in Nat
         /\ SlotArrayStart <= cellStart(n, i) /\ cellEnd(n, i) <= PageSize
         /\ cellStart(n, i) < cellEnd(n, i)
         /\ suffixLen(n) + 1 <= cellEnd(n, i) - cellStart(n, i)
<1>1. /\ n.freeStart = SlotArrayStart + n.count * SlotSize
      /\ n.freeStart <= n.freeEnd /\ n.freeEnd <= PageSize
      /\ n.count \in Nat /\ n.freeEnd \in Nat /\ n.bytes \in [Addresses -> Nat]
  BY DEF Validate, PageNode
<1>2. CellInPage(n, i)
  <2>1. n.count # 0
    BY <1>1
  <2> QED BY <2>1, ZenonT(40) DEF Validate
<1>3. PICK slot \in Nat : slot = slotOffset(i) /\ slot >= SlotArrayStart /\ slot + 3 < PageSize
  <2>1. PICK c \in Nat, end \in Nat, first \in Nat :
          c = n.count /\ end = n.freeEnd /\ first = n.freeStart
    BY <1>1
  <2>2. first = SlotArrayStart + c * 4 /\ first <= end /\ end <= PageSize /\ i \in 1 .. c
    BY <1>1, <2>1, Zenon
  <2>3. (i - 1) * 4 >= 0 /\ (i - 1) * 4 + 4 <= c * 4
    BY <2>2
  <2> QED BY <2>2, <2>3 DEF slotOffset
<1>4. /\ slot \in Addresses /\ slot + 1 \in Addresses /\ slot + 2 \in Addresses
      /\ slot + 2 + 1 \in Addresses
  BY <1>3 DEF Addresses
<1>5. cellStart(n, i) \in Nat /\ cellEnd(n, i) \in Nat
  <2>1. /\ n.bytes[slot] \in Nat /\ n.bytes[slot + 1] \in Nat
        /\ n.bytes[slot + 2] \in Nat /\ n.bytes[slot + 2 + 1] \in Nat
    BY <1>1, <1>4, Zenon
  <2>2. uint16(n.bytes, slot) \in Nat /\ uint16(n.bytes, slot + 2) \in Nat
    <3>1. \A x, y \in Nat : x * 256 + y \in Nat
      OBVIOUS
    <3> QED BY <2>1, <3>1, ZenonT(40) DEF uint16
  <2>3. PICK a \in Nat, b \in Nat : a = uint16(n.bytes, slot) /\ b = uint16(n.bytes, slot + 2)
    BY <2>2
  <2>4. cellStart(n, i) = a /\ cellEnd(n, i) = a + b
    BY <1>3, <2>3, Zenon DEF cellStart, cellEnd
  <2> QED BY <2>4
<1>6. PICK lo \in Nat, hi \in Nat, t \in Nat :
        lo = cellStart(n, i) /\ hi = cellEnd(n, i) /\ t = suffixLen(n)
  BY <1>5, SuffixType
<1>7. /\ SlotArrayStart <= lo /\ hi <= PageSize /\ lo < hi /\ t + 1 <= hi - lo
  <2>1. n.freeStart <= lo /\ hi <= PageSize /\ lo < hi /\ t + 1 <= hi - lo
    BY <1>2, <1>6 DEF CellInPage
  <2>2. SlotArrayStart <= n.freeStart
    BY <1>1
  <2> QED BY <1>1, <2>1, <2>2
<1> QED BY <1>5, <1>6, <1>7, Zenon

\* So each entry has a key.
LEMMA ValidKeys ==
  ASSUME NEW n \in PageNode, Validate(n), NEW i \in 1 .. n.count
  PROVE  KeyRef(n, i) \in Seq(Nat)
<1>5. /\ cellStart(n, i) \in Nat /\ cellEnd(n, i) \in Nat
      /\ SlotArrayStart <= cellStart(n, i) /\ cellEnd(n, i) <= PageSize
      /\ cellStart(n, i) < cellEnd(n, i)
  BY ValidCells, Zenon
<1>6. PICK lo \in Nat, hi \in Nat, t \in Nat :
        lo = cellStart(n, i) /\ hi = cellEnd(n, i) /\ t = suffixLen(n)
  BY <1>5, SuffixType
<1>c. PICK c : c = cell(n, i)
  OBVIOUS
<1>7. SlotArrayStart <= lo /\ hi <= PageSize /\ lo < hi /\ n.bytes \in [Addresses -> Nat]
  BY <1>5, <1>6 DEF PageNode
<1>8. c = [j \in 1 .. hi - lo |-> n.bytes[lo + j - 1]]
  BY <1>6, <1>c, Zenon DEF cell
<1>9. Len(c) = hi - lo /\ \A j \in 1 .. hi - lo : c[j] \in Nat
  <2>1. hi - lo \in Nat
    BY <1>7
  <2>2. ASSUME NEW j \in 1 .. hi - lo PROVE n.bytes[lo + j - 1] \in Nat
    <3>1. lo + j - 1 \in Addresses
      BY <1>7 DEF Addresses
    <3> QED BY <1>7, <3>1
  <2>3. PICK s \in Nat : s = hi - lo
    BY <2>1
  <2>4. c = [j \in 1 .. s |-> n.bytes[lo + j - 1]]
    BY <1>8, <2>3, Zenon
  <2>5. Len(c) = s
    BY <2>4
  <2>6. ASSUME NEW j \in 1 .. s PROVE c[j] \in Nat
    BY <2>2, <2>3, <2>4, Zenon
  <2> QED BY <2>3, <2>5, <2>6, Zenon
<1>10. PICK k \in Int : k = (hi - lo) - t /\ k <= hi - lo
  OBVIOUS
<1>11. \A j \in 1 .. k : c[j] \in Nat
  BY <1>9, <1>10
<1>12. SubSeq(c, 1, k) \in Seq(Nat)
  BY <1>11, SubSeqProperties
<1> QED BY <1>6, <1>c, <1>9, <1>10, <1>12, Zenon DEF KeyRef

\* On a page that Validate accepts, damaged or not, Search and ChildFor of
\* nodepage.go find the key that is there and count the keys before it.
THEOREM LookupsAreRight == Spec => []LookupsAgree
<1>1. Inv => LookupsAgree
  <2>1. SUFFICES ASSUME Inv, Validate(node), NEW key \in Keys
                 PROVE  /\ found(node, key) <=> key \in KeysOf
                        /\ Search(node, key) = 1 + Cardinality({k \in KeysOf : Less(k, key)})
                        /\ ChildFor(node, key) = Cardinality({k \in KeysOf : ~ Less(key, k)})
    BY DEF LookupsAgree
  <2>2. node \in PageNode /\ key \in Seq(Nat)
    <3>1. 0 .. 255 \subseteq Nat /\ key \in Seq(0 .. 255)
      OBVIOUS
    <3> QED BY <2>1, <3>1, SeqMonotonic DEF Inv, TypeOK
  <2>3. PICK c \in Nat : c = node.count
    BY <2>2 DEF PageNode
  <2>4. PICK K : K = [i \in 1 .. c |-> KeyRef(node, i)]
    OBVIOUS
  <2>5. K \in [1 .. c -> Seq(Nat)]
    BY <2>1, <2>2, <2>3, <2>4, ValidKeys
  <2>6. /\ KeysOf = {K[i] : i \in 1 .. c}
        /\ \A i \in 1 .. c : K[i] = KeyRef(node, i)
    BY <2>3, <2>4 DEF KeysOf
  <2>7. \A i \in 2 .. c : Less(K[i - 1], K[i])
    <3>1. ASSUME NEW i \in 2 .. c PROVE Less(K[i - 1], K[i])
      <4>1. c # 0 /\ i - 1 \in 1 .. c /\ i \in 1 .. c
        OBVIOUS
      <4>2. Less(KeyRef(node, i - 1), KeyRef(node, i))
        BY <2>1, <2>3, <4>1, ZenonT(40) DEF Validate
      <4> QED BY <2>6, <4>1, <4>2, Zenon
    <3> QED BY <3>1
  <2>8. \A i, j \in 1 .. c : i < j => Less(K[i], K[j])
    BY <2>5, <2>7, Ascending, Zenon
  <2> DEFINE NotLess == {i \in 1 .. c : ~ Less(K[i], key)}
             Above   == {i \in 1 .. c : Less(key, K[i])}
  <2>9. Search(node, key) = Min(NotLess \cup {c + 1})
    <3>1. NotLess = {i \in 1 .. node.count : ~ Less(KeyRef(node, i), key)}
      BY <2>3, <2>6
    <3> HIDE DEF NotLess
    <3> QED BY <2>3, <3>1 DEF Search, First
  <2>10. ChildFor(node, key) = Min(Above \cup {c + 1}) - 1
    <3>1. Above = {i \in 1 .. node.count : Less(key, KeyRef(node, i))}
      BY <2>3, <2>6
    <3> HIDE DEF Above
    <3> QED BY <2>3, <3>1 DEF ChildFor, First
  <2>11. NotLess \in SUBSET (1 .. c) /\ \A i \in NotLess : \A j \in 1 .. c : i < j => j \in NotLess
    <3>1. ASSUME NEW i \in 1 .. c, ~ Less(K[i], key), NEW j \in 1 .. c, i < j, Less(K[j], key)
          PROVE  FALSE
      <4>1. Less(K[i], K[j]) /\ K[i] \in Seq(Nat) /\ K[j] \in Seq(Nat)
        BY <2>5, <2>8, <3>1
      <4> QED BY <2>2, <3>1, <4>1, LessTransitive, Zenon
    <3> QED BY <3>1
  <2>12. Above \in SUBSET (1 .. c) /\ \A i \in Above : \A j \in 1 .. c : i < j => j \in Above
    <3>1. ASSUME NEW i \in 1 .. c, Less(key, K[i]), NEW j \in 1 .. c, i < j
          PROVE  Less(key, K[j])
      <4>1. Less(K[i], K[j]) /\ K[i] \in Seq(Nat) /\ K[j] \in Seq(Nat)
        BY <2>5, <2>8, <3>1
      <4> QED BY <2>2, <3>1, <4>1, LessTransitive, Zenon
    <3> QED BY <3>1
  <2>13. /\ {k \in KeysOf : Less(k, key)} = {K[i] : i \in (1 .. c) \ NotLess}
         /\ {k \in KeysOf : ~ Less(key, k)} = {K[i] : i \in (1 .. c) \ Above}
    <3> HIDE <2>8
    <3> QED BY <2>6
  <2>14. /\ \A i \in 1 .. c : i \in NotLess <=> ~ Less(K[i], key)
         /\ \A i \in 1 .. c : i \in Above <=> Less(key, K[i])
    OBVIOUS
  <2> HIDE DEF NotLess, Above
  <2>15. /\ Cardinality({K[i] : i \in (1 .. c) \ NotLess}) = Min(NotLess \cup {c + 1}) - 1
         /\ Cardinality({K[i] : i \in (1 .. c) \ Above}) = Min(Above \cup {c + 1}) - 1
    BY <2>5, <2>8, <2>11, <2>12, PlacesCounted, ZenonT(40)
  <2>16. PICK first \in 1 .. c + 1 : /\ first = Min(NotLess \cup {c + 1})
                                     /\ \A i \in 1 .. c : i \in NotLess <=> first <= i
    <3>1. /\ Min(NotLess \cup {c + 1}) \in 1 .. c + 1
          /\ \A i \in 1 .. c : i \in NotLess <=> Min(NotLess \cup {c + 1}) <= i
      BY <2>11, FirstPlace, Zenon
    <3> QED BY <3>1, Zenon
  <2>17. first = 1 + (first - 1)
    OBVIOUS
  <2>18. /\ Search(node, key) = 1 + Cardinality({k \in KeysOf : Less(k, key)})
         /\ ChildFor(node, key) = Cardinality({k \in KeysOf : ~ Less(key, k)})
    BY <2>9, <2>10, <2>13, <2>15, <2>16, <2>17, Zenon
  <2>19. found(node, key) <=> first <= c /\ K[first] = key
    <3>1. first <= c => first \in 1 .. c
      OBVIOUS
    <3> QED BY <2>3, <2>6, <2>9, <2>16, <3>1, ZenonT(40) DEF found
  <2>20. ASSUME key \in KeysOf PROVE first <= c /\ K[first] = key
    <3>1. PICK j \in 1 .. c : K[j] = key
      BY <2>6, <2>20
    <3>2. j \in NotLess
      BY <2>2, <2>14, <3>1, LessIrreflexive, Zenon
    <3>3. first <= j /\ first \in 1 .. c
      <4>1. first <= j
        BY <2>16, <3>2, Zenon
      <4> QED BY <4>1
    <3>4. ~ Less(K[first], K[j])
      <4>1. first <= first
        OBVIOUS
      <4> QED BY <2>14, <2>16, <3>1, <3>3, <4>1, Zenon
    <3>5. ~ (first < j)
      BY <2>8, <3>3, <3>4, Zenon
    <3> QED BY <3>1, <3>3, <3>5
  <2>21. ASSUME first <= c, K[first] = key PROVE key \in KeysOf
    <3>1. first \in 1 .. c
      BY <2>21
    <3> QED BY <2>6, <2>21, <3>1
  <2> QED BY <2>18, <2>19, <2>20, <2>21, Zenon
<1> QED BY <1>1, NodeIsSound, PTL

-----------------------------------------------------------------------------
(* Cells that tile the page. *)

\* Intervals of which each starts where the one before it ends do not overlap.
LEMMA TilesApart ==
  ASSUME NEW c \in Nat, NEW lo \in [1 .. c -> Int], NEW hi \in [1 .. c -> Int],
         \A i \in 1 .. c : lo[i] < hi[i],
         \A i \in 2 .. c : hi[i - 1] = lo[i]
  PROVE  \A i, j \in 1 .. c : i < j => hi[i] <= lo[j]
<1> DEFINE T == {j \in 1 .. c : \E i \in 1 .. c : i < j /\ ~ (hi[i] <= lo[j])}
<1>1. ASSUME T # {} PROVE FALSE
  <2>1. PICK j \in T : \A k \in T : j <= k
    <3>1. T \in SUBSET Nat
      OBVIOUS
    <3> QED BY <1>1, <3>1, LeastNumber, ZenonT(40)
  <2>2. PICK i \in 1 .. c : i < j /\ ~ (hi[i] <= lo[j])
    OBVIOUS
  <2>3. j \in 2 .. c /\ j - 1 \in 1 .. c /\ i <= j - 1 /\ j - 1 < j
    BY <2>2
  <2>4. hi[j - 1] = lo[j] /\ lo[j - 1] < hi[j - 1]
    BY <2>3
  <2>5. hi[i] \in Int /\ lo[j] \in Int /\ lo[j - 1] \in Int /\ hi[j - 1] \in Int
    BY <2>3
  <2>6. CASE i = j - 1
    BY <2>2, <2>4, <2>5, <2>6
  <2>7. CASE i < j - 1
    <3>1. ~ (j - 1 \in T)
      BY <2>1, <2>3
    <3>2. hi[i] <= lo[j - 1]
      BY <2>3, <2>7, <3>1
    <3> QED BY <2>2, <2>4, <2>5, <3>2
  <2> QED BY <2>3, <2>6, <2>7
<1>2. ASSUME NEW i \in 1 .. c, NEW j \in 1 .. c, i < j, ~ (hi[i] <= lo[j]) PROVE j \in T
  BY <1>2
<1> QED BY <1>1, <1>2

\* Between the first start and the last end they leave nothing out.
LEMMA TilesCover ==
  ASSUME NEW c \in Nat \ {0}, NEW lo \in [1 .. c -> Int], NEW hi \in [1 .. c -> Int],
         \A i \in 1 .. c : lo[i] < hi[i],
         \A i \in 2 .. c : hi[i - 1] = lo[i]
  PROVE  /\ \A b \in lo[1] .. hi[c] - 1 : \E i \in 1 .. c : b \in lo[i] .. hi[i] - 1
         /\ \A i \in 1 .. c : \A b \in lo[i] .. hi[i] - 1 : b \in lo[1] .. hi[c] - 1
<1>1. 1 \in 1 .. c /\ c \in 1 .. c
  OBVIOUS
<1>2. ASSUME NEW b \in lo[1] .. hi[c] - 1 PROVE \E i \in 1 .. c : b \in lo[i] .. hi[i] - 1
  <2> DEFINE T == {i \in 1 .. c : b < hi[i]}
  <2>1. b \in Int /\ lo[1] <= b /\ c \in T /\ T \in SUBSET Nat
    BY <1>1, <1>2
  <2>2. PICK i \in T : \A k \in T : i <= k
    <3>1. T # {}
      BY <2>1, Zenon
    <3> HIDE DEF T
    <3> QED BY <2>1, <3>1, LeastNumber, Zenon
  <2>3. i \in 1 .. c /\ b < hi[i] /\ lo[i] \in Int /\ hi[i] \in Int
    BY <2>2
  <2>4. lo[i] <= b
    <3>1. CASE i = 1
      BY <2>1, <3>1
    <3>2. CASE i # 1
      <4>1. i \in 2 .. c /\ i - 1 \in 1 .. c /\ i - 1 < i
        BY <2>3, <3>2
      <4>2. ~ (i - 1 \in T)
        BY <2>2, <4>1
      <4>3. ~ (b < hi[i - 1]) /\ hi[i - 1] = lo[i]
        BY <4>1, <4>2
      <4> QED BY <2>1, <2>3, <4>3
    <3> QED BY <3>1, <3>2
  <2> QED BY <2>1, <2>3, <2>4
<1>3. ASSUME NEW i \in 1 .. c, NEW b \in lo[i] .. hi[i] - 1 PROVE b \in lo[1] .. hi[c] - 1
  <2>1. \A j, k \in 1 .. c : j < k => hi[j] <= lo[k]
    BY TilesApart, Zenon
  <2>2. /\ lo[1] \in Int /\ hi[1] \in Int /\ lo[c] \in Int /\ hi[c] \in Int
        /\ lo[i] \in Int /\ hi[i] \in Int
        /\ lo[1] < hi[1] /\ lo[c] < hi[c] /\ lo[i] < hi[i]
    BY <1>1
  <2>3. lo[1] <= lo[i]
    <3>1. CASE i = 1
      BY <2>2, <3>1
    <3>2. CASE 1 < i
      <4>1. hi[1] <= lo[i]
        BY <1>1, <2>1, <3>2
      <4> QED BY <2>2, <4>1
    <3> QED BY <3>1, <3>2
  <2>4. hi[i] <= hi[c]
    <3>1. CASE i = c
      BY <2>2, <3>1
    <3>2. CASE i < c
      <4>1. hi[i] <= lo[c]
        BY <1>1, <2>1, <3>2
      <4> QED BY <2>2, <4>1
    <3> QED BY <3>1, <3>2
  <2> QED BY <2>2, <2>3, <2>4
<1> QED BY <1>2, <1>3

\* A page that Validate of nodepage.go accepts, damaged or not, has its cells
\* apart, off the slots and in the page, and no byte over.
THEOREM ValidPagesAreSound == Spec => []ValidateIsSound
<1>1. Inv => ValidateIsSound
  <2>1. SUFFICES ASSUME Inv, Validate(node)
                 PROVE  /\ UNION {CellBytes(i) : i \in 1 .. node.count} = node.freeEnd .. PageSize - 1
                        /\ \A i, j \in 1 .. node.count : i # j => CellBytes(i) \cap CellBytes(j) = {}
                        /\ node.freeEnd >= slotOffset(node.count + 1)
    BY DEF ValidateIsSound
  <2>2. node \in PageNode
    BY <2>1 DEF Inv, TypeOK
  <2>3. PICK c \in Nat, end \in Nat, first \in Nat :
          c = node.count /\ end = node.freeEnd /\ first = node.freeStart
    BY <2>2 DEF PageNode
  <2>4. first = SlotArrayStart + c * SlotSize /\ first <= end
    BY <2>1, <2>3, Zenon DEF Validate
  <2>5. end >= slotOffset(c + 1)
    BY <2>4 DEF slotOffset
  <2>6. CASE c = 0
    <3>1. end = PageSize
      BY <2>1, <2>3, <2>6, ZenonT(40) DEF Validate
    <3>2. 1 .. c = {} /\ end .. PageSize - 1 = {}
      BY <2>6, <3>1
    <3>3. UNION {CellBytes(i) : i \in 1 .. c} = {}
      BY <3>2
    <3> QED BY <2>3, <2>5, <3>2, <3>3, ZenonT(40)
  <2>7. CASE c # 0
    <3>1. CellsTile(node)
      BY <2>1, <2>3, <2>7, Zenon DEF Validate
    <3>2. PICK order \in [1 .. c -> 1 .. c] :
            /\ \A i \in 1 .. c : \E v \in 1 .. c : order[v] = i
            /\ cellStart(node, order[1]) = end
            /\ \A v \in 2 .. c : cellEnd(node, order[v - 1]) = cellStart(node, order[v])
            /\ cellEnd(node, order[c]) = PageSize
      BY <2>3, <3>1, Zenon DEF CellsTile, SortedCells, Surjection
    <3>3. \A i \in 1 .. c : /\ cellStart(node, i) \in Int /\ cellEnd(node, i) \in Int
                            /\ cellStart(node, i) < cellEnd(node, i)
      BY <2>1, <2>2, <2>3, ValidCells
    <3> DEFINE lo == [v \in 1 .. c |-> cellStart(node, order[v])]
               hi == [v \in 1 .. c |-> cellEnd(node, order[v])]
    <3>4. /\ lo \in [1 .. c -> Int] /\ hi \in [1 .. c -> Int]
          /\ \A v \in 1 .. c : lo[v] < hi[v]
      BY <3>2, <3>3, ZenonT(40)
    <3>5. \A v \in 1 .. c : CellBytes(order[v]) = lo[v] .. hi[v] - 1
      BY <3>2 DEF CellBytes
    <3>6. /\ \A v \in 2 .. c : hi[v - 1] = lo[v]
          /\ lo[1] = end /\ hi[c] = PageSize
      BY <2>7, <3>2
    <3> HIDE DEF lo, hi
    <3>7. \A v, w \in 1 .. c : v < w => hi[v] <= lo[w]
      BY <3>4, <3>6, TilesApart, Zenon
    <3>8. /\ \A b \in end .. PageSize - 1 : \E v \in 1 .. c : b \in lo[v] .. hi[v] - 1
          /\ \A v \in 1 .. c : \A b \in lo[v] .. hi[v] - 1 : b \in end .. PageSize - 1
      <4>1. c \in Nat \ {0}
        BY <2>7
      <4>2. /\ \A b \in lo[1] .. hi[c] - 1 : \E v \in 1 .. c : b \in lo[v] .. hi[v] - 1
            /\ \A v \in 1 .. c : \A b \in lo[v] .. hi[v] - 1 : b \in lo[1] .. hi[c] - 1
        BY <3>4, <3>6, <4>1, TilesCover, Zenon
      <4> QED BY <3>6, <4>2, Zenon
    <3>9. ASSUME NEW b PROVE (\E i \in 1 .. c : b \in CellBytes(i)) <=> b \in end .. PageSize - 1
      <4>1. ASSUME NEW i \in 1 .. c, b \in CellBytes(i) PROVE b \in end .. PageSize - 1
        <5>1. PICK v \in 1 .. c : order[v] = i
          BY <3>2
        <5> QED BY <3>5, <3>8, <4>1, <5>1, ZenonT(40)
      <4>2. ASSUME b \in end .. PageSize - 1 PROVE \E i \in 1 .. c : b \in CellBytes(i)
        <5>1. PICK v \in 1 .. c : b \in lo[v] .. hi[v] - 1
          BY <3>8, <4>2
        <5>2. order[v] \in 1 .. c /\ b \in CellBytes(order[v])
          BY <3>2, <3>5, <5>1, ZenonT(40)
        <5> QED BY <5>2, Zenon
      <4> QED BY <4>1, <4>2
    <3>10. UNION {CellBytes(i) : i \in 1 .. c} = end .. PageSize - 1
      BY <3>9
    <3>11. ASSUME NEW i \in 1 .. c, NEW j \in 1 .. c, i # j,
                  NEW b \in CellBytes(i), b \in CellBytes(j)
           PROVE  FALSE
      <4>1. PICK v \in 1 .. c, w \in 1 .. c : order[v] = i /\ order[w] = j
        BY <3>2
      <4>2. b \in lo[v] .. hi[v] - 1 /\ b \in lo[w] .. hi[w] - 1
        BY <3>5, <3>11, <4>1, ZenonT(40)
      <4>3. /\ lo[v] \in Int /\ hi[v] \in Int /\ lo[w] \in Int /\ hi[w] \in Int
        BY <3>4
      <4>4. v < w \/ w < v
        BY <3>11, <4>1
      <4>5. hi[v] <= lo[w] \/ hi[w] <= lo[v]
        BY <3>7, <4>4
      <4>6. \A x, y \in Int : b \in x .. y - 1 => b \in Int /\ x <= b /\ b < y
        OBVIOUS
      <4>7. b \in Int /\ lo[v] <= b /\ b < hi[v] /\ lo[w] <= b /\ b < hi[w]
        BY <4>2, <4>3, <4>6, ZenonT(40)
      <4>8. PICK k \in Int, v1 \in Int, v2 \in Int, w1 \in Int, w2 \in Int :
              k = b /\ v1 = lo[v] /\ v2 = hi[v] /\ w1 = lo[w] /\ w2 = hi[w]
        BY <4>3, <4>7, Zenon
      <4>9. v1 <= k /\ k < v2 /\ w1 <= k /\ k < w2 /\ (v2 <= w1 \/ w2 <= v1)
        BY <4>5, <4>7, <4>8, Zenon
      <4> QED BY <4>9
    <3>12. \A i, j \in 1 .. c : i # j => CellBytes(i) \cap CellBytes(j) = {}
      BY <3>11
    <3> QED BY <2>3, <2>5, <3>10, <3>12, Zenon
  <2> QED BY <2>6, <2>7
<1> QED BY <1>1, NodeIsSound, PTL

-----------------------------------------------------------------------------
(* What Validate accepts of a node that is not damaged. *)

\* Cells that hang down from the page's end one below the other tile it, taken
\* from the last to the first.
LEMMA ChainTiles ==
  ASSUME NEW n, NEW c \in Nat \ {0}, n.count = c, Chained(n),
         \A i \in 1 .. c : /\ cellStart(n, i) \in Int /\ cellEnd(n, i) \in Int
                           /\ cellStart(n, i) < cellEnd(n, i)
  PROVE  CellsTile(n)
<1> DEFINE order == [v \in 1 .. c |-> c + 1 - v]
<1>1. /\ n.freeEnd = cellStart(n, c)
      /\ \A i \in 1 .. c : cellEnd(n, i) = CellTop(n, i - 1)
  <2>1. c # 0
    OBVIOUS
  <2> QED BY <2>1, Zenon DEF Chained, CellTop
<1>2. cellEnd(n, 1) = PageSize
  <2>1. 1 \in 1 .. c /\ 1 - 1 = 0
    OBVIOUS
  <2> QED BY <1>1, <2>1, Zenon DEF CellTop
<1>3. order \in Surjection(1 .. c, 1 .. c)
  <2>1. order \in [1 .. c -> 1 .. c]
    OBVIOUS
  <2>2. ASSUME NEW i \in 1 .. c PROVE \E v \in 1 .. c : order[v] = i
    <3>1. c + 1 - i \in 1 .. c /\ order[c + 1 - i] = i
      OBVIOUS
    <3> QED BY <3>1, Zenon
  <2> QED BY <2>1, <2>2 DEF Surjection
<1>4. order[1] = c /\ order[c] = 1
  OBVIOUS
<1>5. ASSUME NEW v \in 2 .. c
      PROVE  /\ cellEnd(n, order[v - 1]) = cellStart(n, order[v])
             /\ cellStart(n, order[v - 1]) <= cellStart(n, order[v])
  <2>1. PICK i \in 1 .. c : i = c + 1 - v /\ i + 1 \in 1 .. c
    OBVIOUS
  <2>2. order[v] = i /\ order[v - 1] = i + 1
    BY <2>1
  <2>3. (i + 1) - 1 = i /\ i # 0
    OBVIOUS
  <2>4. cellEnd(n, i + 1) = cellStart(n, i)
    BY <1>1, <2>1, <2>3, Zenon DEF CellTop
  <2>5. cellStart(n, i + 1) <= cellStart(n, i)
    <3>1. /\ cellStart(n, i + 1) \in Int /\ cellStart(n, i) \in Int
          /\ cellStart(n, i + 1) < cellStart(n, i)
      BY <2>1, <2>4, ZenonT(40)
    <3> QED BY <3>1
  <2> QED BY <2>2, <2>4, <2>5, Zenon
<1> HIDE DEF order
<1>6. order \in SortedCells(n)
  BY <1>3, <1>5, Zenon DEF SortedCells
<1> QED BY <1>1, <1>2, <1>4, <1>5, <1>6, Zenon DEF CellsTile

\* Validate of nodepage.go accepts an undamaged node exactly if its keys were
\* appended in strict order and none of them is empty.
THEOREM ValidateIsExact == Spec => []ValidIffAscending
<1>1. Inv => ValidIffAscending
  <2>1. SUFFICES ASSUME Inv, damage = 0
                 PROVE  Validate(node) <=>
                          /\ \A i \in DOMAIN entries : entries[i].key # <<>>
                          /\ \A i \in 2 .. Len(entries) : Less(entries[i - 1].key, entries[i].key)
    BY Zenon DEF ValidIffAscending
  <2>2. /\ node \in PageNode /\ entries \in Seq(Entry)
        /\ Headed(node) /\ LaidOut(node, entries) /\ Chained(node)
    BY <2>1 DEF Inv, TypeOK, Sound
  <2>3. PICK c \in Nat, t \in Nat \ {0}, first \in Nat, end \in Nat :
          /\ c = Len(entries) /\ t = suffixLen(node)
          /\ first = node.freeStart /\ end = node.freeEnd
    <3>1. Len(entries) \in Nat /\ node.freeStart \in Nat /\ node.freeEnd \in Nat
      BY <2>2, LenProperties DEF PageNode
    <3> QED BY <3>1, SuffixType, Zenon
  <2>4. /\ node.count = c /\ first = slotOffset(c + 1) /\ first <= end /\ end <= PageSize
        /\ DOMAIN entries = 1 .. c
    BY <2>2, <2>3, LenProperties, Zenon DEF LaidOut
  <2>5. ASSUME NEW i \in 1 .. c
        PROVE  /\ entries[i] \in Entry /\ KeyRef(node, i) = entries[i].key
               /\ cellStart(node, i) \in end .. PageSize
               /\ cellEnd(node, i) = cellStart(node, i) + (Len(entries[i].key) + t)
               /\ cellEnd(node, i) <= PageSize
    <3>1. Len(entries[i].tail) = t /\ Holds(node, i, entries[i])
      BY <2>2, <2>3, Zenon DEF LaidOut
    <3>2. i \in Nat /\ entries[i] \in Entry
      BY <2>2, <2>3, ElementOfSeq
    <3>3. KeyRef(node, i) = entries[i].key
      BY <2>2, <2>3, <3>1, <3>2, CellReadsBack, Zenon
    <3>4. /\ cellStart(node, i) \in node.freeEnd .. PageSize
          /\ cellEnd(node, i) = cellStart(node, i) + (Len(entries[i].key) + Len(entries[i].tail))
          /\ cellEnd(node, i) <= PageSize
      BY <3>1 DEF Holds
    <3> QED BY <2>3, <3>1, <3>2, <3>3, <3>4, Zenon
  <2>6. \A i \in 1 .. c : Len(entries[i].key) \in Nat
                          /\ (entries[i].key = <<>> <=> Len(entries[i].key) = 0)
    <3>1. ASSUME NEW i \in 1 .. c
          PROVE  Len(entries[i].key) \in Nat /\ (entries[i].key = <<>> <=> Len(entries[i].key) = 0)
      <4>1. entries[i].key \in Seq(Nat)
        BY <2>5 DEF Entry
      <4> QED BY <4>1, EmptySeq, LenProperties
    <3> QED BY <3>1
  <2>7. (\A i \in 2 .. c : Less(KeyRef(node, i - 1), KeyRef(node, i)))
          <=> \A i \in 2 .. c : Less(entries[i - 1].key, entries[i].key)
    <3>1. \A i \in 2 .. c : i - 1 \in 1 .. c /\ i \in 1 .. c
      OBVIOUS
    <3>2. \A i \in 1 .. c : KeyRef(node, i) = entries[i].key
      BY <2>5
    <3> QED BY <3>1, <3>2
  <2>8. ASSUME Validate(node), c # 0
        PROVE  /\ \A i \in 1 .. c : entries[i].key # <<>>
               /\ \A i \in 2 .. c : Less(KeyRef(node, i - 1), KeyRef(node, i))
    <3>1. ASSUME NEW i \in 1 .. c PROVE entries[i].key # <<>>
      <4>1. /\ suffixLen(node) + 1 <= cellEnd(node, i) - cellStart(node, i)
            /\ cellStart(node, i) \in Nat
        BY <2>2, <2>4, <2>8, ValidCells, Zenon
      <4>2. PICK lo \in Nat, k \in Nat : lo = cellStart(node, i) /\ k = Len(entries[i].key)
        BY <2>6, <4>1
      <4>3. t + 1 <= (lo + (k + t)) - lo
        BY <2>3, <2>5, <4>1, <4>2, Zenon
      <4>4. k # 0
        BY <4>3
      <4> QED BY <2>6, <4>2, <4>4, Zenon
    <3> QED BY <2>4, <2>8, <3>1, Zenon DEF Validate
  <2>9. ASSUME c # 0, \A i \in 1 .. c : entries[i].key # <<>>
        PROVE  (\A i \in 1 .. c : CellInPage(node, i)) /\ CellsTile(node)
    <3>1. ASSUME NEW i \in 1 .. c
          PROVE  /\ CellInPage(node, i)
                 /\ cellStart(node, i) \in Int /\ cellEnd(node, i) \in Int
                 /\ cellStart(node, i) < cellEnd(node, i)
      <4>1. cellStart(node, i) \in Int /\ cellStart(node, i) >= end
        BY <2>5
      <4>2. PICK lo \in Int, k \in Nat : lo = cellStart(node, i) /\ k = Len(entries[i].key)
        BY <2>6, <4>1
      <4>3. k # 0
        BY <2>6, <2>9, <4>2, Zenon
      <4>4. PICK hi \in Int : hi = lo + (k + t)
        OBVIOUS
      <4>5. hi = cellEnd(node, i) /\ lo >= end
        BY <2>5, <4>1, <4>2, <4>4, Zenon
      <4>6. first <= lo /\ hi <= PageSize /\ lo < hi /\ hi - lo >= t + 1
        <5>1. first <= lo
          BY <2>4, <4>5
        <5>2. lo < hi /\ hi - lo >= t + 1
          BY <4>3, <4>4
        <5> QED BY <2>5, <4>5, <5>1, <5>2, Zenon
      <4>7. CellInPage(node, i)
        BY <2>3, <4>2, <4>5, <4>6, Zenon DEF CellInPage
      <4> QED BY <4>2, <4>5, <4>6, <4>7, Zenon
    <3>2. c \in Nat \ {0}
      BY <2>9
    <3>3. CellsTile(node)
      BY <2>2, <2>4, <3>1, <3>2, ChainTiles, Zenon
    <3> QED BY <3>1, <3>3
  <2>10. /\ node.kind \in {"leaf", "internal"} /\ Leaf(node) = (node.level = 0) /\ node.pad = 0
         /\ node.freeStart = SlotArrayStart + node.count * SlotSize
         /\ node.freeStart <= node.freeEnd /\ node.freeEnd <= PageSize
    <3>1. /\ node.kind \in {"leaf", "internal"} /\ Leaf(node) = (node.level = 0) /\ node.pad = 0
      BY <2>2 DEF Headed, Leaf
    <3>2. (c + 1) - 1 = c
      OBVIOUS
    <3>3. first = SlotArrayStart + c * SlotSize
      BY <2>4, <3>2, Zenon DEF slotOffset
    <3> QED BY <2>3, <2>4, <3>1, <3>3, ZenonT(40)
  <2>11. c = 0 => node.freeEnd = PageSize
    BY <2>2, <2>4, Zenon DEF Chained, CellTop
  <2>12. CASE c = 0
    <3>1. Validate(node)
      BY <2>4, <2>10, <2>11, <2>12, Zenon DEF Validate
    <3>2. 1 .. c = {} /\ 2 .. c = {}
      BY <2>12
    <3> QED BY <2>3, <2>4, <3>1, <3>2, ZenonT(40)
  <2>13. CASE c # 0
    <3>1. ASSUME \A i \in 1 .. c : entries[i].key # <<>>,
                 \A i \in 2 .. c : Less(KeyRef(node, i - 1), KeyRef(node, i))
          PROVE  Validate(node)
      BY <2>4, <2>9, <2>10, <2>13, <3>1, ZenonT(40) DEF Validate
    <3> QED BY <2>3, <2>4, <2>7, <2>8, <2>13, <3>1, Zenon
  <2> QED BY <2>12, <2>13
<1> QED BY <1>1, NodeIsSound, PTL
=============================================================================
