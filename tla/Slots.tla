-------------------------------- MODULE Slots --------------------------------
(***************************************************************************)
(* Records of one size in aligned slots of a page (internal/slots).        *)
(*                                                                         *)
(* NewLayout divides the page; Put writes a record to any slot, in any     *)
(* order, over what was there.  Sizes are Go ints of IntBits bits, so that *)
(* an alignment near the largest int makes the sums overflow.  The page is *)
(* its bytes from the header on; it may be cut short, and hold old bytes.  *)
(***************************************************************************)
EXTENDS Integers, Sequences, FiniteSets, FiniteSetsExt

CONSTANTS
  PageSize,     \* page.Size
  HeaderSize,   \* page.HeaderSize
  IntBits,      \* width of an int
  Lengths,      \* how long the pages are that Put is given
  Bytes,        \* what a record's bytes may be
  Stale         \* what a page's bytes may have been before

ASSUME SizeAssumption ==
  /\ PageSize \in Nat /\ HeaderSize \in Nat \ {0} /\ HeaderSize < PageSize
  /\ IntBits \in Nat \ {0, 1} /\ PageSize < 2 ^ (IntBits - 2)
\* Arithmetic, of which the provers do not have it.
ASSUME PowersAssumption == \A e \in 0 .. IntBits - 1 : 2 ^ e \in Nat \ {0} /\ 2 ^ (e + 1) = 2 * 2 ^ e
ASSUME LengthsAssumption == Lengths \subseteq HeaderSize .. PageSize

VARIABLES
  asked,    \* the record size and the alignment NewLayout was given
  layout,   \* what NewLayout returned, NoLayout if it refused
  page,     \* the page: itemCount, freeStart and its bytes
  stored    \* slot -> the record last put in it, for the properties

vars == <<asked, layout, page, stored>>

-----------------------------------------------------------------------------
(* Layouts. *)

\* Arithmetic of a signed int: it wraps, and division cuts towards zero.
int(x)     == ((x + 2 ^ (IntBits - 1)) % (2 ^ IntBits)) - 2 ^ (IntBits - 1)
quot(a, b) == IF a >= 0 THEN a \div b ELSE -((-a) \div b)

Align(n, to) ==
  IF to <= 1 \/ n <= 0 \/ n % to = 0 THEN n ELSE int(int(n + to) - (n % to))

isPowerOfTwo(n) == \E e \in 0 .. IntBits - 2 : n = 2 ^ e

NoLayout == [capacity |-> 0, slotSize |-> 0]

Divided(recordSize, base, slot, capacity) ==
  [recordSize |-> recordSize, slotSize |-> slot, capacity |-> capacity, base |-> base]

\* Mutant: the last check is left out; what no longer fits in a field is cut off.
NewLayoutUnchecked(recordSize, align) ==
  LET base     == Align(HeaderSize, align)
      slot     == Align(recordSize, align)
      capacity == quot(int(PageSize - base), slot)
  IN IF /\ isPowerOfTwo(align) /\ recordSize \in 1 .. PageSize
        /\ slot > 0 /\ int(base + slot) <= PageSize
     THEN Divided(recordSize, base, slot, capacity) ELSE NoLayout

NewLayout(recordSize, align) ==
  LET base     == Align(HeaderSize, align)
      slot     == Align(recordSize, align)
      capacity == quot(int(PageSize - base), slot)
  IN IF /\ isPowerOfTwo(align) /\ recordSize \in 1 .. PageSize
        /\ slot > 0 /\ int(base + slot) <= PageSize
        /\ int(base + int(capacity * slot)) <= PageSize
     THEN Divided(recordSize, base, slot, capacity) ELSE NoLayout

\* Slots count from 0.
\* Mutant: slots follow one another as if records were not padded.
OffsetUnpadded(l, i) == l.base + i * l.recordSize

Offset(l, i) == l.base + i * l.slotSize

-----------------------------------------------------------------------------
(* Records. *)

\* Slot i is one of the layout, and whole in this page.
slotRange(l, p, i) ==
  /\ l.slotSize # 0 /\ i < l.capacity
  /\ \A b \in Offset(l, i) .. Offset(l, i) + l.slotSize - 1 : b \in DOMAIN p.bytes

GetRef(l, p, i) == [j \in 1 .. l.recordSize |-> p.bytes[Offset(l, i) + j - 1]]

\* Mutant: the count is set to the slot after this one, which need not be the last.
ItemsAfterLast(p, i) == i + 1

ItemsAfter(p, i) == Max({p.itemCount, i + 1})

\* The bytes of a slot that holds rec, padded with zeros.
\* Mutant: the padding is left as it was.
FilledNoPad(p, start, end, rec) ==
  [b \in DOMAIN p.bytes |-> IF b \in start .. start + Len(rec) - 1 THEN rec[b - start + 1] ELSE p.bytes[b]]

Filled(p, start, end, rec) ==
  [b \in DOMAIN p.bytes |->
     IF b \in start .. end - 1
     THEN IF b - start < Len(rec) THEN rec[b - start + 1] ELSE 0
     ELSE p.bytes[b]]

Put(i, rec) ==
  /\ slotRange(layout, page, i)            \* else ErrOutOfRange or ErrNoFit
  /\ LET start == Offset(layout, i) IN
     page' = [itemCount |-> ItemsAfter(page, i),
              freeStart |-> Offset(layout, ItemsAfter(page, i)),
              bytes     |-> Filled(page, start, start + layout.slotSize, rec)]
  /\ stored' = [s \in DOMAIN stored \cup {i} |-> IF s = i THEN rec ELSE stored[s]]
  /\ UNCHANGED <<asked, layout>>

-----------------------------------------------------------------------------
Init ==
  /\ asked \in [recordSize : 0 .. PageSize + 1, align : {2 ^ e : e \in 0 .. IntBits - 2} \cup {0, 3}]
  /\ layout = NewLayout(asked.recordSize, asked.align)
  /\ \E length \in Lengths, old \in Stale :
       page = [itemCount |-> 0, freeStart |-> HeaderSize,
               bytes |-> [b \in HeaderSize .. length - 1 |-> old]]
  /\ stored = [s \in {} |-> <<>>]

Next == \E i \in 0 .. layout.capacity - 1 :
          \E rec \in [1 .. layout.recordSize -> Bytes] : Put(i, rec)

Spec == Init /\ [][Next]_vars

-----------------------------------------------------------------------------
(* What the slots promise. *)

\* A layout is granted to exactly the records that have room at one aligned place,
\* and there is no room for one slot more than it counts: it starts at the first
\* aligned place and each of its slots is the least aligned size that holds a record,
\* whatever the alignment, up to the largest power of two an int holds.
LayoutIsTight ==
  LET size  == asked.recordSize
      bases == {b \in HeaderSize .. PageSize : b % asked.align = 0}
      slots == {s \in size .. PageSize : s % asked.align = 0}
      room  == /\ bases # {} /\ slots # {} /\ Min(bases) + Min(slots) <= PageSize
               /\ size > 0
  IN isPowerOfTwo(asked.align) =>
       /\ room <=> layout # NoLayout
       /\ room => /\ layout.base = Min(bases) /\ layout.slotSize = Min(slots)
                  /\ Offset(layout, layout.capacity) <= PageSize
                  /\ Offset(layout, layout.capacity + 1) > PageSize

\* A record reads back as it was last put, whatever was put around it since, and
\* nothing of what the page held before is left in its padding.
RecordsKeep ==
  \A i \in DOMAIN stored :
    /\ GetRef(layout, page, i) = stored[i]
    /\ \A b \in Offset(layout, i) + layout.recordSize .. Offset(layout, i + 1) - 1 :
         page.bytes[b] = 0

\* The header tells where the records end: no record is past the free start, the
\* last one ends there, and the bytes after it were never touched.
HeaderCoversRecords ==
  LET used == {i + 1 : i \in DOMAIN stored} IN
  /\ page.itemCount = Max(used \cup {0})
  /\ used # {} => page.freeStart = Offset(layout, page.itemCount)
  /\ page.freeStart <= HeaderSize + Cardinality(DOMAIN page.bytes)
  /\ \E old \in Stale : \A b \in DOMAIN page.bytes :
       b >= page.freeStart => page.bytes[b] = old

=============================================================================
