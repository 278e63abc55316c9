------------------------------- MODULE NodePage ------------------------------
(***************************************************************************)
(* The layout of a B+tree node in a page (internal/nodepage/nodepage.go):  *)
(* slots of an offset and a length grow up from the node's header, cells   *)
(* of a key and a payload grow down from the end of the page.              *)
(*                                                                         *)
(* The page is its bytes from the slot array on; the fields of the two     *)
(* headers are a record, since they lie at fixed places before those.      *)
(* Keys and payloads are sequences of bytes.  Entries count from 1.        *)
(***************************************************************************)
EXTENDS Integers, Sequences, FiniteSets, FiniteSetsExt, SequencesExt

CONSTANTS
  PageSize,         \* page.Size
  SlotArrayStart,   \* bytes of the two headers
  SlotSize,         \* 2 bytes for an offset, 2 for a length
  LeafSuffix,       \* bytes of a row id
  InternalSuffix,   \* bytes of a child's page id
  Keys,             \* keys that are appended
  Bytes,            \* what the bytes of a payload may be
  Links,            \* page ids that are linked to
  MaxDamage         \* bound: fields that are not what the code left in them

ASSUME SizeAssumption ==
  /\ PageSize \in Nat /\ SlotArrayStart \in Nat
  /\ SlotArrayStart < PageSize /\ PageSize < 256 * 256
ASSUME SlotAssumption   == SlotSize = 4
ASSUME SuffixAssumption == LeafSuffix \in Nat \ {0} /\ InternalSuffix \in Nat \ {0}
ASSUME DamageAssumption == MaxDamage \in Nat
ASSUME KeysAssumption   == Keys \subseteq Seq(0 .. 255) /\ Bytes \subseteq 0 .. 255

VARIABLES
  node,      \* the page
  linked,    \* the page id last linked to, for the properties
  entries,   \* what was appended to it, for the properties
  damage     \* fields that changed since

vars == <<node, linked, entries, damage>>

EntryArea == PageSize - SlotArrayStart

-----------------------------------------------------------------------------
(* Fields of a page. *)

NewPage(kind, level) ==
  [kind |-> kind, level |-> level, link |-> 0, pad |-> 0, count |-> 0,
   freeStart |-> SlotArrayStart, freeEnd |-> PageSize,
   bytes |-> [b \in SlotArrayStart .. PageSize - 1 |-> 0]]

NewLeaf            == NewPage("leaf", 0)
NewInternal(level) == NewPage("internal", level)     \* refused for level 0

Leaf(n)      == n.kind = "leaf"
suffixLen(n) == IF Leaf(n) THEN LeafSuffix ELSE InternalSuffix
FreeSpace(n) == n.freeEnd - n.freeStart

slotOffset(i) == SlotArrayStart + (i - 1) * SlotSize

uint16(bytes, at)  == bytes[at] * 256 + bytes[at + 1]
PutUint16(value)   == <<value \div 256, value % 256>>

\* The bytes of the page with `data` copied to `at`.
Copy(bytes, at, data) ==
  [b \in DOMAIN bytes |-> IF b \in at .. at + Len(data) - 1 THEN data[b - at + 1] ELSE bytes[b]]

cellStart(n, i) == uint16(n.bytes, slotOffset(i))
cellEnd(n, i)   == cellStart(n, i) + uint16(n.bytes, slotOffset(i) + 2)

cell(n, i) == [j \in 1 .. cellEnd(n, i) - cellStart(n, i) |-> n.bytes[cellStart(n, i) + j - 1]]

KeyRef(n, i) == SubSeq(cell(n, i), 1, Len(cell(n, i)) - suffixLen(n))

\* The row id of a leaf's entry, the child right of an internal node's.
Payload(n, i) == SubSeq(cell(n, i), Len(cell(n, i)) - suffixLen(n) + 1, Len(cell(n, i)))

-----------------------------------------------------------------------------
(* Appending. *)

EntrySize(n, keyLen) == SlotSize + keyLen + suffixLen(n)

\* Mutant: the slot that a new entry needs is not counted.
FitsWithoutSlot(n, keyLen) == keyLen + suffixLen(n) <= FreeSpace(n)

Fits(n, keyLen) == EntrySize(n, keyLen) <= FreeSpace(n)

\* Mutant: the free space still has the payload's bytes in it.
appendCellOverlapping(n, key, tail) ==
  LET start == n.freeEnd - Len(key) - Len(tail)
      slot  == slotOffset(n.count + 1)
  IN [n EXCEPT !.bytes = Copy(Copy(@, start, key \o tail), slot,
                              PutUint16(start) \o PutUint16(Len(key) + Len(tail))),
               !.freeEnd = n.freeEnd - Len(key), !.freeStart = slot + SlotSize, !.count = @ + 1]

appendCell(n, key, tail) ==
  LET start == n.freeEnd - Len(key) - Len(tail)
      slot  == slotOffset(n.count + 1)
  IN [n EXCEPT !.bytes = Copy(Copy(@, start, key \o tail), slot,
                              PutUint16(start) \o PutUint16(Len(key) + Len(tail))),
               !.freeEnd = start, !.freeStart = slot + SlotSize, !.count = @ + 1]

\* SetNext of a leaf, SetFirstChild of an internal node: one field serves both.
\* Mutant: the link is the payload of the first entry.
SetLinkInCell(n, id) ==
  IF n.count = 0 THEN [n EXCEPT !.link = id]
  ELSE [n EXCEPT !.link = id, !.bytes = Copy(@, cellEnd(n, 1) - 1, <<id>>)]

SetLink(n, id) == [n EXCEPT !.link = id]

\* Child(i), from 0: the first hangs on the node's header, the others on the entries.
Child(n, i) == IF i = 0 THEN <<n.link>> ELSE Payload(n, i)

\* How many keys of one length a node of a kind has room for.
MaxKeys(kind, keyLen) ==
  EntryArea \div (SlotSize + keyLen + IF kind = "leaf" THEN LeafSuffix ELSE InternalSuffix)

-----------------------------------------------------------------------------
(* Lookups. *)

Less(a, b) ==
  \/ \E i \in DOMAIN a \cap DOMAIN b : a[i] < b[i] /\ \A j \in 1 .. i - 1 : a[j] = b[j]
  \/ Len(a) < Len(b) /\ IsPrefix(a, b)

\* The first entry of n that test holds of, or the place after the last.
First(n, test(_)) == Min({i \in 1 .. n.count : test(KeyRef(n, i))} \cup {n.count + 1})

\* Where key is, or where it would go.
Search(n, key) == LET notLess(k) == ~Less(k, key) IN First(n, notLess)

found(n, key) == LET i == Search(n, key) IN i <= n.count /\ KeyRef(n, i) = key

\* The child to go on in: 0 stands for FirstChild, i for the child of entry i.
\* Mutant: a key that separates two children is looked for in the left one.
ChildForLeft(n, key) == LET notBelow(k) == ~Less(k, key) IN First(n, notBelow) - 1

ChildFor(n, key) == LET above(k) == Less(key, k) IN First(n, above) - 1

-----------------------------------------------------------------------------
(* Validate. *)

\* Mutant: a cell may have no room for a key.
CellInPageNoKey(n, i) ==
  LET lo == cellStart(n, i)   hi == cellEnd(n, i) IN
  /\ n.freeStart <= lo /\ hi <= PageSize /\ lo < hi
  /\ hi - lo >= suffixLen(n)

\* Entry i has a cell between the slots and the page's end, with room for a key.
CellInPage(n, i) ==
  LET lo == cellStart(n, i)   hi == cellEnd(n, i) IN
  /\ n.freeStart <= lo /\ hi <= PageSize /\ lo < hi
  /\ hi - lo >= suffixLen(n) + 1

\* The orders in which sort.Slice may leave the entries: by the start of their cells.
\* Which of them it is makes no difference, since no cell is empty.
SortedCells(n) ==
  {order \in Surjection(1 .. n.count, 1 .. n.count) :
     \A i \in 2 .. n.count : cellStart(n, order[i - 1]) <= cellStart(n, order[i])}

\* Mutant: cells may lie over one another.
CellsTileLoosely(n) ==
  \E order \in SortedCells(n) :
    /\ cellStart(n, order[1]) = n.freeEnd
    /\ cellEnd(n, order[n.count]) = PageSize

\* The cells cover all from freeEnd to the page's end, none over another.
CellsTile(n) ==
  \E order \in SortedCells(n) :
    /\ cellStart(n, order[1]) = n.freeEnd
    /\ \A i \in 2 .. n.count : cellEnd(n, order[i - 1]) = cellStart(n, order[i])
    /\ cellEnd(n, order[n.count]) = PageSize

Validate(n) ==
  /\ n.kind \in {"leaf", "internal"}
  /\ Leaf(n) = (n.level = 0)
  /\ n.pad = 0
  /\ n.freeStart = SlotArrayStart + n.count * SlotSize
  /\ n.freeStart <= n.freeEnd /\ n.freeEnd <= PageSize
  /\ IF n.count = 0 THEN n.freeEnd = PageSize
     ELSE /\ \A i \in 1 .. n.count : CellInPage(n, i)
          /\ CellsTile(n)
          /\ \A i \in 2 .. n.count : Less(KeyRef(n, i - 1), KeyRef(n, i))

-----------------------------------------------------------------------------
(* A node is filled, and read back from a file that may hold anything. *)

\* AppendLeaf and AppendInternal: each refuses a node of the other kind.
AppendTo(kind, key) ==
  /\ damage = 0
  /\ node.kind = kind
  /\ Fits(node, Len(key))      \* else ErrNoFit
  /\ \E tail \in [1 .. suffixLen(node) -> Bytes] :
       /\ node' = appendCell(node, key, tail)
       /\ entries' = Append(entries, [key |-> key, tail |-> tail])
  /\ UNCHANGED <<linked, damage>>

LinkTo(id) ==
  /\ damage = 0
  /\ node' = SetLink(node, id)
  /\ linked' = id
  /\ UNCHANGED <<entries, damage>>

\* The damaged fields hold anything; those of a slot are in its bytes.
Damaged(n) ==
  UNION {
    {[n EXCEPT !.count = v] : v \in 0 .. EntryArea \div SlotSize},
    {[n EXCEPT !.freeStart = v] : v \in SlotArrayStart .. PageSize},
    {[n EXCEPT !.freeEnd = v] : v \in 0 .. PageSize + 1},
    {[n EXCEPT !.level = v] : v \in {0, 1}},
    {[n EXCEPT !.kind = v] : v \in {"leaf", "internal", "heap"}},
    {[n EXCEPT !.pad = 1]},
    {[n EXCEPT !.bytes = Copy(@, slotOffset(i) + at, PutUint16(v))] :
       i \in 1 .. n.count, at \in {0, 2}, v \in 0 .. PageSize + 1}}

Damage ==
  /\ damage < MaxDamage
  /\ damage' = damage + 1
  /\ node' \in Damaged(node) \ {node}
  /\ UNCHANGED <<linked, entries>>

Init ==
  /\ node \in {NewLeaf, NewInternal(1)}
  /\ linked = 0
  /\ entries = <<>>
  /\ damage = 0

Next ==
  \/ \E key \in Keys : AppendTo("leaf", key) \/ AppendTo("internal", key)
  \/ \E id \in Links : LinkTo(id)
  \/ Damage

Spec == Init /\ [][Next]_vars

-----------------------------------------------------------------------------
(* What a node promises. *)

\* What was appended reads back: each key, its payload, in the order of appending,
\* whatever was written over the page since.
ReadsBack ==
  damage = 0 =>
    /\ node.count = Len(entries) /\ node.link = linked
    /\ \A i \in DOMAIN entries :
         KeyRef(node, i) = entries[i].key /\ Payload(node, i) = entries[i].tail

\* Validate accepts exactly the nodes whose keys were appended in strict order and
\* are not empty: no undamaged node for another reason, however full it is.
ValidIffAscending ==
  damage = 0 =>
    (Validate(node) <=>
       /\ \A i \in DOMAIN entries : entries[i].key # <<>>
       /\ \A i \in 2 .. Len(entries) : Less(entries[i - 1].key, entries[i].key))

\* A node filled with keys of one length has MaxKeys of them when it refuses the next.
FillsToMaxKeys ==
  \A keyLen \in {Len(k) : k \in Keys} :
    damage = 0 /\ (\A i \in DOMAIN entries : Len(entries[i].key) = keyLen) =>
      (Fits(node, keyLen) <=> Len(entries) < MaxKeys(node.kind, keyLen))

CellBytes(i) == cellStart(node, i) .. cellEnd(node, i) - 1

\* A page that Validate accepts, damaged or not, can be read: its cells are apart,
\* off the slots and in the page, and leave no byte over.
ValidateIsSound ==
  Validate(node) =>
    /\ UNION {CellBytes(i) : i \in 1 .. node.count} = node.freeEnd .. PageSize - 1
    /\ \A i, j \in 1 .. node.count : i # j => CellBytes(i) \cap CellBytes(j) = {}
    /\ node.freeEnd >= slotOffset(node.count + 1)

KeysOf == {KeyRef(node, i) : i \in 1 .. node.count}

\* On a page that Validate accepts lookups find what is there and nothing else, and
\* route as the tree in memory does: a key equal to a separator goes right of it.
LookupsAgree ==
  Validate(node) => \A key \in Keys :
    /\ found(node, key) <=> key \in KeysOf
    /\ Search(node, key) = 1 + Cardinality({k \in KeysOf : Less(k, key)})
    /\ ChildFor(node, key) = Cardinality({k \in KeysOf : ~Less(key, k)})

=============================================================================
