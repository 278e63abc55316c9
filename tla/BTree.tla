-------------------------------- MODULE BTree --------------------------------
(***************************************************************************)
(* The in-memory B+tree of internal/btree (btree.go, delete.go) and one    *)
(* iterator that stays open while the tree changes under it.               *)
(*                                                                         *)
(* Nodes are records in a heap and pointers are places in it, because the  *)
(* leaf chain and an iterator may point at a node that the tree has merged *)
(* away.  A node that neither the tree nor the iterator reaches is garbage *)
(* and leaves the heap; what is left is put in the order of the tree, root *)
(* first, since an address has no meaning.  Positions count from 1, where  *)
(* the code's count from 0.                                                *)
(*                                                                         *)
(* MaxStray bounds the nodes that deletes leave to the iterator alone.      *)
(*                                                                         *)
(* Left out: the tree that was not made with New, which is New's of order  *)
(* 64; Stats; the copying of keys, which are values here.                  *)
(***************************************************************************)
EXTENDS Integers, Sequences, FiniteSets, FiniteSetsExt, SequencesExt, Functions

CONSTANTS
  Keys,     \* numbers, ordered as bytes.Compare orders the keys
  Entries,  \* for each order New is called with, the <<key, row>> that the client puts
  Ranges,   \* the <<from, to>> that are scanned
  MaxStray  \* nodes that only the iterator reaches

ASSUME KeysAssumption  == Keys \subseteq Nat /\ Keys # {} /\ IsFiniteSet(Keys)
ASSUME OrderAssumption == \A n \in DOMAIN Entries : n \in Nat /\ n >= 3
ASSUME EntriesAssumption ==
  \A n \in DOMAIN Entries : \A entry \in Entries[n] : entry[1] \in Keys
ASSUME RangesAssumption == Ranges \subseteq Keys \X Nat
ASSUME StrayAssumption == MaxStray \in Nat

VARIABLES
  order,   \* Tree.order, set by New and never again
  heap,    \* the nodes
  count,
  it,      \* the iterator
  scan     \* what the client of the iterator has seen, for the properties

treeVars == <<heap, count>>
vars     == <<order, treeVars, it, scan>>

Rows == {entry[2] : entry \in UNION Range(Entries)}

maxKeys == order - 1
minKeys == (order - 1) \div 2

NoNode == 0
root   == 1

-----------------------------------------------------------------------------
(* Nodes. *)

Leaf(keys, rows, next) ==
  [leaf |-> TRUE, keys |-> keys, rows |-> rows, children |-> <<>>, next |-> next]

Internal(keys, children) ==
  [leaf |-> FALSE, keys |-> keys, rows |-> <<>>, children |-> children, next |-> NoNode]

\* The ends of a sequence, cut at mid.
Upto(s, mid) == SubSeq(s, 1, mid)
From(s, mid) == SubSeq(s, mid + 1, Len(s))

\* Mutant: a separator sends its own key to the left.
childIndexLeft(node, key) == 1 + Cardinality({i \in DOMAIN node.keys : node.keys[i] < key})

childIndex(node, key) == 1 + Cardinality({i \in DOMAIN node.keys : node.keys[i] <= key})
leafIndex(node, key)  == 1 + Cardinality({i \in DOMAIN node.keys : node.keys[i] < key})

Has(node, key) ==
  LET i == leafIndex(node, key) IN i <= Len(node.keys) /\ node.keys[i] = key

\* The leaf a key belongs to.
LeafFor(h, from, key) ==
  LET descend[n \in DOMAIN h] ==
        IF h[n].leaf THEN n ELSE descend[h[n].children[childIndex(h[n], key)]]
  IN descend[from]

\* Where the allocator puts a new node.
fresh(h) == Len(h) + 1

Below(h, top) ==
  LET below[n \in DOMAIN h] ==
        <<n>> \o FlattenSeq([i \in DOMAIN h[n].children |-> below[h[n].children[i]]])
  IN below[top]

\* What the garbage collector keeps: all that the tree or the iterator reaches.
Reached(h, top, cursor) ==
  LET reach(n) == {n} \cup Range(h[n].children) \cup ({h[n].next} \ {NoNode})
      within[d \in 0 .. Len(h)] ==
        IF d = 0 THEN {top, cursor} \ {NoNode} ELSE UNION {reach(n) : n \in within[d - 1]}
  IN within[Len(h)]

\* The order in which those nodes stay: the tree's first.
Kept(h, top, cursor) ==
  LET tree       == Below(h, top)
      stray      == Reached(h, top, cursor) \ Range(tree)
      isStray(n) == n \in stray
  IN tree \o SelectSeq([n \in DOMAIN h |-> n], isStray)

\* The call leaves the heap h with the root at top, and the iterator iter.
Becomes(h, top, iter) ==
  \E kept \in {Kept(h, top, iter.node)} :
    LET place(n) == IF n = NoNode THEN NoNode ELSE CHOOSE i \in DOMAIN kept : kept[i] = n IN
    /\ heap' = [i \in DOMAIN kept |->
                  [h[kept[i]] EXCEPT
                     !.children = [j \in DOMAIN @ |-> place(@[j])], !.next = place(@)]]
    /\ it' = [iter EXCEPT !.node = place(@)]

-----------------------------------------------------------------------------
(* Put.  A call on a node returns the heap it leaves and, when the node was *)
(* split, the separator and the node to its right.                          *)

Whole(h) == [heap |-> h, added |-> TRUE, split |-> FALSE, sep |-> 0, right |-> NoNode]

Split(h, sep, right) ==
  [heap |-> h, added |-> TRUE, split |-> TRUE, sep |-> sep, right |-> right]

\* Mutant: the new leaf is the last of the chain.
splitLeafUnlinked(h, n) ==
  LET node  == h[n]
      mid   == Len(node.keys) \div 2
      right == fresh(h)
  IN Split(Append([h EXCEPT ![n] = Leaf(Upto(node.keys, mid), Upto(node.rows, mid), right)],
                  Leaf(From(node.keys, mid), From(node.rows, mid), NoNode)),
           node.keys[mid + 1], right)

\* Mutant: the leaf is linked to the new one before that takes over its link.
splitLeafSwapped(h, n) ==
  LET node  == h[n]
      mid   == Len(node.keys) \div 2
      right == fresh(h)
  IN Split(Append([h EXCEPT ![n] = Leaf(Upto(node.keys, mid), Upto(node.rows, mid), right)],
                  Leaf(From(node.keys, mid), From(node.rows, mid), right)),
           node.keys[mid + 1], right)

splitLeaf(h, n) ==
  LET node  == h[n]
      mid   == Len(node.keys) \div 2
      right == fresh(h)
  IN Split(Append([h EXCEPT ![n] = Leaf(Upto(node.keys, mid), Upto(node.rows, mid), right)],
                  Leaf(From(node.keys, mid), From(node.rows, mid), node.next)),
           node.keys[mid + 1], right)

splitInternal(h, n) ==
  LET node  == h[n]
      mid   == Len(node.keys) \div 2
      right == fresh(h)
  IN Split(Append([h EXCEPT ![n] = Internal(Upto(node.keys, mid), Upto(node.children, mid + 1))],
                  Internal(From(node.keys, mid + 1), From(node.children, mid + 1))),
           node.keys[mid + 1], right)

insertInLeaf(h, n, key, row) ==
  LET i == leafIndex(h[n], key) IN
  IF Has(h[n], key)
  THEN [Whole([h EXCEPT ![n].rows[i] = row]) EXCEPT !.added = FALSE]
  ELSE LET h1 == [h EXCEPT ![n].keys = InsertAt(@, i, key), ![n].rows = InsertAt(@, i, row)]
       IN IF Len(h1[n].keys) <= maxKeys THEN Whole(h1) ELSE splitLeaf(h1, n)

\* The i-th child of n was split.
insertChild(h, n, i, sep, right) ==
  LET h1 == [h EXCEPT ![n].keys = InsertAt(@, i, sep),
                      ![n].children = InsertAt(@, i + 1, right)]
  IN IF Len(h1[n].keys) <= maxKeys THEN Whole(h1) ELSE splitInternal(h1, n)

insert(key, row) ==
  LET ins[n \in DOMAIN heap] ==
        IF heap[n].leaf THEN insertInLeaf(heap, n, key, row)
        ELSE LET i    == childIndex(heap[n], key)
                 done == ins[heap[n].children[i]]
             IN IF done.split THEN insertChild(done.heap, n, i, done.sep, done.right)
                ELSE done
  IN ins[root]

-----------------------------------------------------------------------------
(* Delete.  The i-th child of p has a key too few. *)

borrowFromLeft(h, p, i) ==
  LET left  == h[p].children[i - 1]   child == h[p].children[i]
      l     == h[left]                c     == h[child]
  IN IF c.leaf
     THEN [h EXCEPT
            ![child] = Leaf(<<Last(l.keys)>> \o c.keys, <<Last(l.rows)>> \o c.rows, c.next),
            ![left]  = Leaf(Front(l.keys), Front(l.rows), l.next),
            ![p].keys[i - 1] = Last(l.keys)]
     ELSE [h EXCEPT
            ![child] = Internal(<<h[p].keys[i - 1]>> \o c.keys,
                                <<Last(l.children)>> \o c.children),
            ![left]  = Internal(Front(l.keys), Front(l.children)),
            ![p].keys[i - 1] = Last(l.keys)]

\* Mutant: the separator becomes the key that moved, not the one now first.
borrowFromRightOld(h, p, i) ==
  LET child == h[p].children[i]       right == h[p].children[i + 1]
      c     == h[child]               r     == h[right]
  IN IF c.leaf
     THEN [h EXCEPT
            ![child] = Leaf(Append(c.keys, Head(r.keys)), Append(c.rows, Head(r.rows)), c.next),
            ![right] = Leaf(Tail(r.keys), Tail(r.rows), r.next),
            ![p].keys[i] = Head(r.keys)]
     ELSE h

borrowFromRight(h, p, i) ==
  LET child == h[p].children[i]       right == h[p].children[i + 1]
      c     == h[child]               r     == h[right]
  IN IF c.leaf
     THEN [h EXCEPT
            ![child] = Leaf(Append(c.keys, Head(r.keys)), Append(c.rows, Head(r.rows)), c.next),
            ![right] = Leaf(Tail(r.keys), Tail(r.rows), r.next),
            ![p].keys[i] = Head(Tail(r.keys))]
     ELSE [h EXCEPT
            ![child] = Internal(Append(c.keys, h[p].keys[i]),
                                Append(c.children, Head(r.children))),
            ![right] = Internal(Tail(r.keys), Tail(r.children)),
            ![p].keys[i] = Head(r.keys)]

\* The i-th child of p takes in the one to its right, which keeps what it had.
merge(h, p, i) ==
  LET left == h[p].children[i]   right == h[p].children[i + 1]
      l    == h[left]            r     == h[right]
  IN [h EXCEPT
       ![left] = IF l.leaf THEN Leaf(l.keys \o r.keys, l.rows \o r.rows, r.next)
                 ELSE Internal(Append(l.keys, h[p].keys[i]) \o r.keys,
                               l.children \o r.children),
       ![p].keys = RemoveAt(@, i),
       ![p].children = RemoveAt(@, i + 1)]

canLend(h, n) == Len(h[n].keys) > minKeys

repair(h, p, i) ==
  LET children == h[p].children IN
  IF i > 1 /\ canLend(h, children[i - 1]) THEN borrowFromLeft(h, p, i)
  ELSE IF i < Len(children) /\ canLend(h, children[i + 1]) THEN borrowFromRight(h, p, i)
  ELSE IF i > 1 THEN merge(h, p, i - 1) ELSE merge(h, p, i)

removeFromLeaf(h, n, key) ==
  LET i == leafIndex(h[n], key) IN
  [h EXCEPT ![n].keys = RemoveAt(@, i), ![n].rows = RemoveAt(@, i)]

\* The heap once key, which the tree holds, is deleted below the root.
delete(key) ==
  LET del[n \in DOMAIN heap] ==
        IF heap[n].leaf THEN removeFromLeaf(heap, n, key)
        ELSE LET i     == childIndex(heap[n], key)
                 child == heap[n].children[i]
                 h     == del[child]
             IN IF Len(h[child].keys) < minKeys THEN repair(h, n, i) ELSE h
  IN del[root]

\* A root with one child gives way to it.
collapsed(h) ==
  LET top[n \in DOMAIN h] ==
        IF ~h[n].leaf /\ h[n].keys = <<>> THEN top[h[n].children[1]] ELSE n
  IN top[root]

-----------------------------------------------------------------------------
(* The tree as a map. *)

Get(key) == LET n == LeafFor(heap, root, key) IN
            IF Has(heap[n], key) THEN {heap[n].rows[leafIndex(heap[n], key)]} ELSE {}

Found   == {k \in Keys : Get(k) # {}}
RowOf(k) == CHOOSE row \in Get(k) : TRUE

-----------------------------------------------------------------------------
(* The iterator.  A nil upper bound is one above every key. *)

Unbounded == Max(Keys) + 1

NoIterator == [state |-> "none", node |-> NoNode, i |-> 1, to |-> Unbounded]
NoScan     == [from |-> 0, present |-> {}, shown |-> <<>>, since |-> "same"]

\* The first leaf of a chain that has a key.
firstFull(n) ==
  LET full[m \in DOMAIN heap \cup {NoNode}] ==
        IF m = NoNode THEN m ELSE IF heap[m].keys # <<>> THEN m ELSE full[heap[m].next]
  IN full[n]

Scan(from, to) ==
  /\ it.state = "none"
  /\ LET n == LeafFor(heap, root, from) IN
     it' = [state |-> "open", node |-> n, i |-> leafIndex(heap[n], from), to |-> to]
  /\ scan' = [NoScan EXCEPT !.from = from,
                            !.present = {k \in Found : from <= k /\ k < to}]
  /\ UNCHANGED treeVars

Showing(key, row) ==
  scan' = IF scan.since = "dropped" THEN scan
          ELSE [scan EXCEPT !.shown = Append(@, <<key, row>>)]

Finished == [NoIterator EXCEPT !.state = "done", !.to = it.to]

\* Mutant: an iterator that moves on to the next leaf keeps its place in it.
IterNextKeepsPlace ==
  /\ it.state = "open"
  /\ LET n == IF it.i <= Len(heap[it.node].keys) THEN it.node ELSE heap[it.node].next
     IN IF n = NoNode \/ it.i > Len(heap[n].keys)
        THEN Becomes(heap, root, Finished) /\ UNCHANGED scan
        ELSE /\ Becomes(heap, root, [it EXCEPT !.node = n, !.i = it.i + 1])
             /\ Showing(heap[n].keys[it.i], heap[n].rows[it.i])
  /\ UNCHANGED count

\* Mutant: the upper bound is shown too.
IterNextInclusive ==
  /\ it.state = "open"
  /\ LET here == it.i <= Len(heap[it.node].keys)
         n    == IF here THEN it.node ELSE firstFull(heap[it.node].next)
         i    == IF here THEN it.i ELSE 1
     IN IF n = NoNode \/ heap[n].keys[i] > it.to
        THEN Becomes(heap, root, Finished) /\ UNCHANGED scan
        ELSE /\ Becomes(heap, root, [it EXCEPT !.node = n, !.i = i + 1])
             /\ Showing(heap[n].keys[i], heap[n].rows[i])
  /\ UNCHANGED count

IterNext ==
  /\ it.state = "open"
  /\ LET here == it.i <= Len(heap[it.node].keys)
         n    == IF here THEN it.node ELSE firstFull(heap[it.node].next)
         i    == IF here THEN it.i ELSE 1
     IN IF n = NoNode \/ heap[n].keys[i] >= it.to
        THEN Becomes(heap, root, Finished) /\ UNCHANGED scan
        ELSE /\ Becomes(heap, root, [it EXCEPT !.node = n, !.i = i + 1])
             /\ Showing(heap[n].keys[i], heap[n].rows[i])
  /\ UNCHANGED count

Close ==
  /\ it.state # "none"
  /\ Becomes(heap, root, NoIterator)
  /\ scan' = NoScan
  /\ UNCHANGED count

-----------------------------------------------------------------------------
(* Calls that change the tree. *)

Strays == Len(heap) - Len(Below(heap, root))

\* What the client knows of a scan is dropped once that has ended, and when the
\* tree loses a key.
Changed(how) ==
  scan' = IF it.state = "none" THEN scan
          ELSE IF "dropped" \in {how, scan.since} \/ it.state = "done"
               THEN [NoScan EXCEPT !.since = "dropped"]
          ELSE [scan EXCEPT !.since = how]

Put(key, row) ==
  /\ LET done == insert(key, row) IN
     /\ IF done.split
        THEN Becomes(Append(done.heap, Internal(<<done.sep>>, <<root, done.right>>)),
                     fresh(done.heap), it)
        ELSE Becomes(done.heap, root, it)
     /\ count' = IF done.added THEN count + 1 ELSE count
  /\ Changed("grown")

\* Mutant: a key that is not there is counted out.
DeleteUnchecked(key) ==
  /\ LET h == delete(key) IN Becomes(h, collapsed(h), it)
  /\ Strays' <= MaxStray
  /\ count' = count - 1
  /\ Changed("dropped")

Delete(key) ==
  /\ Get(key) # {}
  /\ LET h == delete(key) IN Becomes(h, collapsed(h), it)
  /\ Strays' <= MaxStray
  /\ count' = count - 1
  /\ Changed("dropped")

-----------------------------------------------------------------------------
Init ==
  /\ order \in DOMAIN Entries
  /\ heap = <<Leaf(<<>>, <<>>, NoNode)>>
  /\ count = 0
  /\ it = NoIterator
  /\ scan = NoScan

Next ==
  /\ \/ \E entry \in Entries[order] : Put(entry[1], entry[2])
     \/ \E key \in Keys : Delete(key)
     \/ \E range \in Ranges : Scan(range[1], range[2])
     \/ IterNext
     \/ Close
  /\ UNCHANGED order

Spec == Init /\ [][Next]_vars

-----------------------------------------------------------------------------
(* Validate, the tree's own check of itself. *)

inTree == Below(heap, root)

\* The leaves of the tree from left to right.
leaves == LET isLeaf(n) == heap[n].leaf IN SelectSeq(inTree, isLeaf)

keysBelow ==
  LET below[n \in DOMAIN heap] ==
        Range(heap[n].keys) \cup UNION {below[c] : c \in Range(heap[n].children)}
  IN below

depthsBelow ==
  LET depths[n \in DOMAIN heap] ==
        IF heap[n].leaf THEN {0}
        ELSE {d + 1 : d \in UNION {depths[c] : c \in Range(heap[n].children)}}
  IN depths[root]

\* What check asks of one node.  A child's bounds are the keys around it, and
\* hold of every key below the child, as the bounds it inherits do.
checkNode(n) ==
  LET keys == heap[n].keys   children == heap[n].children IN
  /\ \A i \in 2 .. Len(keys) : keys[i - 1] < keys[i]
  /\ Len(keys) <= maxKeys
  /\ n # root => Len(keys) >= minKeys
  /\ heap[n].leaf => Len(heap[n].rows) = Len(keys)
  /\ ~heap[n].leaf =>
       /\ Len(children) = Len(keys) + 1
       /\ Len(children) >= 2
       /\ \A i \in DOMAIN children : \A k \in keysBelow[children[i]] :
            /\ i > 1 => k >= keys[i - 1]
            /\ i <= Len(keys) => k < keys[i]

checkLeafChain ==
  \A i \in DOMAIN leaves :
    heap[leaves[i]].next = IF i < Len(leaves) THEN leaves[i + 1] ELSE NoNode

Validate ==
  /\ \A n \in Range(inTree) : checkNode(n)
  /\ Cardinality(depthsBelow) = 1
  /\ checkLeafChain

=============================================================================
