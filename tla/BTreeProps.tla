----------------------------- MODULE BTreeProps -----------------------------
(***************************************************************************)
(* What the B+tree promises, to a client of the map and to one of a scan.  *)
(***************************************************************************)
EXTENDS BTree

Pointers == DOMAIN heap \cup {NoNode}

Node ==
  [leaf : BOOLEAN, keys : Seq(Keys), rows : Seq(Rows), children : Seq(DOMAIN heap),
   next : Pointers]

\* Every pointer of the tree and of the iterator leads to a node or to none.
TypeOK ==
  /\ heap \in Seq(Node) /\ heap # <<>>
  /\ count \in Nat /\ order \in DOMAIN Entries
  /\ it \in [state : {"none", "open", "done"}, node : Pointers, i : Nat, to : Nat]

\* After any series of calls the tree passes its own Validate and Len is the
\* number of its keys: nodes in their size limits, every key in its subtree's
\* bounds, leaves at one depth, and the chain through each leaf in order.
TreeValid ==
  /\ Validate
  /\ count = Cardinality(UNION {Range(heap[n].keys) : n \in Range(leaves)})

\* The tree is a map: Put and Delete change what Get finds for their key alone.
Map == INSTANCE OrderedMap WITH map <- [k \in Keys |-> Get(k)]

ImplementsMap == Map!Spec

-----------------------------------------------------------------------------
(* Scans. *)

InRange(k) == scan.from <= k /\ k < it.to

Expected == {k \in Found : InRange(k)}

\* A scan over a tree that does not change shows the keys of its half-open range
\* and their rows, each once and in order, and ends when there are no more.
ScanIsExact ==
  it.state # "none" /\ scan.since = "same" =>
    LET inOrder == SetToSortSeq(Expected, <)
        all     == [i \in DOMAIN inOrder |-> <<inOrder[i], RowOf(inOrder[i])>>]
    IN /\ IsPrefix(scan.shown, all)
       /\ it.state = "done" => scan.shown = all

\* Put may show a scan a key twice, or one below its range, but it never hides one:
\* a key that was there when the scan began is shown before the scan ends, however
\* the leaves split under the iterator.
NothingMissed ==
  it.state = "done" /\ scan.since # "dropped" =>
    scan.present \subseteq {shown[1] : shown \in Range(scan.shown)}

\* While keys are only put, what an iterator shows is in the tree at that moment,
\* with the row it has then, and is below the upper bound.
ShowsWhatIsThere ==
  [][Len(scan'.shown) > Len(scan.shown) =>
       LET key == Last(scan'.shown)[1] IN
       key < it.to /\ Get(key) = {Last(scan'.shown)[2]}]_vars

\* Whatever is merged away or split under it, an open iterator is never on a chain
\* that loops: if the tree is left alone it ends.
ChainEnds ==
  LET within[d \in 0 .. Len(heap)] ==
        IF d = 0 THEN it.node
        ELSE LET n == within[d - 1] IN IF n = NoNode THEN n ELSE heap[n].next
  IN within[Len(heap)] = NoNode

=============================================================================
