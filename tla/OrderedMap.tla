----------------------------- MODULE OrderedMap -----------------------------
(***************************************************************************)
(* What an index promises (internal/index): a map from keys to row ids.    *)
(***************************************************************************)
EXTENDS Integers

CONSTANTS Keys, Rows

VARIABLES
  map,     \* for each key the set of its one row, empty when it is not there
  count    \* how many keys there are

vars == <<map, count>>

OthersStay(key) == \A k \in Keys \ {key} : map'[k] = map[k]

Put(key, row) ==
  /\ map'[key] = {row}
  /\ OthersStay(key)
  /\ count' = IF map[key] = {} THEN count + 1 ELSE count

Delete(key) ==
  /\ map[key] # {} /\ map'[key] = {}
  /\ OthersStay(key)
  /\ count' = count - 1

Init == map = [k \in Keys |-> {}] /\ count = 0

Next ==
  \/ \E key \in Keys, row \in Rows : Put(key, row)
  \/ \E key \in Keys : Delete(key)

Spec == Init /\ [][Next]_vars

=============================================================================
