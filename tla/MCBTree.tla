------------------------------ MODULE MCBTree -------------------------------
(* Trees of the two least orders, and scans of a few keys.                 *)
EXTENDS BTreeProps, TLC

CONSTANTS a, b

\* From each key, up to one in the middle or without an upper bound.
SomeRanges == {range \in Keys \X {3, Unbounded} : range[1] <= range[2]}

\* Keys with one row each, and one key with two.
With(keys, key) == (keys \X {a}) \cup {<<key, b>>}

TreeEntries == (3 :> With(Keys, 4)) @@ (4 :> (Keys \ {0}) \X {a})
ScanEntries == 3 :> With(Keys, 2)

=============================================================================
