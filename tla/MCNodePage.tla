----------------------------- MODULE MCNodePage -----------------------------
(* A page of a few dozen bytes, with short keys.                           *)
EXTENDS NodePage

ShortKeys == {<<>>, <<1>>, <<2>>, <<1, 2>>}

=============================================================================
