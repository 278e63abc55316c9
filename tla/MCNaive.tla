------------------------------- MODULE MCNaive -------------------------------
(* Two keys of one letter; a value of two, which a crash can cut, a delete, and a *)
(* value of returns, of which the scanner takes one and Compact the other.        *)
EXTENDS Naive

SomeKeys   == {<<3>>, <<4>>}
SomeValues == {<<>>, <<5, 6>>, <<Return, Return>>}

=============================================================================
