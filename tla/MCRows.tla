------------------------------- MODULE MCRows --------------------------------
(* Rows of five fields, in words of nine bits and bytes of three.          *)
EXTENDS Rows

FiveFields == <<"int", "string", "int", "bool", "float">>

\* Ints of one, four and five bytes; floats of both signs, a NaN and a zero.
SomeValues ==
  [int    |-> {-256, -1, 40},
   string |-> {<<>>, <<7>>, <<1, 4>>},
   bool   |-> BOOLEAN,
   float  |-> {Zero, NaN + 1}]

=============================================================================
