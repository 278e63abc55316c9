---------------------------- MODULE MCSyncParent -----------------------------
(* The directories /d and /d/e, and links named a and b in any of the three.  *)
EXTENDS SyncParent

Tree == {<<"/d", "d", "/">>, <<"/d/e", "e", "/d">>}

SomeTargets ==
  {Relative(comps) : comps \in {<<"a">>, <<"b">>, <<"d", "e">>, <<"e", "a">>, <<"a", "b">>,
                                <<Dots, "b">>, <<"a", Dots, "b">>, <<"d">>}}
  \cup {Absolute(comps) : comps \in {<<"a">>, <<"d", "e", "b">>}}

=============================================================================
