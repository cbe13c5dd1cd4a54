----------------------------- MODULE MC_Listen -----------------------------
(* Bounded instances of XtransListen.                                      *)
EXTENDS XtransListen, TLC

Sym == Permutations(Servers)

NoUnits == {<<>>}

\* Nothing, or the socket of the display's file.
FewUnits == {<<>>, <<"unix">>}

\* Nothing, one socket of each kind, pairs that meet in one transport or not,
\* three of one kind, and one more than there are places.
MCUnits ==
  {<<>>, <<"dual">>, <<"inet">>, <<"unix">>, <<"other">>, <<"local", "unix">>,
   <<"inet6", "inet">>, <<"unix", "unix">>, <<"local", "other">>,
   <<"inet", "inet", "inet">>, 
   [k \in 1 .. NUMTRANS + 1 |-> IF k > NUMTRANS THEN "inet" ELSE "local"]}
=============================================================================
