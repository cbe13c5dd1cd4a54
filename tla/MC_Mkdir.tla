----------------------------- MODULE MC_Mkdir -----------------------------
(* A bounded instance of XtransMkdir: two callers, one of them root, and   *)
(* two directories that the name may be given to in turn.                  *)
EXTENDS XtransMkdir, TLC

CONSTANTS root, user, first, second, outside

MCCallers == {root, user}
MCRoot == {root}
MCInodes == {first, second, outside}

Symmetry == Permutations({first, second})
=============================================================================
