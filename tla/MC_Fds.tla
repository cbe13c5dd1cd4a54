------------------------------- MODULE MC_Fds -------------------------------
(* Bounded instances of XtransFds.                                         *)
EXTENDS XtransFds
=============================================================================
