------------------------------ MODULE MC_Peer ------------------------------
(* A bounded instance of XtransPeer.                                       *)
EXTENDS XtransPeer

\* None, and lengths at which the name just fits or does not into an address
\* of 2, 16 and 28 bytes.
MCLens == {0, 1, 2, 15, 16, 27, 28}
=============================================================================
