----------------------------- MODULE MC_Connect -----------------------------
(* Bounded instances of XtransConnect.                                     *)
EXTENDS XtransConnect, SequencesExt

CONSTANTS c1, c2, h1, h2

\* One connection, or two to two hosts.
OneHost == [c \in Conns |-> h1]
TwoHosts == [c \in Conns |-> IF c = c1 THEN h1 ELSE h2]

Tcp == [c \in Conns |-> "tcp"]
TcpAndInet == [c \in Conns |-> IF c = c1 THEN "tcp" ELSE "inet"]

\* Every list of at most two IP addresses, and of at most three addresses.
Lists2 == BoundedSeq({"in", "in6"}, 2) \ {<<>>}
Lists3 == BoundedSeq(Families, 3) \ {<<>>}

\* A host with an IPv6 and an IPv4 address.
TwoAddresses == {<<"in6", "in">>}
=============================================================================
