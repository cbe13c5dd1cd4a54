------------------------------ MODULE MC_Unix ------------------------------
(* A bounded instance of XtransUnix.                                       *)
EXTENDS XtransUnix

MCWords == {"tcp", "TCP", "inet6", "local", "unix", "w", "@"}
MCLower == [w \in MCWords |-> IF w = "TCP" THEN "tcp" ELSE w]

\* "::", the shortest IPv6 address.
MCTexts == {<<":", ":">>}

\* Every address of at most four tokens, and hosts of at most four between a
\* protocol and a port, in brackets or not.
Short == BoundedSeq({"/", ":", "[", "]", "tcp", "w"}, 4)
Hosts == BoundedSeq({"/", ":", "[", "]", "w"}, 4)

\* Ports of which the longest fits exactly, and one that does not; paths, and
\* names with an '@'.
Ports ==
  {<<"w">>, <<"tcp">>, <<"w", "w">>, <<"w", "tcp">>, <<"w", "w", "w">>,
   <<"/", "w", "w">>, <<"@", "/", "w", "w">>, <<"@", "w">>, <<>>}

MCAddresses ==
  Short \union {<<p, "/">> \o h \o <<":", "w">> : p \in MCWords, h \in Hosts}
        \union {h \o <<":", "w">> : h \in Hosts}
        \union {<<p, "/">> \o h \o <<":">> \o port :
                  p \in {"local", "unix"}, port \in Ports,
                  h \in {<<>>, <<"w">>, <<"tcp">>, <<"unix">>, <<"/", "w">>}}

\* "w" is another name of this host, "tcp" another machine; the other words
\* are not known to the name service.
MCAddrsOf ==
  [h \in {Hostname, <<"w">>, <<"tcp">>} |->
     IF h = <<"tcp">> THEN {1} ELSE IF h = Hostname THEN {2, 3} ELSE {3, 4}]

MCPath == <<"/", "w">>
MCServerPorts == {<<"w">>, <<"w", "w">>, <<"w", "tcp">>}
=============================================================================
