--------------------------- MODULE XtransAddress ---------------------------
(***************************************************************************)
(* Addresses in the X transport library (include/X11/Xtrans/Xtrans.c:      *)
(* ParseAddress and SelectTransport).                                      *)
(*                                                                         *)
(* An address is a sequence of tokens: the four characters the parser      *)
(* looks for, and words, which it never looks into.                        *)
(***************************************************************************)
EXTENDS Naturals, Sequences, SequencesExt

CONSTANTS
  Words,       \* words an address may contain, names of transports included
  Lower,       \* Lower[w]: the word in lower case
  IPv6Texts    \* token sequences that inet_pton accepts as IPv6 addresses

TransNames == {"tcp", "inet6", "inet", "local", "unix"}

Tokens == {"/", ":", "[", "]"} \union Words

ASSUME AddressAssumption ==
  /\ Lower \in [Words -> Words]
  /\ \A w \in Words \intersect TransNames : Lower[w] = w
  /\ \A text \in IPv6Texts :
       text \in Seq(Tokens) /\ Len(text) >= 2 /\ Head(text) # "["

Hostname == <<"hostname">>   \* what GetHostname returns
Failed == [protocol |-> <<>>, host |-> <<>>, port |-> <<>>]

-----------------------------------------------------------------------------
(* ParseAddress.  A definition named Bug... is a variant of the one that   *)
(* follows it with a plausible mistake; no specification uses it.          *)

\* strchr and strrchr: a position, or 0.
strchr(s, ch) == SelectInSeq(s, LAMBDA e : e = ch)
strrchr(s, ch) == SelectLastInSeq(s, LAMBDA e : e = ch)

Before(s, k) == SubSeq(s, 1, k - 1)
After(s, k) == SubSeq(s, k + 1, Len(s))

BugSplitProtocol(s) ==
  LET slash == strchr(s, "/")
  IN [protocol |-> IF slash = 0 THEN <<>>
                   ELSE IF slash = 1 THEN <<"tcp">> ELSE Before(s, slash),
      rest |-> After(s, slash)]

\* The protocol part and the rest, without or with a '/'.
SplitProtocol(s) ==
  LET slash == strchr(s, "/")
      rest == After(s, slash)
  IN IF slash = 0
       THEN [protocol |->
               IF strrchr(s, ":") = 1 THEN <<"local">> ELSE <<"tcp">>,
             rest |-> s]
       ELSE [protocol |->
               IF slash # 1 THEN Before(s, slash)
               ELSE IF rest # <<>> /\ Head(rest) = ":" THEN <<"local">>
               ELSE <<"tcp">>,
             rest |-> rest]

Brackets(host) ==
  Len(host) > 3 /\ host[1] = "[" /\ host[Len(host)] = "]"
    /\ SubSeq(host, 2, Len(host) - 1) \in IPv6Texts

BugHostPart(protocol, host) ==
  IF host = <<>> THEN [protocol |-> protocol, host |-> Hostname]
  ELSE IF Brackets(host)
    THEN [protocol |-> <<"inet6">>, host |-> SubSeq(host, 2, Len(host) - 1)]
  ELSE [protocol |-> protocol, host |-> host]

\* An empty host is this one; [numeric_addr] makes the protocol inet6.
HostPart(protocol, host) ==
  IF host = <<>> THEN [protocol |-> protocol, host |-> Hostname]
  ELSE IF protocol \in {<<"tcp">>, <<"inet6">>} /\ Brackets(host)
    THEN [protocol |-> <<"inet6">>, host |-> SubSeq(host, 2, Len(host) - 1)]
  ELSE [protocol |-> protocol, host |-> host]

\* Everything after the last ':'; a catalogue is cut off where the library is
\* built for fonts (FONT_t or FS_t).
PortPart(font, s) ==
  LET slash == strchr(s, "/")
  IN IF font /\ slash # 0 THEN Before(s, slash) ELSE s

\* The ':' that ends the host.
Colon(rest) == strrchr(rest, ":")

ParseAddress(font, s) ==
  LET split == SplitProtocol(s)
      colon == Colon(split.rest)
      hp == HostPart(split.protocol, Before(split.rest, colon))
  IN IF colon = 0 THEN Failed
     ELSE [protocol |-> hp.protocol, host |-> hp.host,
           port |-> PortPart(font, After(split.rest, colon))]

-----------------------------------------------------------------------------
(* SelectTransport.                                                        *)

\* SelectTransport: the transport of that name, in upper or lower case, or
\* NULL.
SelectTransport(protocol) ==
  IF Len(protocol) = 1 /\ Head(protocol) \in Words
       /\ Lower[Head(protocol)] \in TransNames
    THEN Lower[Head(protocol)] ELSE "NULL"

=============================================================================
