----------------------------- MODULE XtransUnix -----------------------------
(***************************************************************************)
(* A client of the X transport library that dials one address, again and   *)
(* again, and the server it looks for (include/X11/Xtrans/Xtrans.c: Open,  *)
(* Connect, Close; Xtranssock.c: SocketUNIXConnect, UnixHostReallyLocal,   *)
(* set_sun_path, SocketUNIXClose).  The address goes through the parser of *)
(* XtransAddress; what it says for TCP goes on in XtransConnect.           *)
(*                                                                         *)
(* Names in the file system and abstract names are sequences of tokens, as *)
(* addresses are; a token counts as one character.                         *)
(***************************************************************************)
EXTENDS XtransAddress, FiniteSets

CONSTANTS
  Addresses,     \* the addresses given to Open
  AddrsOf,       \* AddrsOf[host]: its addresses, for hosts that have any
  UNIX_PATH,     \* the beginning of a socket file's name
  SunPathSize,   \* sizeof (sun_path)
  ServerPorts    \* ports that a server on this machine may serve

ASSUME UnixAssumption ==
  /\ Addresses \subseteq Seq(Tokens)
  /\ Hostname \in DOMAIN AddrsOf
  /\ \A host \in DOMAIN AddrsOf : AddrsOf[host] # {}
  /\ UNIX_PATH \in Seq(Tokens) /\ UNIX_PATH # <<>> /\ Head(UNIX_PATH) = "/"
  /\ SunPathSize \in Nat \ {0}
  /\ ServerPorts \subseteq Seq(Tokens) \ {<<>>}

VARIABLES
  font,      \* the library is built for fonts: FONT_t or FS_t
  address,   \* the argument of Open and Connect
  parsed,    \* the components ParseAddress has returned, or Failed
  trans,     \* the transport SelectTransport has returned, or "NULL"
  pc,        \* where the client is
  abstract,  \* TRANS_ABSTRACT is set in the record of "local"
  addrSet,   \* ciptr->addr is set
  peer,      \* the port of the server at the other end, or <<>>
  srv,       \* the port of the server that runs, or <<>>
  on         \* the names it listens under: "abstract", "file"

conn == <<addrSet, peer>>
server == <<srv, on>>
vars == <<font, address, parsed, trans, pc, abstract, conn, server>>

Init ==
  /\ font \in BOOLEAN
  /\ address \in Addresses
  /\ parsed = Failed
  /\ trans = "NULL"
  /\ pc = "start"
  /\ abstract = TRUE
  /\ addrSet = FALSE /\ peer = <<>>
  /\ srv = <<>> /\ on = {}

-----------------------------------------------------------------------------
(* Open and the first part of Connect.                                     *)

Parse ==
  /\ pc = "start"
  /\ parsed' = ParseAddress(font, address)
  /\ pc' = IF ParseAddress(font, address) = Failed THEN "null" ELSE "parsed"
  /\ UNCHANGED <<font, address, trans, abstract, conn, server>>

\* One of the copies cannot be allocated: all components are NULL.
ParseNoMem ==
  /\ pc = "start"
  /\ pc' = "null"
  /\ UNCHANGED <<font, address, parsed, trans, abstract, conn, server>>

\* The transport is looked up and opens a socket.
Open ==
  /\ pc = "parsed"
  /\ trans' = SelectTransport(parsed.protocol)
  /\ pc' = IF trans' = "NULL" THEN "null" ELSE "open"
  /\ UNCHANGED <<font, address, parsed, abstract, conn, server>>

\* socket(2) or an allocation fails.
OpenFails ==
  /\ pc = "parsed"
  /\ trans' = SelectTransport(parsed.protocol)
  /\ trans' # "NULL"
  /\ pc' = "null"
  /\ UNCHANGED <<font, address, parsed, abstract, conn, server>>

\* Connect parses the address again and wants a port.
Connect ==
  /\ pc = "open"
  /\ pc' = IF ParseAddress(font, address).port = <<>> THEN "failed"
           ELSE IF trans \in {"local", "unix"} THEN "unix" ELSE "inet"
  /\ UNCHANGED <<font, address, parsed, trans, abstract, conn, server>>

\* For which the memory may be missing.
ConnectNoMem ==
  /\ pc = "open"
  /\ pc' = "failed"
  /\ UNCHANGED <<font, address, parsed, trans, abstract, conn, server>>

-----------------------------------------------------------------------------
(* SocketUNIXConnect.  A definition named Bug... is a variant of the one   *)
(* that follows it with a plausible mistake; no specification uses it.     *)

\* UnixHostReallyLocal: the name of this host, or an address in common.
ReallyLocal(host) ==
  \/ host = Hostname
  \/ /\ host \in DOMAIN AddrsOf
     /\ AddrsOf[host] \intersect AddrsOf[Hostname] # {}

BugHostAccepted(host) ==
  \/ Head(host) = "/" \/ host = <<"unix">>
  \/ host \notin DOMAIN AddrsOf \/ ReallyLocal(host)

\* The parser has put a host where there was none.
HostAccepted(host) ==
  Head(host) = "/" \/ host = <<"unix">> \/ ReallyLocal(host)

HostRefused ==
  /\ pc = "unix"
  /\ ~HostAccepted(parsed.host)
  /\ pc' = "failed"
  /\ UNCHANGED <<font, address, parsed, trans, abstract, conn, server>>

\* getaddrinfo fails for this host or for the other one.
LookupFails ==
  /\ pc = "unix"
  /\ Head(parsed.host) # "/" /\ parsed.host \notin {<<"unix">>, Hostname}
  /\ pc' = "failed"
  /\ UNCHANGED <<font, address, parsed, trans, abstract, conn, server>>

HasAt(port) == Head(port) = "@"
Upath(port) == IF HasAt(port) \/ Head(port) = "/" THEN <<>> ELSE UNIX_PATH

BugTooLong(port) == FALSE

\* set_sun_path returns -1.  The '@' it may put in front is not counted.
TooLong(port) == Len(port) + Len(Upath(port)) > SunPathSize - 1

\* set_sun_path: snprintf cuts what does not fit.
set_sun_path(port, abs) ==
  LET full == (IF abs /\ ~HasAt(port) THEN <<"@">> ELSE <<>>)
                \o Upath(port) \o port
  IN SubSeq(full, 1, IF Len(full) < SunPathSize THEN Len(full)
                     ELSE SunPathSize - 1)

\* The name given to the kernel: the first character of an abstract one is
\* replaced by NUL.
SunName(port, abs) ==
  [abstract |-> abs,
   path |-> IF abs THEN Tail(set_sun_path(port, TRUE))
                   ELSE set_sun_path(port, FALSE)]

\* The names the server listens under, which it makes with set_sun_path too.
ServerNames ==
  IF srv = <<>> THEN {} ELSE {SunName(srv, n = "abstract") : n \in on}

Abstract == trans = "local" /\ abstract

PathTooLong ==
  /\ pc = "unix"
  /\ HostAccepted(parsed.host)
  /\ TooLong(parsed.port)
  /\ pc' = "failed"
  /\ UNCHANGED <<font, address, parsed, trans, abstract, conn, server>>

Dials == pc = "unix" /\ HostAccepted(parsed.host) /\ ~TooLong(parsed.port)

Reachable == SunName(parsed.port, Abstract) \in ServerNames

\* connect(2) succeeds and the addresses are recorded.
Connected ==
  /\ Dials /\ Reachable
  /\ pc' = "connected"
  /\ addrSet' = TRUE /\ peer' = srv
  /\ UNCHANGED <<font, address, parsed, trans, abstract, server>>

\* It succeeds, and there is no memory for one of the addresses: the caller is
\* told of a failure.  ciptr->addr may have been allocated, but is not filled.
ConnectedNoMem ==
  /\ Dials /\ Reachable
  /\ pc' = "failed"
  /\ addrSet' \in BOOLEAN
  /\ UNCHANGED <<font, address, parsed, trans, abstract, peer, server>>

BugRefused ==
  /\ Dials /\ ~Reachable
  /\ pc' = IF Abstract THEN "again" ELSE "refused"
  /\ UNCHANGED <<font, address, parsed, trans, abstract, conn, server>>

\* ENOENT or ECONNREFUSED ("again" returns TRANS_TRY_CONNECT_AGAIN, "refused"
\* and "failed" TRANS_CONNECT_FAILED): from an abstract name the transport
\* falls back to the file, for this and for all later connections of the
\* process.
Refused ==
  /\ Dials /\ ~Reachable
  /\ pc' = IF Abstract THEN "again" ELSE "refused"
  /\ abstract' = (abstract /\ ~Abstract)
  /\ UNCHANGED <<font, address, parsed, trans, conn, server>>

\* EINTR (TRANS_TRY_CONNECT_AGAIN too), EWOULDBLOCK or EINPROGRESS, and all
\* other errors.
ConnectErrs ==
  /\ Dials
  /\ pc' \in {"interrupted", "pending", "failed"}
  /\ UNCHANGED <<font, address, parsed, trans, abstract, conn, server>>

-----------------------------------------------------------------------------
(* Close, and the program around it.                                       *)

\* ciptr->flags: nothing but SocketCreateListener and SocketReopen sets any.
ConnFlags == {}

\* SocketUNIXClose unlinks the name in ciptr->addr: a listener's.
Unlinks == ConnFlags # {} /\ addrSet /\ ~Abstract

\* Close, after which the program dials again; at once after
\* TRANS_TRY_CONNECT_AGAIN, when it likes after another end.
Close ==
  /\ pc \in {"again", "interrupted", "pending", "refused", "failed",
             "connected"}
  /\ pc' = "start"
  /\ on' = IF Unlinks /\ SunName(parsed.port, FALSE) \in ServerNames
             THEN on \ {"file"} ELSE on
  /\ addrSet' = FALSE /\ peer' = <<>>
  /\ UNCHANGED <<font, address, parsed, trans, abstract, srv>>

\* Open has returned NULL.
Redial ==
  /\ pc = "null"
  /\ pc' = "start"
  /\ UNCHANGED <<font, address, parsed, trans, abstract, conn, server>>

\* What the address says for TCP.
Elsewhere == pc = "inet" /\ UNCHANGED vars

\* A server starts, under one name or both, and ends.  Nothing depends on it
\* before the call of Connect, and its steps are left out until then.  One
\* whose port makes too long a name does not start.
ServerStart(port, names) ==
  /\ pc \notin {"start", "parsed", "null", "inet"}
  /\ srv = <<>> /\ names # {} /\ ~TooLong(port)
  /\ srv' = port /\ on' = names
  /\ UNCHANGED <<font, address, parsed, trans, pc, abstract, conn>>

ServerStop ==
  /\ srv # <<>>
  /\ srv' = <<>> /\ on' = {}
  /\ UNCHANGED <<font, address, parsed, trans, pc, abstract, conn>>

\* What may fail for a while: memory, sockets, the name service, and a
\* connect(2) that is interrupted, would block or meets another error.
Mishap ==
  \/ ParseNoMem \/ OpenFails \/ ConnectNoMem
  \/ LookupFails \/ ConnectedNoMem \/ ConnectErrs

Client ==
  \/ Mishap
  \/ Parse \/ Open \/ Connect
  \/ HostRefused \/ PathTooLong \/ Connected \/ Refused
  \/ Close \/ Redial

Next ==
  \/ Client
  \/ Elsewhere
  \/ \E port \in ServerPorts, names \in SUBSET {"abstract", "file"} :
       ServerStart(port, names)
  \/ ServerStop

Spec == Init /\ [][Next]_vars

\* The calls return, and the program dials again whenever it has failed, as
\* the comment in SocketUNIXConnect suggests for a server that starts slowly.
FairSpec == Spec /\ WF_vars(Client)

-----------------------------------------------------------------------------
(* Properties.                                                             *)

Bare(s, ch) == ~Contains(s, ch)

Part(a, b) == SubSeq(address, a, b)

\* A reading of the address in the form "protocol/host:port", followed by
\* "/catalogue" or not for fonts: k is the position of the '/' (0 when "the
\* protocol part is missing"), m that of the ':', which is not in the port, and
\* n the end of the port.
Reading(k, m, n) ==
  /\ k < m /\ m <= n
  /\ IF k = 0 THEN Bare(address, "/")
              ELSE address[k] = "/" /\ Bare(Part(1, k - 1), "/")
  /\ address[m] = ":" /\ Bare(Part(m + 1, Len(address)), ":")
  /\ IF font THEN /\ n = Len(address) \/ address[n + 1] = "/"
                  /\ Bare(Part(m + 1, n), "/")
             ELSE n = Len(address)

Places == 1 .. Len(address)

\* The protocol of a reading: what is written, or local where neither protocol
\* nor host is, or tcp where only a host is.  A host that begins with ':'
\* behind an empty protocol part ("/::0") is left open: the comment says TCP,
\* and the code, which looks at that one character, takes it for none.
Protocols(k, m) ==
  IF k > 1 THEN {Part(1, k - 1)}
  ELSE IF m = k + 1 THEN {<<"local">>}
  ELSE IF k = 1 /\ address[2] = ":" THEN {<<"tcp">>, <<"local">>}
  ELSE {<<"tcp">>}

\* ParseAddress takes an address apart at the first '/' and the last ':', the
\* catalogue aside, however many of them the parts hold, and fails only where
\* no such reading exists.  It leaves the parts as they are written, but for
\* the name of this host where there is no host and the brackets of an IPv6
\* address, which go, with the protocol changed, for two protocols only.
\* (The comment of ParseAddress also says 'If a "::" is found then assume
\* DNET'; no address is taken for that, and this property does not ask it.)
PartsAsWritten ==
  /\ pc = "parsed" => \E k \in Places \union {0}, m, n \in Places :
       LET host == Part(k + 1, m - 1)
           six == {text \in IPv6Texts : host = <<"[">> \o text \o <<"]">>}
       IN /\ Reading(k, m, n)
          /\ parsed.port = Part(m + 1, n)
          /\ \E p \in Protocols(k, m) :
               IF six # {} /\ p \in {<<"tcp">>, <<"inet6">>}
                 THEN parsed.protocol = <<"inet6">> /\ parsed.host \in six
                 ELSE /\ parsed.protocol = p
                      /\ parsed.host = IF host = <<>> THEN Hostname ELSE host
  /\ pc = "start" /\ ParseAddress(font, address) = Failed =>
       \A k \in Places \union {0}, m, n \in Places : ~Reading(k, m, n)

Rebuilt == parsed.protocol \o <<"/">> \o parsed.host \o <<":">> \o parsed.port

\* The components are in the form that an address is written in: what
\* ParseAddress has returned, the defaults it filled in included, parses to
\* itself when it is written as "protocol/host:port", so that the form loses
\* nothing: a host with ':' or '/' in it, or one that lost its brackets, is found
\* again.
RebuiltParsesAlike ==
  pc \in {"parsed", "open", "unix"} => ParseAddress(font, Rebuilt) = parsed

\* A connection over a UNIX socket is made only for an address whose host, as
\* it is written, is missing, a path, "unix", or this machine by its addresses:
\* the defaults of the parser and the check of SocketUNIXConnect together.
OnlyLocal ==
  pc = "connected" => \E k \in Places \union {0}, m, n \in Places :
    LET host == Part(k + 1, m - 1)
    IN /\ Reading(k, m, n)
       /\ \/ host = <<>> \/ Head(host) = "/" \/ host = <<"unix">>
          \/ /\ host \in DOMAIN AddrsOf
             /\ AddrsOf[host] \intersect AddrsOf[Hostname] # {}

\* A port as a whole path, without the '@' of an abstract name.
Full(port) == Upath(port) \o (IF HasAt(port) THEN Tail(port) ELSE port)

\* The one case in which a name is cut: the path fits, '@' and the path do not.
CutAlike(p, q) ==
  /\ Len(Full(p)) <= SunPathSize - 1 /\ Len(Full(q)) <= SunPathSize - 1
  /\ SunPathSize - 1 \in {Len(Full(p)), Len(Full(q))}
  /\ SubSeq(Full(p), 1, SunPathSize - 2) = SubSeq(Full(q), 1, SunPathSize - 2)

\* The server at the other end serves the port that was dialled, however the
\* two were written and whichever of the two names was used, unless the
\* abstract name of one is cut: set_sun_path does not count the '@' it adds.
RightServer ==
  pc = "connected" =>
    Full(peer) = Full(parsed.port) \/ CutAlike(peer, parsed.port)

\* The server has the socket file that the client's address leads to.
Served ==
  /\ parsed # Failed /\ parsed.port # <<>> /\ trans \in {"local", "unix"}
  /\ HostAccepted(parsed.host) /\ ~TooLong(parsed.port)
  /\ SunName(parsed.port, FALSE) \in ServerNames

\* A client that keeps dialling gets through to a server that stays up with its
\* socket file, once the mishaps end, also when the server has no abstract name
\* or came late.  (A server without a file is not reached any more
\* once the client has fallen back: the flag does not come back.)
Reaches ==
  <>[]Served /\ <>[][~Mishap]_vars => []<>(pc = "connected")

=============================================================================
