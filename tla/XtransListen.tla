---------------------------- MODULE XtransListen ----------------------------
(***************************************************************************)
(* Server side of the X transport library: several server processes that   *)
(* contend for the addresses of one display (include/X11/Xtrans/Xtrans.c   *)
(* and Xtranssock.c; Linux build: IPv6, TCPCONN, UNIXCONN, abstract        *)
(* sockets, systemd).                                                      *)
(*                                                                         *)
(* A process configures its transport table (NoListen, Listen), runs       *)
(* MakeAllCOTSServerListeners, which walks the table and opens, binds and  *)
(* listens one transport after the other, and then serves: it accepts      *)
(* clients, resets and closes listeners, and ends.  The processes share    *)
(* the kernel's names: a TCP port per family, the abstract socket name and *)
(* the socket file in the file system.  A step of the model ends where the *)
(* code enters the kernel on one of those names, so any two processes      *)
(* interleave between any two such system calls.                           *)
(***************************************************************************)
EXTENDS Naturals, Sequences, FiniteSets

CONSTANTS
  Servers,        \* processes that may run as the server of the display
  Configurable,   \* protocols that NoListen and Listen are called for
  Units,          \* what systemd may hand over: sequences over Kinds
  Faults          \* what may go wrong, a subset of AllFaults

AllFaults ==
  {"systemd",     \* sd_listen_fds(3) fails
   "open",        \* socket(2) or calloc fails in SocketOpen
   "mkdir",       \* trans_mkdir refuses the directory
   "longpath",    \* set_sun_path finds the path too long
   "bind",        \* bind(2) fails with something other than EADDRINUSE
   "listen",      \* listen(2) fails
   "malloc",      \* no memory for an address or for the result
   "crash",       \* a process ends in the middle of an operation
   "restart",     \* a process that has ended is started again
   "cleaner",     \* somebody else removes the socket file
   "accept",      \* a client without an address of its own is accepted
   "client"}      \* the process also connects as a client

ASSUME ListenAssumption == Servers # {} /\ Faults \subseteq AllFaults

Transports == {"tcp", "inet6", "inet", "local", "unix"}

ASSUME ConfigAssumption == Configurable \subseteq Transports

\* A socket handed over: its family and, for AF_UNIX, whether it is abstract;
\* "dual" is an AF_INET6 socket that takes IPv4 as well, "other" any socket of
\* another family and a descriptor that getsockname(2) fails for.
Kinds == {"inet6", "dual", "inet", "local", "unix", "other"}

ASSUME UnitsAssumption == Units \subseteq Seq(Kinds)

VARIABLES
  pc,         \* pc[s]: where process s is
  i,          \* i[s]: index of the table walk in MakeAllCOTSServerListeners
  temp,       \* temp[s]: transports with a ciptr in temp_ciptrs, later the
              \* listeners the program holds
  ipv6_succ,  \* ipv6_succ[s]: the inet6 listener was made
  partial,    \* partial[s]: *partial, as returned
  flags,      \* flags[s][t]: TRANS_... flags of transport t in process s
  sock,       \* sock[s][t]: "none", "open", "bound" or "listening"
  at,         \* at[s][t]: the name the socket is bound to
  addr,       \* addr[s][t]: the name in ciptr->addr of the listener
  clipped,    \* clipped[s]: listeners whose addrlen an accept has cut down
  umask,      \* umask[s]: "user", or "zero" after umask(0)
  oldUmask,   \* oldUmask[s]: the local variable of the listener functions
  victim,     \* victim[s]: transport whose listener is closed or reset
  path,       \* the socket file: NoFile, or <<s, t>> that bound it
  units,      \* units[s]: sockets systemd made for process s and keeps open
  recv,       \* recv[s]: the listeners process s received, in temp_ciptrs
              \* in front of those in temp
  inCwd,      \* inCwd[s]: a socket file named after the port in s's directory
  oom         \* history: an allocation has failed in process s

walk == <<i, temp, ipv6_succ>>
sockets == <<sock, at>>
masks == <<umask, oldUmask>>
received == <<units, recv, inCwd>>
vars == <<pc, walk, partial, flags, sockets, addr, clipped, masks, victim,
          path, oom, received>>

NoFile == <<>>

-----------------------------------------------------------------------------
(* The transport table.  A definition named Bug... is a variant of the one *)
(* that follows it with a plausible mistake; no specification uses it.     *)

BugXtransports == <<"tcp", "inet6", "inet", "unix", "local">>

Xtransports == <<"tcp", "inet6", "inet", "local", "unix">>
NUMTRANS == Len(Xtransports)
Position(t) == CHOOSE j \in 1 .. NUMTRANS : Xtransports[j] = t

IsUnix(t) == t \in {"local", "unix"}

\* The flags the transport structures are compiled with.
InitialFlags ==
  [t \in Transports |->
     IF t = "tcp" THEN {"ALIAS"} ELSE IF t = "local" THEN {"ABSTRACT"} ELSE {}]

\* tcp_nolisten; unix_nolisten is not consulted, "unix" being no alias here.
NolistenOf(t) == IF t = "tcp" THEN {"inet", "inet6"} ELSE {}

\* The transports NoListen(p) and Listen(p) reach: p itself and, when p is
\* an alias, those it stands for.
Reach(fl, p) == {p} \union (IF "ALIAS" \in fl[p] THEN NolistenOf(p) ELSE {})

BugSkipped(fl, t) == {"ALIAS", "NOLISTEN"} \intersect fl[t] # {}

Skipped(fl, t) == {"ALIAS", "NOLISTEN", "RECEIVED"} \intersect fl[t] # {}

BugCompleteNetworkCount(fl) ==
  Cardinality({t \in Transports :
                 {"ALIAS", "NOLISTEN", "ABSTRACT"} \intersect fl[t] = {}})

\* complete_network_count: no transport of this build has TRANS_LOCAL, so
\* every transport that is neither an alias nor switched off counts.
complete_network_count(fl) ==
  Cardinality({t \in Transports : {"ALIAS", "NOLISTEN"} \intersect fl[t] = {}})

-----------------------------------------------------------------------------
UnitKinds(s) == {units[s][k] : k \in 1 .. Len(units[s])}

\* A socket file may be left over from an earlier run, or belong to a socket
\* of systemd, which starts at most one of the processes.
Init ==
  /\ pc = [s \in Servers |-> "idle"]
  /\ i = [s \in Servers |-> 1]
  /\ temp = [s \in Servers |-> {}]
  /\ ipv6_succ = [s \in Servers |-> FALSE]
  /\ partial = [s \in Servers |-> FALSE]
  /\ flags = [s \in Servers |-> InitialFlags]
  /\ sock = [s \in Servers |-> [t \in Transports |-> "none"]]
  /\ at = [s \in Servers |-> [t \in Transports |-> "none"]]
  /\ addr = [s \in Servers |-> [t \in Transports |-> "none"]]
  /\ clipped = [s \in Servers |-> {}]
  /\ umask = [s \in Servers |-> "user"]
  /\ oldUmask = [s \in Servers |-> "user"]
  /\ victim = [s \in Servers |-> "tcp"]
  /\ units \in [Servers -> Units]
  /\ \A s, o \in Servers : s = o \/ units[s] = <<>> \/ units[o] = <<>>
  /\ recv = [s \in Servers |-> <<>>]
  /\ inCwd = [s \in Servers |-> FALSE]
  /\ LET passed == {s \in Servers : "unix" \in UnitKinds(s)}
     IN path \in IF passed # {} THEN passed \X {"passed"}
                 ELSE {NoFile} \union (Servers \X {"unix"})
  /\ oom = [s \in Servers |-> FALSE]

Goto(s, label) == pc' = [pc EXCEPT ![s] = label]

Cur(s) == Xtransports[i[s]]

\* The end of an iteration of the table walk.
Continue(s) ==
  /\ Goto(s, "loop")
  /\ i' = [i EXCEPT ![s] = @ + 1]

SetSock(s, t, state, name) ==
  /\ sock' = [sock EXCEPT ![s][t] = state]
  /\ at' = [at EXCEPT ![s][t] = name]

BugKeepMask(s, t) == UNCHANGED masks

\* umask (oldUmask), where the transport has changed the mask.
RestoreMask(s, t) ==
  /\ umask' = IF IsUnix(t) THEN [umask EXCEPT ![s] = oldUmask[s]] ELSE umask
  /\ UNCHANGED oldUmask

ZeroMask(s) ==
  /\ oldUmask' = [oldUmask EXCEPT ![s] = umask[s]]
  /\ umask' = [umask EXCEPT ![s] = "zero"]

Abstract(s, t) == "ABSTRACT" \in flags[s][t]

\* The name a listener of transport t is to be bound to.
NameOf(s, t) ==
  IF ~IsUnix(t) THEN "port" ELSE IF Abstract(s, t) THEN "abstract" ELSE "path"

\* The transport of a socket that was handed over.
TransOf(kind) == IF kind = "dual" THEN "inet6" ELSE kind

\* Systemd keeps what it hands over: its sockets go on listening, a "dual"
\* one on the port of either family.
UnitHas(t) ==
  \E o \in Servers : \E k \in UnitKinds(o) :
    TransOf(k) = t \/ (k = "dual" /\ t = "inet")

\* bind(2) gives EADDRINUSE: for a TCP port, with SO_REUSEADDR, when another
\* socket listens on it; for an abstract name when another socket has it;
\* for a socket file when the file exists.
InUse(s, t) ==
  CASE NameOf(s, t) = "port" ->
         \/ UnitHas(t)
         \/ \E o \in Servers \ {s} :
              sock[o][t] = "listening" /\ at[o][t] = "port"
    [] NameOf(s, t) = "abstract" ->
         UnitHas(t) \/ \E o \in Servers \ {s} : at[o][t] = "abstract"
    [] NameOf(s, t) = "path" -> path # NoFile

-----------------------------------------------------------------------------
(* Configuration, before the listeners are made.                           *)

NoListen(s, p) ==
  /\ pc[s] = "idle"
  /\ flags' = [flags EXCEPT ![s] =
       [t \in Transports |->
          IF t \in Reach(flags[s], p) THEN flags[s][t] \union {"NOLISTEN"}
                                      ELSE flags[s][t]]]
  /\ UNCHANGED <<pc, walk, partial, sockets, addr, clipped, masks, victim,
                 path, oom, received>>

Listen(s, p) ==
  /\ pc[s] = "idle"
  /\ flags' = [flags EXCEPT ![s] =
       [t \in Transports |->
          IF t \in Reach(flags[s], p) THEN flags[s][t] \ {"NOLISTEN"}
                                      ELSE flags[s][t]]]
  /\ UNCHANGED <<pc, walk, partial, sockets, addr, clipped, masks, victim,
                 path, oom, received>>

-----------------------------------------------------------------------------
(* MakeAllCOTSServerListeners.                                             *)

\* The call, which begins with receive_listening_fds.
Start(s) ==
  /\ pc[s] = "idle"
  /\ Goto(s, "receive")
  /\ UNCHANGED <<walk, partial, flags, sockets, addr, clipped, masks, victim,
                 path, oom, received>>

\* receive_listening_fds: the socket it comes to.
HasUnit(s) == Len(recv[s]) < Len(units[s]) /\ Len(recv[s]) < NUMTRANS
NextUnit(s) == units[s][Len(recv[s]) + 1]

BugReceived(fl, kind) ==
  [fl EXCEPT ![IF kind = "local" THEN "unix" ELSE TransOf(kind)] =
     @ \union {"RECEIVED"}]

\* Received (tn).
Received(fl, kind) == [fl EXCEPT ![TransOf(kind)] = @ \union {"RECEIVED"}]

\* SocketReopen makes a listener of the socket, with flags that keep its name
\* from being unlinked.  Its address is the port's text, not the socket's name,
\* and the transport of an AF_UNIX socket is "unix" also when the name is
\* abstract.
Reopened(kind) == [kind |-> kind, at |-> "passed", clipped |-> FALSE]

Receive(s) ==
  /\ pc[s] = "receive" /\ HasUnit(s) /\ NextUnit(s) # "other"
  /\ recv' = [recv EXCEPT ![s] = Append(@, Reopened(NextUnit(s)))]
  /\ flags' = [flags EXCEPT ![s] = Received(@, NextUnit(s))]
  /\ UNCHANGED <<pc, walk, partial, sockets, addr, clipped, masks, victim,
                 path, oom, units, inCwd>>

\* sd_listen_fds fails, at the beginning, or a socket is of a family that is
\* not known, there is no memory, or the port is longer than 13 characters: the
\* call returns -1 with the listeners received so far in nobody's hands.
ReceiveFails(s) ==
  /\ pc[s] = "receive"
  /\ \/ recv[s] = <<>> /\ "systemd" \in Faults
     \/ /\ HasUnit(s)
        /\ \/ NextUnit(s) = "other"
           \/ {"malloc", "longpath"} \intersect Faults # {}
  /\ Goto(s, "unreceived")
  /\ UNCHANGED <<walk, partial, flags, sockets, addr, clipped, masks, victim,
                 path, oom, received>>

ReceiveEnd(s) ==
  /\ pc[s] = "receive" /\ ~HasUnit(s)
  /\ Goto(s, "loop")
  /\ UNCHANGED <<walk, partial, flags, sockets, addr, clipped, masks, victim,
                 path, oom, received>>

BugSkip(s) ==
  /\ pc[s] = "loop" /\ i[s] <= NUMTRANS
  /\ Skipped(flags[s], Cur(s))
  /\ UNCHANGED vars

\* An alias, a transport switched off or one received already.
Skip(s) ==
  /\ pc[s] = "loop" /\ i[s] <= NUMTRANS
  /\ Skipped(flags[s], Cur(s))
  /\ Continue(s)
  /\ UNCHANGED <<temp, ipv6_succ, partial, flags, sockets, addr, clipped,
                 masks, victim, path, oom, received>>

\* OpenCOTSServer returns NULL: on to the next transport.  A service or port
\* that SocketINETCreateListener cannot use ends it before bind(2) and has the
\* same effect on the names, with a socket left open that nobody keeps.
OpenFails(s) ==
  /\ "open" \in Faults
  /\ pc[s] = "loop" /\ i[s] <= NUMTRANS
  /\ ~Skipped(flags[s], Cur(s))
  /\ Continue(s)
  /\ UNCHANGED <<temp, ipv6_succ, partial, flags, sockets, addr, clipped,
                 masks, victim, path, oom, received>>

\* OpenCOTSServer, and the beginning of CreateListener up to its first use of
\* a shared name: for UNIX sockets umask (0), the directory, and the path.
OpenCOTSServer(s) ==
  /\ pc[s] = "loop" /\ i[s] <= NUMTRANS
  /\ ~Skipped(flags[s], Cur(s))
  /\ SetSock(s, Cur(s), "open", "none")
  /\ Goto(s, IF NameOf(s, Cur(s)) = "path" THEN "unlink" ELSE "bind")
  /\ IF IsUnix(Cur(s)) THEN ZeroMask(s) ELSE UNCHANGED masks
  /\ UNCHANGED <<walk, partial, flags, addr, clipped, victim, path, oom,
                 received>>

\* trans_mkdir fails: the mask is restored, the socket stays open, unused.
MkdirFails(s) ==
  /\ "mkdir" \in Faults
  /\ pc[s] = "unlink"
  /\ RestoreMask(s, Cur(s))
  /\ Continue(s)
  /\ UNCHANGED <<temp, ipv6_succ, partial, flags, sockets, addr, clipped,
                 victim, path, oom, received>>

\* set_sun_path refuses: the function returns without restoring the mask.
\* This comes before the unlink of a path and the bind of an abstract name.
PathTooLong(s) ==
  /\ "longpath" \in Faults
  /\ pc[s] \in {"unlink", "bind"} /\ IsUnix(Cur(s))
  /\ pc[s] = "bind" => NameOf(s, Cur(s)) = "abstract"
  /\ Continue(s)
  /\ UNCHANGED <<temp, ipv6_succ, partial, flags, sockets, addr, clipped,
                 masks, victim, path, oom, received>>

BugUnlink(s) ==
  /\ pc[s] = "unlink"
  /\ Goto(s, "bind")
  /\ UNCHANGED <<walk, partial, flags, sockets, addr, clipped, masks, victim,
                 path, oom, received>>

\* unlink (sockname.sun_path), whoever made the file.
Unlink(s) ==
  /\ pc[s] = "unlink"
  /\ path' = NoFile
  /\ Goto(s, "bind")
  /\ UNCHANGED <<walk, partial, flags, sockets, addr, clipped, masks, victim,
                 oom, received>>

\* bind(2) succeeds.
Bind(s) ==
  /\ pc[s] = "bind"
  /\ ~InUse(s, Cur(s))
  /\ SetSock(s, Cur(s), "bound", NameOf(s, Cur(s)))
  /\ path' = IF NameOf(s, Cur(s)) = "path" THEN <<s, Cur(s)>> ELSE path
  /\ Goto(s, "listen")
  /\ UNCHANGED <<walk, partial, flags, addr, clipped, masks, victim, oom,
                 received>>

\* ADDR_IN_USE_ALLOWED: the inet listener after the inet6 one succeeded.
InUseAllowed(s) == Cur(s) = "inet" /\ ipv6_succ[s]

\* EADDRINUSE that is allowed: the socket is left unbound.
BindAllowed(s) ==
  /\ pc[s] = "bind"
  /\ InUse(s, Cur(s)) /\ InUseAllowed(s)
  /\ Goto(s, "listen")
  /\ UNCHANGED <<walk, partial, flags, sockets, addr, clipped, masks, victim,
                 path, oom, received>>

BugBindInUse(s) ==
  /\ pc[s] = "bind"
  /\ InUse(s, Cur(s)) /\ ~InUseAllowed(s)
  /\ RestoreMask(s, Cur(s))
  /\ SetSock(s, Cur(s), "none", "none")
  /\ Continue(s)
  /\ UNCHANGED <<temp, ipv6_succ, partial, flags, addr, clipped, victim, path,
                 oom, received>>

\* EADDRINUSE otherwise: the whole call fails.  The socket just opened is
\* not closed; the listeners in temp_ciptrs are, one after the other.
BindInUse(s) ==
  /\ pc[s] = "bind"
  /\ InUse(s, Cur(s)) /\ ~InUseAllowed(s)
  /\ RestoreMask(s, Cur(s))
  /\ Goto(s, "abort")
  /\ UNCHANGED <<walk, partial, flags, sockets, addr, clipped, victim, path,
                 oom, received>>

\* bind(2) fails otherwise, for TCP 21 times with a sleep after each, which is
\* one step here: the socket is closed.
BindFails(s) ==
  /\ "bind" \in Faults
  /\ pc[s] = "bind"
  /\ SetSock(s, Cur(s), "none", "none")
  /\ RestoreMask(s, Cur(s))
  /\ Continue(s)
  /\ UNCHANGED <<temp, ipv6_succ, partial, flags, addr, clipped, victim, path,
                 oom, received>>

\* listen(2) on a TCP socket checks the port again: two sockets may be bound
\* to it, one may listen.
PortTaken(s, t) ==
  /\ at[s][t] = "port"
  /\ \E o \in Servers \ {s} : sock[o][t] = "listening" /\ at[o][t] = "port"

\* The name a socket has once it listens; the kernel picks a port for an
\* unbound TCP socket.
ListenName(s, t) == IF at[s][t] = "none" THEN "any" ELSE at[s][t]

\* *count_ret.
Count(s) == Len(recv[s]) + Cardinality(temp[s])

\* temp_ciptrs[*count_ret] = ciptr: the array has NUMTRANS places, and what
\* the process does when it writes past them is undefined.
Keep(s) ==
  /\ temp' = [temp EXCEPT ![s] = @ \union {Cur(s)}]
  /\ IF Count(s) < NUMTRANS THEN Continue(s)
     ELSE Goto(s, "overrun") /\ UNCHANGED i

\* listen(2) succeeds, the address is recorded, the listener is kept.
ListenOk(s) ==
  /\ pc[s] = "listen"
  /\ ~PortTaken(s, Cur(s))
  /\ SetSock(s, Cur(s), "listening", ListenName(s, Cur(s)))
  /\ addr' = [addr EXCEPT ![s][Cur(s)] = NameOf(s, Cur(s))]
  /\ ipv6_succ' = [ipv6_succ EXCEPT ![s] = @ \/ Cur(s) = "inet6"]
  /\ RestoreMask(s, Cur(s))
  /\ Keep(s)
  /\ UNCHANGED <<partial, flags, clipped, victim, path, oom, received>>

\* No memory for the address: the socket listens, but nobody keeps it.
ListenNoMem(s) ==
  /\ "malloc" \in Faults
  /\ pc[s] = "listen"
  /\ ~PortTaken(s, Cur(s))
  /\ SetSock(s, Cur(s), "listening", ListenName(s, Cur(s)))
  /\ RestoreMask(s, Cur(s))
  /\ oom' = [oom EXCEPT ![s] = TRUE]
  /\ Continue(s)
  /\ UNCHANGED <<temp, ipv6_succ, partial, flags, addr, clipped, victim, path,
                 received>>

\* listen(2) fails: the socket is closed; a socket file it made stays.
ListenFails(s) ==
  /\ pc[s] = "listen"
  /\ "listen" \in Faults \/ PortTaken(s, Cur(s))
  /\ SetSock(s, Cur(s), "none", "none")
  /\ RestoreMask(s, Cur(s))
  /\ Continue(s)
  /\ UNCHANGED <<temp, ipv6_succ, partial, flags, addr, clipped, victim, path,
                 oom, received>>

\* The end of the walk: *partial is computed and the listeners are returned.
Finish(s) ==
  /\ pc[s] = "loop" /\ i[s] > NUMTRANS
  /\ partial' = [partial EXCEPT ![s] =
                   Count(s) < complete_network_count(flags[s])]
  /\ Goto(s, "up")
  /\ UNCHANGED <<walk, flags, sockets, addr, clipped, masks, victim, path,
                 oom, received>>

\* No memory for the result: -1 is returned, the listeners stay open.
FinishNoMem(s) ==
  /\ "malloc" \in Faults
  /\ pc[s] = "loop" /\ i[s] > NUMTRANS
  /\ Count(s) > 0
  /\ partial' = [partial EXCEPT ![s] =
                   Count(s) < complete_network_count(flags[s])]
  /\ oom' = [oom EXCEPT ![s] = TRUE]
  /\ Goto(s, "failed")
  /\ UNCHANGED <<walk, flags, sockets, addr, clipped, masks, victim, path,
                 received>>

-----------------------------------------------------------------------------
(* Closing a listener: close(2), then unlink(2) of its path.               *)

\* SocketUNIXClose removes the file unless the transport is abstract now.
Unlinks(s, t) == IsUnix(t) /\ ~Abstract(s, t)

CloseSocket(s, t) ==
  /\ SetSock(s, t, "none", "none")
  /\ temp' = [temp EXCEPT ![s] = @ \ {t}]
  /\ clipped' = [clipped EXCEPT ![s] = @ \ {t}]
  /\ victim' = [victim EXCEPT ![s] = t]

\* The path in ciptr->addr is the socket file, or starts with '@' and names
\* no file.
UnlinkAddr(s) ==
  path' = IF addr[s][victim[s]] = "path" THEN NoFile ELSE path

BugAbortClose(s, t) ==
  /\ pc[s] = "abort" /\ t \in temp[s]
  /\ Goto(s, "failed")
  /\ UNCHANGED <<walk, partial, flags, sockets, addr, clipped, masks, victim,
                 path, oom, received>>

\* Close of those received, which come first; NOUNLINK leaves their names.
AbortCloseReceived(s) ==
  /\ pc[s] = "abort" /\ recv[s] # <<>>
  /\ recv' = [recv EXCEPT ![s] = <<>>]
  /\ UNCHANGED <<pc, walk, partial, flags, sockets, addr, clipped, masks,
                 victim, path, oom, units, inCwd>>

\* temp_ciptrs is filled in the order of the table.
First(s, t) == t \in temp[s] /\ \A u \in temp[s] : Position(t) <= Position(u)

\* Close (temp_ciptrs[j]) after an address was found in use.
AbortClose(s, t) ==
  /\ pc[s] = "abort" /\ recv[s] = <<>> /\ First(s, t)
  /\ CloseSocket(s, t)
  /\ Goto(s, IF Unlinks(s, t) THEN "abort_unlink" ELSE "abort")
  /\ UNCHANGED <<i, ipv6_succ, partial, flags, addr, masks, path, oom,
                 received>>

AbortUnlink(s) ==
  /\ pc[s] = "abort_unlink"
  /\ UnlinkAddr(s)
  /\ Goto(s, "abort")
  /\ UNCHANGED <<walk, partial, flags, sockets, addr, clipped, masks, victim,
                 oom, received>>

AbortEnd(s) ==
  /\ pc[s] = "abort" /\ Count(s) = 0
  /\ partial' = [partial EXCEPT ![s] = FALSE]
  /\ Goto(s, "failed")
  /\ UNCHANGED <<walk, flags, sockets, addr, clipped, masks, victim, path,
                 oom, received>>

\* The program takes its listeners down.
Close(s, t) ==
  /\ pc[s] \in {"up", "down"} /\ t \in temp[s]
  /\ CloseSocket(s, t)
  /\ Goto(s, IF Unlinks(s, t) THEN "close_unlink" ELSE "down")
  /\ UNCHANGED <<i, ipv6_succ, partial, flags, addr, masks, path, oom,
                 received>>

CloseUnlink(s) ==
  /\ pc[s] = "close_unlink"
  /\ UnlinkAddr(s)
  /\ Goto(s, "down")
  /\ UNCHANGED <<walk, partial, flags, sockets, addr, clipped, masks, victim,
                 oom, received>>

\* CloseForCloning leaves the file alone.
CloseForCloning(s, t) ==
  /\ pc[s] \in {"up", "down"} /\ t \in temp[s]
  /\ CloseSocket(s, t)
  /\ Goto(s, "down")
  /\ UNCHANGED <<i, ipv6_succ, partial, flags, addr, masks, path, oom,
                 received>>

\* The listeners without the k-th received one.
DropReceived(s, k) ==
  recv' = [recv EXCEPT ![s] = SubSeq(@, 1, k - 1) \o SubSeq(@, k + 1, Len(@))]

\* Close or CloseForCloning of a received listener: NOUNLINK keeps its name.
CloseReceived(s, k) ==
  /\ pc[s] \in {"up", "down"}
  /\ DropReceived(s, k)
  /\ Goto(s, "down")
  /\ UNCHANGED <<walk, partial, flags, sockets, addr, clipped, masks, victim,
                 path, oom, units, inCwd>>

-----------------------------------------------------------------------------
(* A server that is up.                                                    *)

\* SocketUNIXAccept stores the length of the client's address, which for an
\* unnamed client is the bare header, as the length of the listener's own.
Accept(s, t) ==
  /\ "accept" \in Faults
  /\ pc[s] = "up" /\ t \in temp[s] /\ IsUnix(t)
  /\ clipped' = [clipped EXCEPT ![s] = @ \union {t}]
  /\ UNCHANGED <<pc, walk, partial, flags, sockets, addr, masks, victim, path,
                 oom, received>>

AcceptReceived(s, k) ==
  /\ "accept" \in Faults
  /\ pc[s] = "up" /\ IsUnix(recv[s][k].kind)
  /\ recv' = [recv EXCEPT ![s][k].clipped = TRUE]
  /\ UNCHANGED <<pc, walk, partial, flags, sockets, addr, clipped, masks,
                 victim, path, oom, units, inCwd>>

BugMissing(s, t) == TRUE

\* stat (unsock->sun_path): a path with '@' in front is never there.  What is
\* there is a socket; nobody puts another kind of file in its place.
Missing(s, t) == addr[s][t] # "path" \/ path = NoFile

\* SocketUNIXResetListener finds the file gone: umask (0), close.
ResetListener(s, t) ==
  /\ pc[s] = "up" /\ t \in temp[s] /\ IsUnix(t)
  /\ ~Abstract(s, t) /\ Missing(s, t)
  /\ ZeroMask(s)
  /\ SetSock(s, t, "none", "none")
  /\ victim' = [victim EXCEPT ![s] = t]
  /\ Goto(s, "reset_unlink")
  /\ UNCHANGED <<walk, partial, flags, addr, clipped, path, oom, received>>

\* unlink and a new socket.
ResetUnlink(s) ==
  /\ pc[s] = "reset_unlink"
  /\ UnlinkAddr(s)
  /\ SetSock(s, victim[s], "open", "none")
  /\ Goto(s, "reset_bind")
  /\ UNCHANGED <<walk, partial, flags, addr, clipped, masks, victim, oom,
                 received>>

\* FreeConnInfo: the program has lost the listener.
Forget(s, t) ==
  /\ SetSock(s, t, "none", "none")
  /\ temp' = [temp EXCEPT ![s] = @ \ {t}]
  /\ clipped' = [clipped EXCEPT ![s] = @ \ {t}]

\* socket(2) fails after the unlink.
ResetOpenFails(s) ==
  /\ "open" \in Faults
  /\ pc[s] = "reset_unlink"
  /\ UnlinkAddr(s)
  /\ Forget(s, victim[s])
  /\ RestoreMask(s, victim[s])
  /\ Goto(s, "up")
  /\ UNCHANGED <<i, ipv6_succ, partial, flags, addr, victim, oom, received>>

\* The name bind(2) gives with ciptr->addrlen: with a bare header the kernel
\* picks an abstract name.
ResetName(s, t) == IF t \in clipped[s] THEN "auto" ELSE addr[s][t]

\* bind(2) in the reset.  A name that starts with '@' is a path in a
\* directory that does not exist.
ResetBind(s) ==
  /\ pc[s] = "reset_bind"
  /\ \/ ResetName(s, victim[s]) = "auto" /\ UNCHANGED path
     \/ /\ ResetName(s, victim[s]) = "path" /\ path = NoFile
        /\ path' = <<s, victim[s]>>
  /\ SetSock(s, victim[s], "bound", ResetName(s, victim[s]))
  /\ Goto(s, "reset_listen")
  /\ UNCHANGED <<walk, partial, flags, addr, clipped, masks, victim, oom,
                 received>>

\* It fails: the mask stays zero.
ResetBindFails(s) ==
  /\ pc[s] = "reset_bind"
  /\ \/ "bind" \in Faults
     \/ ResetName(s, victim[s]) = "abstract"
     \/ ResetName(s, victim[s]) = "path" /\ path # NoFile
  /\ Forget(s, victim[s])
  /\ Goto(s, "up")
  /\ UNCHANGED <<i, ipv6_succ, partial, flags, addr, masks, victim, path, oom,
                 received>>

\* listen(2) in the reset; TRANS_RESET_NEW_FD is returned.
ResetListen(s) ==
  /\ pc[s] = "reset_listen"
  /\ SetSock(s, victim[s], "listening", at[s][victim[s]])
  /\ RestoreMask(s, victim[s])
  /\ Goto(s, "up")
  /\ UNCHANGED <<walk, partial, flags, addr, clipped, victim, path, oom,
                 received>>

ResetListenFails(s) ==
  /\ "listen" \in Faults
  /\ pc[s] = "reset_listen"
  /\ Forget(s, victim[s])
  /\ RestoreMask(s, victim[s])
  /\ Goto(s, "up")
  /\ UNCHANGED <<i, ipv6_succ, partial, flags, addr, victim, path, oom,
                 received>>

\* SocketUNIXResetListener of a received listener: the port's text is taken
\* for a path, which there is no file for in the working directory.  The
\* listener is closed and replaced by one of that name, or of the name the
\* kernel picks, unless a step fails, which frees the listener; the mask stays
\* zero when it was bind(2).  No other process uses these names.
ResetReceived(s, k, outcome) ==
  /\ outcome = "ok" \/ outcome \in Faults
  /\ pc[s] = "up" /\ IsUnix(recv[s][k].kind) /\ ~inCwd[s]
  /\ oldUmask' = [oldUmask EXCEPT ![s] = umask[s]]
  /\ umask' = IF outcome = "bind" THEN [umask EXCEPT ![s] = "zero"] ELSE umask
  /\ inCwd' = [inCwd EXCEPT ![s] =
                 outcome \in {"ok", "listen"} /\ ~recv[s][k].clipped]
  /\ IF outcome = "ok"
       THEN recv' = [recv EXCEPT ![s][k].at =
                       IF recv[s][k].clipped THEN "auto" ELSE "cwd"]
       ELSE DropReceived(s, k)
  /\ UNCHANGED <<pc, walk, partial, flags, sockets, addr, clipped, victim,
                 path, oom, units>>

\* SocketUNIXConnect of a client in the same process: the abstract name of
\* the server it looks for is refused, so the flag of the transport goes.  The
\* other outcomes of the call concern the new connection only.
ConnectFallback(s) ==
  /\ "client" \in Faults
  /\ pc[s] \in {"idle", "up"}
  /\ Abstract(s, "local")
  /\ flags' = [flags EXCEPT ![s]["local"] = @ \ {"ABSTRACT"}]
  /\ UNCHANGED <<pc, walk, partial, sockets, addr, clipped, masks, victim,
                 path, oom, received>>

-----------------------------------------------------------------------------
(* The environment.                                                        *)

\* The process ends: the kernel closes its sockets, the socket file stays.
\* It leaves "failed" and "unreceived" only to be started again.
Exit(s) ==
  /\ \/ pc[s] \in {"failed", "unreceived"} /\ "restart" \in Faults
     \/ pc[s] \in {"up", "down"} /\ Count(s) = 0
     \/ /\ pc[s] \notin {"idle", "failed", "unreceived", "gone"}
        /\ "crash" \in Faults
  /\ Goto(s, IF "restart" \in Faults THEN "idle" ELSE "gone")
  /\ i' = [i EXCEPT ![s] = 1]
  /\ temp' = [temp EXCEPT ![s] = {}]
  /\ ipv6_succ' = [ipv6_succ EXCEPT ![s] = FALSE]
  /\ partial' = [partial EXCEPT ![s] = FALSE]
  /\ flags' = [flags EXCEPT ![s] = InitialFlags]
  /\ sock' = [sock EXCEPT ![s] = [t \in Transports |-> "none"]]
  /\ at' = [at EXCEPT ![s] = [t \in Transports |-> "none"]]
  /\ addr' = [addr EXCEPT ![s] = [t \in Transports |-> "none"]]
  /\ clipped' = [clipped EXCEPT ![s] = {}]
  /\ umask' = [umask EXCEPT ![s] = "user"]
  /\ oldUmask' = [oldUmask EXCEPT ![s] = "user"]
  /\ victim' = [victim EXCEPT ![s] = "tcp"]
  /\ oom' = [oom EXCEPT ![s] = FALSE]
  /\ recv' = [recv EXCEPT ![s] = <<>>]
  /\ UNCHANGED <<path, units, inCwd>>

\* A cleaner of /tmp, or a user, removes the socket file.
Clean ==
  /\ "cleaner" \in Faults
  /\ path # NoFile
  /\ path' = NoFile
  /\ UNCHANGED <<pc, walk, partial, flags, sockets, addr, clipped, masks,
                 victim, oom, received>>

-----------------------------------------------------------------------------
\* A step of the table walk of MakeAllCOTSServerListeners.
MakeListeners(s) ==
  \/ Receive(s) \/ ReceiveFails(s) \/ ReceiveEnd(s)
  \/ Skip(s) \/ OpenFails(s) \/ OpenCOTSServer(s)
  \/ MkdirFails(s) \/ PathTooLong(s) \/ Unlink(s)
  \/ Bind(s) \/ BindAllowed(s) \/ BindInUse(s) \/ BindFails(s)
  \/ ListenOk(s) \/ ListenNoMem(s) \/ ListenFails(s)
  \/ AbortCloseReceived(s)
  \/ \E t \in Transports : AbortClose(s, t)
  \/ AbortUnlink(s) \/ AbortEnd(s)
  \/ Finish(s) \/ FinishNoMem(s)

ResetOutcomes == {"ok", "open", "bind", "listen"}

Serve(s) ==
  \/ \E t \in Transports : Close(s, t)
  \/ CloseUnlink(s)
  \/ \E t \in Transports : CloseForCloning(s, t)
  \/ \E t \in Transports : Accept(s, t)
  \/ \E t \in Transports : ResetListener(s, t)
  \/ ResetUnlink(s) \/ ResetOpenFails(s)
  \/ ResetBind(s) \/ ResetBindFails(s)
  \/ ResetListen(s) \/ ResetListenFails(s)
  \/ \E k \in 1 .. Len(recv[s]) : CloseReceived(s, k)
  \/ \E k \in 1 .. Len(recv[s]) : AcceptReceived(s, k)
  \/ \E k \in 1 .. Len(recv[s]), outcome \in ResetOutcomes :
       ResetReceived(s, k, outcome)
  \/ ConnectFallback(s)

Next ==
  \/ \E s \in Servers, p \in Configurable : NoListen(s, p)
  \/ \E s \in Servers, p \in Configurable : Listen(s, p)
  \/ \E s \in Servers : Start(s)
  \/ \E s \in Servers : MakeListeners(s)
  \/ \E s \in Servers : Serve(s)
  \/ \E s \in Servers : Exit(s)
  \/ Clean

Spec == Init /\ [][Next]_vars

\* A call of MakeAllCOTSServerListeners never blocks for good: its steps are
\* ordinary system calls.
FairSpec == Spec /\ \A s \in Servers : WF_vars(MakeListeners(s))

-----------------------------------------------------------------------------
(* Properties.                                                             *)

Enabled(s, t) == "NOLISTEN" \notin flags[s][t]

\* Nothing keeps a process that asks for the abstract name from getting it
\* but another process that has it.
LocalWorks == Faults \subseteq {"mkdir", "crash", "restart", "cleaner"}

\* Two processes are never both up as the server of the display, when both
\* want the abstract name: EADDRINUSE makes the second call fail as a whole,
\* however the two table walks interleave and whoever wins the TCP ports.
OneServer ==
  LocalWorks =>
    \A s, o \in Servers :
      pc[s] = "up" /\ pc[o] = "up" /\ Enabled(s, "local") /\ Enabled(o, "local")
        => s = o

\* Systemd hands over at most one socket for a transport, and none for one
\* that NoListen is called for: the count that *partial is made from is then
\* one of transports that are switched on.
PlainUnits ==
  \A u \in Units : \A j \in 1 .. Len(u) :
    /\ \A k \in 1 .. Len(u) : TransOf(u[j]) = TransOf(u[k]) => j = k
    /\ \A p \in Configurable : TransOf(u[j]) \notin {p} \union NolistenOf(p)

\* Two processes that are up and were told that their set of listeners is
\* complete do not both have TCP over IPv6 switched on, nor both the
\* abstract name: *partial reports a lost listener whatever went wrong.
CompleteIsExclusive ==
  PlainUnits =>
    \A s, o \in Servers :
      s # o /\ pc[s] = "up" /\ pc[o] = "up" /\ ~partial[s] /\ ~partial[o] =>
        /\ ~(Enabled(s, "inet6") /\ Enabled(o, "inet6"))
        /\ ~(/\ Enabled(s, "local") /\ Enabled(o, "local")
             /\ Abstract(s, "local") /\ Abstract(o, "local"))

\* A call that failed because of an address in use has given up every name
\* it had taken, and what systemd had handed over, unless an allocation failed
\* on the way.
FailedReleases ==
  \A s \in Servers : pc[s] = "failed" /\ ~oom[s] =>
    recv[s] = <<>> /\ \A t \in Transports : at[s][t] = "none"

\* None of the sockets handed over has a port or the abstract name.  One that
\* has takes its place before the walk begins, out of the order of the table.
FileUnits == \A u \in Units : \A k \in 1 .. Len(u) : u[k] \in {"unix", "other"}

\* Processes that start once, at about the same time, do not all turn each
\* other away, in any interleaving and after any failure but one of an
\* allocation: all of them take the addresses in the order of the table.
NotAllFail ==
  "restart" \notin Faults /\ FileUnits =>
    \E s \in Servers : pc[s] = "failed" => oom[s]

\* The process has set its mask to zero for the time of an operation.
Masked(s) ==
  \/ pc[s] \in {"unlink", "bind", "listen"} /\ IsUnix(Cur(s))
  \/ pc[s] \in {"reset_unlink", "reset_bind", "reset_listen"}

MaskOk(s) == IF Masked(s) THEN oldUmask[s] = "user" ELSE umask[s] = "user"

\* The process's own umask comes back after every listener operation, but
\* for two early returns: a path too long in SocketUNIXCreateListener and a
\* failed bind in SocketUNIXResetListener.
MaskLeaks ==
  [][\A s \in Servers : MaskOk(s) /\ ~MaskOk(s)' =>
       \/ PathTooLong(s)
       \/ ResetBindFails(s)
       \/ \E k \in 1 .. Len(recv[s]) : ResetReceived(s, k, "bind")]_vars

\* A server that is up and reachable through its socket file.
Serving(s) ==
  pc[s] = "up" /\ sock[s]["unix"] = "listening" /\ path = <<s, "unix">>

\* When every process asks for the abstract name, a server that is up loses
\* its socket file only to a cleaner, or to an earlier server that is still
\* on its way out (SocketUNIXClose unlinks by name, after the close): the
\* unlink before bind in SocketUNIXCreateListener never takes it.
PathLoss ==
  [][LocalWorks /\ "local" \notin Configurable =>
       \A s \in Servers : Serving(s) /\ path' # path =>
         Clean \/ \E o \in Servers \ {s} : CloseUnlink(o)]_vars

\* A started call returns, or its process ends.  (The retries of bind(2) and
\* listen(2) on a TCP port are counted in the code and one step here.)
StartEnds ==
  \A s \in Servers :
    pc[s] = "receive" ~> pc[s] \in {"up", "failed", "idle", "gone"}

\* SocketUNIXResetListener (Xtranssock.c:1054): "See if the unix domain
\* socket has disappeared.  If it has, recreate it."  Whatever resets there
\* were, a listener that a server holds when it is up has the name it was made
\* with, which is the one clients look for.
ResetRecreates ==
  \A s \in Servers : \A t \in temp[s] :
    pc[s] = "up" /\ IsUnix(t) => at[s][t] = addr[s][t]

\* The same comment: a listener that its clients still reach is taken down by
\* a reset only when it has an abstract name and its transport has lost the
\* flag that says so, to a client connection of the same process.  (A listener
\* received from systemd is always taken down, see ResetReceived.)
ResetWhenGone ==
  [][\A s \in Servers, t \in Transports :
       ResetListener(s, t) /\ sock[s][t] = "listening" =>
         \/ at[s][t] = "path" /\ path # <<s, t>>
         \/ at[s][t] = "auto"
         \/ at[s][t] = "abstract" /\ ~Abstract(s, t)]_vars

ReceivedKinds(s) == {recv[s][k].kind : k \in 1 .. Len(recv[s])}
ReceivedTrans(s) == {TransOf(kind) : kind \in ReceivedKinds(s)}

\* Sockets received for a transport that another one was received for.
Surplus(s) == Len(recv[s]) - Cardinality(ReceivedTrans(s))

\* The listeners fit into temp_ciptrs, whatever part of them was received and
\* whatever part is made, unless systemd hands over two more than there are
\* transports for: the bound of the loop in receive_listening_fds does not
\* leave room for those MakeAllCOTSServerListeners goes on to make.
TempFits ==
  \A s \in Servers : pc[s] = "overrun" => Surplus(s) >= 2

\* The call tells that its listeners are complete only when there is one,
\* received or made, for every transport that is switched on; two sockets
\* received for one transport, or one for a transport that is switched off,
\* upset the count.
PartialTruthful ==
  [][\A s \in Servers :
       /\ Finish(s) /\ ~partial'[s]
       /\ Surplus(s) = 0
       /\ \A t \in ReceivedTrans(s) : Enabled(s, t)
       => \A t \in Transports : Enabled(s, t) /\ "ALIAS" \notin flags[s][t] =>
            t \in temp[s] \union ReceivedTrans(s)]_vars

\* MakeAllCOTSServerListeners (Xtrans.c:1185): an address in use means that
\* "a server is already running at this address".  It is another process, or
\* the "dual" socket that this one has received (ipv6_succ does not tell of it
\* when the inet listener is made), or a socket that was handed to this one and
\* found no place in temp_ciptrs.
BlamesOther ==
  [][\A s \in Servers : BindInUse(s) =>
       \/ \E o \in Servers \ {s} :
            \/ at[o][Cur(s)] # "none"
            \/ units[o] # <<>>
            \/ path \in {o} \X Transports
       \/ Cur(s) = "inet" /\ "dual" \in ReceivedKinds(s)
       \/ Len(recv[s]) < Len(units[s])]_vars

=============================================================================
