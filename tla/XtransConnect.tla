--------------------------- MODULE XtransConnect ---------------------------
(***************************************************************************)
(* Client side of the X transport library over TCP                         *)
(* (include/X11/Xtrans/Xtranssock.c: SocketOpenCOTSClientBase and          *)
(* SocketINETConnect; Linux build with IPv6).                              *)
(*                                                                         *)
(* A connection is opened with the first socket that can be had for its    *)
(* transport.  Connect then walks the addresses of the host, which are     *)
(* kept with a cursor in the static variable addrlist, closes and reopens  *)
(* the socket when the address is of the other family, and calls           *)
(* connect(2).  A caller that is told TRANS_TRY_CONNECT_AGAIN closes the   *)
(* connection, opens a new one and calls Connect again.                    *)
(*                                                                         *)
(* Calls of Connect do not overlap (addrlist has no lock), but the         *)
(* attempts of several connections alternate, and other threads of the     *)
(* program open and close files at any time: a descriptor number that is   *)
(* closed is the next one to be given out.                                 *)
(***************************************************************************)
EXTENDS Integers, Sequences

CONSTANTS
  Conns,      \* connections the program makes
  Hosts,      \* pairs of a host and a port
  HostOf,     \* HostOf[c]: what connection c connects to
  TransOf,    \* TransOf[c]: its transport, "tcp", "inet" or "inet6"
  AddrLists,  \* what getaddrinfo may return: sequences of address families
  Fds,        \* descriptor numbers the process may use
  MayFail,    \* address families for which socket(2) may fail
  Outcomes    \* how connect(2) may end, a subset of AllOutcomes

Families == {"in", "in6", "other"}

AllOutcomes ==
  {"ok",        \* connected
   "noaddr",    \* connected, but SocketINETGetAddr or ...GetPeerAddr fails
   "progress",  \* EWOULDBLOCK, EINPROGRESS
   "refused",   \* ECONNREFUSED, EINTR
   "unreach",   \* ENETUNREACH, EAFNOSUPPORT, EADDRNOTAVAIL, ETIMEDOUT, ...
   "fatal"}     \* any other error

ASSUME ConnectAssumption ==
  /\ HostOf \in [Conns -> Hosts]
  /\ TransOf \in [Conns -> {"tcp", "inet", "inet6"}]
  /\ AddrLists \subseteq Seq(Families) \ {<<>>}
  /\ Fds \subseteq Nat
  /\ Outcomes \subseteq AllOutcomes

VARIABLES
  pc,         \* pc[c]: where connection c is
  index,      \* index[c]: ciptr->index, a position in Sockettrans2devtab
  fd,         \* fd[c]: ciptr->fd
  owner,      \* owner[d]: who has descriptor d: NoOne, Program or a connection
  family,     \* family[d]: address family of the socket d
  listed,     \* addrlist->firstaddr is set
  host,       \* addrlist->host and port
  addrs,      \* the list addrlist->firstaddr
  cur,        \* addrlist->addr: a position in addrs, 0 for NULL
  resetonce,  \* the local variable of the running SocketINETConnect
  astray,     \* history: connections whose socket could not be reopened
  tried       \* history: addresses c has called connect(2) for since it last
              \* succeeded

addrlist == <<listed, host, addrs, cur>>
descriptors == <<owner, family>>
ciptr == <<index, fd>>
vars == <<pc, ciptr, descriptors, addrlist, resetonce, astray, tried>>

NoOne == "no_one"
Program == "program"
NoFd == -1

ASSUME OwnerAssumption == {NoOne, Program} \intersect Conns = {}

-----------------------------------------------------------------------------
(* Sockettrans2devtab, the TCP part.  A definition named Bug... is a       *)
(* variant of the one that follows it with a plausible mistake; no         *)
(* specification uses it.                                                  *)

Sockettrans2devtab ==
  <<[transname |-> "inet",  family |-> "in"],
    [transname |-> "tcp",   family |-> "in6"],
    [transname |-> "tcp",   family |-> "in"],
    [transname |-> "inet6", family |-> "in6"]>>

\* The entries SocketSelectFamily finds for a transport after entry first.
SelectFamily(first, name) ==
  {j \in 1 .. Len(Sockettrans2devtab) :
     j > first /\ Sockettrans2devtab[j].transname = name}

FamilyOf(j) == Sockettrans2devtab[j].family

Free == {d \in Fds : owner[d] = NoOne}

\* socket(2) may fail for lack of a descriptor or of support for a family.
SocketFails(j) == Free = {} \/ FamilyOf(j) \in MayFail

\* SocketOpenCOTSClientBase: the entries it may end up with, trying those
\* after entry first in order; none means NULL.
OpensWith(first, name) ==
  {j \in SelectFamily(first, name) :
     /\ Free # {}
     /\ \A k \in SelectFamily(first, name) : k < j => SocketFails(k)}

OpensNone(first, name) == \A j \in SelectFamily(first, name) : SocketFails(j)

\* The kernel gives out the lowest number.
Lowest(d) == d \in Free /\ \A e \in Free : d <= e

Init ==
  /\ pc = [c \in Conns |-> "idle"]
  /\ index = [c \in Conns |-> 1]
  /\ fd = [c \in Conns |-> NoFd]
  /\ owner = [d \in Fds |-> NoOne]
  /\ family = [d \in Fds |-> "other"]
  /\ listed = FALSE /\ host \in Hosts /\ addrs = <<>> /\ cur = 0
  /\ resetonce = FALSE
  /\ astray = {}
  /\ tried = [c \in Conns |-> {}]

Goto(c, label) == pc' = [pc EXCEPT ![c] = label]

\* A new socket of entry j for connection c.
NewSocket(c, j) ==
  \E d \in Fds :
    /\ Lowest(d)
    /\ fd' = [fd EXCEPT ![c] = d]
    /\ owner' = [owner EXCEPT ![d] = c]
    /\ family' = [family EXCEPT ![d] = FamilyOf(j)]

\* close (ciptr->fd): whatever has that number now.
CloseFd(c) ==
  /\ owner' = [d \in Fds |-> IF d = fd[c] THEN NoOne ELSE owner[d]]
  /\ family' = [d \in Fds |-> IF d = fd[c] THEN "other" ELSE family[d]]

-----------------------------------------------------------------------------
(* Opening and closing a connection.                                       *)

OpenCOTSClient(c) ==
  /\ pc[c] = "idle"
  /\ \E j \in OpensWith(0, TransOf[c]) :
       /\ index' = [index EXCEPT ![c] = j]
       /\ NewSocket(c, j)
  /\ Goto(c, "opened")
  /\ UNCHANGED <<addrlist, resetonce, astray, tried>>

OpenNull(c) ==
  /\ pc[c] = "idle"
  /\ OpensNone(0, TransOf[c])
  /\ Goto(c, "gaveup")
  /\ UNCHANGED <<ciptr, descriptors, addrlist, resetonce, astray, tried>>

\* TRANS(Close), by the caller: to try again, after a failure, or when it is
\* done with the connection.  The ciptr is freed.
Close(c) ==
  /\ pc[c] \in {"again", "failed", "progress", "done"}
  /\ CloseFd(c)
  /\ fd' = [fd EXCEPT ![c] = NoFd]
  /\ index' = [index EXCEPT ![c] = 1]
  /\ Goto(c, IF pc[c] = "failed" THEN "gaveup" ELSE "idle")
  /\ UNCHANGED <<addrlist, resetonce, astray, tried>>

-----------------------------------------------------------------------------
(* SocketINETConnect.                                                      *)

InCall(c) == pc[c] \in {"scan", "reopen", "connect"}

Enter(c) == pc[c] = "opened" /\ \A o \in Conns : ~InCall(o)

\* The list of the same host and port is used again, with its cursor.
UseList(c) ==
  /\ Enter(c)
  /\ listed /\ host = HostOf[c]
  /\ resetonce' = FALSE
  /\ Goto(c, "scan")
  /\ UNCHANGED <<ciptr, descriptors, addrlist, astray, tried>>

\* Otherwise it is replaced, and the cursor cleared.
NewList(c, list) ==
  /\ Enter(c)
  /\ ~(listed /\ host = HostOf[c])
  /\ listed' = TRUE /\ host' = HostOf[c] /\ addrs' = list /\ cur' = 0
  /\ resetonce' = FALSE
  /\ Goto(c, "scan")
  /\ UNCHANGED <<ciptr, descriptors, astray, tried>>

\* getaddrinfo fails: the old list is gone; the cursor is left as it was.
NoList(c) ==
  /\ Enter(c)
  /\ ~(listed /\ host = HostOf[c])
  /\ listed' = FALSE /\ host' = HostOf[c]
  /\ Goto(c, "failed")
  /\ UNCHANGED <<ciptr, descriptors, addrs, cur, resetonce, astray, tried>>

\* addr->ai_next.
NextAddr(k) == IF k < Len(addrs) THEN k + 1 ELSE 0

\* The address looked at: from NULL the walk goes back to the beginning.
Here == IF cur = 0 THEN 1 ELSE cur

BugWrap == UNCHANGED resetonce

\* resetonce is set when the walk goes back to the beginning.
Wrap == resetonce' = (resetonce \/ cur = 0)

BugAtEnd == cur = 0

\* The second time the walk reaches the end it stops.
AtEnd == cur = 0 /\ resetonce

\* How the socket's entry in the table and the address go together.
Same(c, k) == addrs[k] = FamilyOf(index[c])
Reopens(c, k) ==
  ~Same(c, k) /\ TransOf[c] = "tcp" /\ addrs[k] \in {"in", "in6"}

\* No usable address: TRANS_CONNECT_FAILED.
ScanEnd(c) ==
  /\ pc[c] = "scan" /\ AtEnd
  /\ Goto(c, "failed")
  /\ UNCHANGED <<ciptr, descriptors, addrlist, resetonce, astray, tried>>

\* The address has the family of the socket.
ScanUse(c) ==
  /\ pc[c] = "scan" /\ ~AtEnd
  /\ Same(c, Here)
  /\ cur' = Here
  /\ Wrap
  /\ Goto(c, "connect")
  /\ UNCHANGED <<ciptr, descriptors, listed, host, addrs, astray, tried>>

\* The address is of no use for this transport.
ScanSkip(c) ==
  /\ pc[c] = "scan" /\ ~AtEnd
  /\ ~Same(c, Here) /\ ~Reopens(c, Here)
  /\ cur' = NextAddr(Here)
  /\ Wrap
  /\ UNCHANGED <<pc, ciptr, descriptors, listed, host, addrs, astray, tried>>

BugScanClose(c) ==
  /\ pc[c] = "scan" /\ ~AtEnd
  /\ Reopens(c, Here)
  /\ cur' = Here
  /\ Wrap
  /\ Goto(c, "reopen")
  /\ UNCHANGED <<ciptr, descriptors, listed, host, addrs, astray, tried>>

\* The other family, for "tcp": the socket is closed.
ScanClose(c) ==
  /\ pc[c] = "scan" /\ ~AtEnd
  /\ Reopens(c, Here)
  /\ CloseFd(c)
  /\ cur' = Here
  /\ Wrap
  /\ Goto(c, "reopen")
  /\ UNCHANGED <<ciptr, listed, host, addrs, astray, tried>>

\* For an IPv4 address the table is searched after the entry of this
\* connection, for an IPv6 address from the start.
ReopenFrom(c) == IF addrs[cur] = "in" THEN index[c] ELSE 0

BugReopen(c) ==
  /\ pc[c] = "reopen"
  /\ \E j \in OpensWith(ReopenFrom(c), "tcp"), d \in Fds :
       /\ Lowest(d)
       /\ owner' = [owner EXCEPT ![d] = c]
       /\ family' = [family EXCEPT ![d] = FamilyOf(j)]
       /\ IF FamilyOf(j) = addrs[cur]
            THEN Goto(c, "connect") /\ UNCHANGED cur
            ELSE Goto(c, "scan") /\ cur' = NextAddr(cur)
  /\ UNCHANGED <<ciptr, listed, host, addrs, resetonce, astray, tried>>

BugReopenAny(c) ==
  /\ pc[c] = "reopen"
  /\ \E j \in OpensWith(ReopenFrom(c), "tcp") : NewSocket(c, j)
  /\ Goto(c, "connect")
  /\ UNCHANGED <<index, addrlist, resetonce, astray, tried>>

\* A new socket: ciptr->fd is it, ciptr->index stays.  If it is not of the
\* family wanted either, on to the next address.
Reopen(c) ==
  /\ pc[c] = "reopen"
  /\ \E j \in OpensWith(ReopenFrom(c), "tcp") :
       /\ NewSocket(c, j)
       /\ IF FamilyOf(j) = addrs[cur]
            THEN Goto(c, "connect") /\ UNCHANGED cur
            ELSE Goto(c, "scan") /\ cur' = NextAddr(cur)
  /\ UNCHANGED <<index, listed, host, addrs, resetonce, astray, tried>>

\* No new socket: on to the next address, with the number that was closed
\* still in ciptr->fd.
ReopenFails(c) ==
  /\ pc[c] = "reopen"
  /\ OpensNone(ReopenFrom(c), "tcp")
  /\ cur' = NextAddr(cur)
  /\ astray' = astray \union {c}
  /\ Goto(c, "scan")
  /\ UNCHANGED <<ciptr, descriptors, listed, host, addrs, resetonce, tried>>

\* connect(2) on a descriptor the connection does not have fails.  That of
\* another thread's file fails for good; what connect(2) does to a socket of
\* another thread under this number is left out.
EndsWith(c, o) ==
  IF fd[c] \in Fds /\ owner[fd[c]] = c THEN o \in Outcomes ELSE o = "fatal"

\* SocketINETGetAddr and SocketINETGetPeerAddr on the connected socket:
\* getsockname, getpeername or one of the allocations fails.
GetAddrFails(o) == o = "noaddr"

SeveralAddrs == NextAddr(cur) # 0 \/ cur # 1

\* What SocketINETConnect returns.
Result(o) ==
  CASE o = "ok" -> "done"
    [] o = "progress" -> "progress"
    [] o = "refused" -> "again"
    [] o = "unreach" -> IF SeveralAddrs THEN "again" ELSE "failed"
    [] GetAddrFails(o) \/ o = "fatal" -> "failed"

BugMoveOn(o) == UNCHANGED cur

\* The cursor stays on an address that worked and leaves one that did not.
MoveOn(o) == cur' = IF o = "ok" THEN cur ELSE NextAddr(cur)

Connect(c, o) ==
  /\ pc[c] = "connect"
  /\ EndsWith(c, o)
  /\ MoveOn(o)
  /\ tried' = [tried EXCEPT ![c] = IF o = "ok" THEN {} ELSE @ \union {cur}]
  /\ Goto(c, Result(o))
  /\ UNCHANGED <<ciptr, descriptors, listed, host, addrs, resetonce, astray>>

-----------------------------------------------------------------------------
(* The rest of the program: other threads, and the caller's next attempt.  *)

ProgramOpens(d) ==
  /\ Lowest(d)
  /\ owner' = [owner EXCEPT ![d] = Program]
  /\ family' = [family EXCEPT ![d] = "other"]
  /\ UNCHANGED <<pc, ciptr, addrlist, resetonce, astray, tried>>

ProgramCloses(d) ==
  /\ owner[d] = Program
  /\ owner' = [owner EXCEPT ![d] = NoOne]
  /\ UNCHANGED <<pc, ciptr, family, addrlist, resetonce, astray, tried>>

\* The user starts the attempt again.
StartOver(c) ==
  /\ pc[c] = "gaveup"
  /\ Goto(c, "idle")
  /\ tried' = [tried EXCEPT ![c] = {}]
  /\ UNCHANGED <<ciptr, descriptors, addrlist, resetonce, astray>>

-----------------------------------------------------------------------------
\* The steps of a call of Connect once it has its list.
Walk(c) ==
  \/ ScanEnd(c) \/ ScanUse(c) \/ ScanSkip(c) \/ ScanClose(c)
  \/ Reopen(c) \/ ReopenFails(c)
  \/ \E o \in AllOutcomes : Connect(c, o)

Next ==
  \/ \E c \in Conns : OpenCOTSClient(c)
  \/ \E c \in Conns : OpenNull(c)
  \/ \E c \in Conns : Close(c)
  \/ \E c \in Conns : UseList(c)
  \/ \E c \in Conns, list \in AddrLists : NewList(c, list)
  \/ \E c \in Conns : NoList(c)
  \/ \E c \in Conns : Walk(c)
  \/ \E d \in Fds : ProgramOpens(d)
  \/ \E d \in Fds : ProgramCloses(d)
  \/ \E c \in Conns : StartOver(c)

Spec == Init /\ [][Next]_vars

\* A call of Connect runs on: its steps are system calls that return.
FairSpec == Spec /\ \A c \in Conns : WF_vars(Walk(c))

-----------------------------------------------------------------------------
(* Properties.                                                             *)

\* connect(2) is called with an address of the list (the cursor is not NULL)
\* and, unless a socket could not be reopened, on the connection's own socket
\* and with an address of that socket's family, although ciptr->index still
\* tells the family of the first socket.
ConnectMatches ==
  \A c \in Conns : pc[c] = "connect" =>
    /\ cur \in 1 .. Len(addrs)
    /\ astray = {} => /\ fd[c] \in Fds /\ owner[fd[c]] = c
                      /\ family[fd[c]] = addrs[cur]

\* No socket is lost: one that belongs to a connection is in its ciptr, and
\* gone when the connection is closed.
NoSocketLeak ==
  \A d \in Fds, c \in Conns :
    owner[d] = c => fd[c] = d /\ pc[c] \notin {"idle", "gaveup"}

\* The library takes no descriptor away from the rest of the program, unless
\* the socket of some connection could not be reopened.
OwnDescriptors ==
  [][\A d \in Fds : owner[d] = Program /\ owner'[d] # Program =>
       ProgramCloses(d) \/ astray # {}]_vars

\* Connect reports that there is no usable address only when the list has
\* none of the socket's family, wherever in the list the walk began.
WholeListSeen ==
  [][\A c \in Conns : ScanEnd(c) =>
       \A k \in 1 .. Len(addrs) : ~Same(c, k)]_vars

\* The addresses connection c can try.
Usable(c) == {k \in 1 .. Len(addrs) : Same(c, k) \/ Reopens(c, k)}

\* SocketINETConnect (Xtranssock.c:1610): "If multiple addresses are found
\* for a host then we should try to connect again with a different address".
\* While sockets can be had, an address is tried a second time only when all
\* have been tried.
RetryMovesOn ==
  [][\A c \in Conns, o \in AllOutcomes :
       astray = {} /\ Connect(c, o) /\ cur \in tried[c]
         => Usable(c) \subseteq tried[c]]_vars

\* A call of Connect returns, whatever the list.
ConnectEnds == \A c \in Conns : pc[c] = "scan" ~> ~InCall(c)

=============================================================================
