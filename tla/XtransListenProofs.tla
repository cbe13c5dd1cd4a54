-------------------------- MODULE XtransListenProofs --------------------------
(***************************************************************************)
(* The safety properties of XtransListen, for any number of processes, any *)
(* sockets handed over, any configuration and any faults.                  *)
(*                                                                         *)
(* XtransListenInv gives the invariant of each process by itself; three    *)
(* invariants here relate the processes.  Exclusive: the kernel gives a    *)
(* name to one of them.  Files: whose the socket file is.  Orderly: among  *)
(* the processes that have come as far in the table as one that gave up    *)
(* there is one that has not.                                              *)
(***************************************************************************)
EXTENDS XtransListenInv

\* Systemd starts one of the processes; the abstract name has one holder, and
\* one process listens on a port; no process has a name that systemd keeps.
Exclusive ==
  /\ \A s, o \in Servers : s = o \/ units[s] = <<>> \/ units[o] = <<>>
  /\ \A s, o \in Servers : \A t \in Transports :
       at[s][t] = "abstract" /\ at[o][t] = "abstract" => s = o
  /\ \A s, o \in Servers : \A t \in Transports :
       /\ sock[s][t] = "listening" /\ at[s][t] = "port"
       /\ sock[o][t] = "listening" /\ at[o][t] = "port"
       => s = o
  /\ \A s \in Servers : \A t \in Transports :
       at[s][t] \in {"port", "abstract"} => ~UnitHas(t)

\* The socket file is one of systemd's or of a UNIX transport; a process that
\* is about to bind it has unlinked its own.
Files ==
  /\ path # NoFile => path[2] \in {"local", "unix", "passed"}
  /\ path # NoFile /\ path[2] = "passed" => units[path[1]] # <<>>
  /\ \A s \in Servers :
       pc[s] = "bind" /\ NameOf(s, Cur(s)) = "path" /\ path # NoFile =>
         path[1] # s

\* The call of s fails, or has failed, and not for lack of memory.
Bad(s) == pc[s] \in Aborting \union {"failed"} /\ ~oom[s]

\* Process s has bound, or gone on from, the n-th entry of the table, or has
\* ended.
Beyond(s, n) ==
  \/ /\ pc[s] \in Walking \union {"failed"}
     /\ i[s] > n \/ (i[s] = n /\ pc[s] = "listen")
  \/ pc[s] \notin Walking \union Early \union {"failed"}
  \/ pc[s] = "gone"

\* A socket file that is in the way of a bind was made in this contest, by a
\* process that does not fail and has come as far.
Fresh ==
  /\ \A o \in Servers : path = <<o, "local">> => ~Bad(o) /\ Beyond(o, 4)
  /\ \A s \in Servers :
       pc[s] = "bind" /\ NameOf(s, Cur(s)) = "path" /\ path # NoFile =>
         /\ path[2] # "passed"
         /\ \A o \in Servers : path = <<o, "unix">> => ~Bad(o) /\ Beyond(o, 5)

\* How far another has to be for s to have been turned away where it is.  The
\* last entry is left out, a file at it may be one of the last but one.
Reached(s) == IF i[s] < 5 THEN i[s] ELSE 4

Survivor ==
  \A s \in Servers : Bad(s) =>
    \E o \in Servers : ~Bad(o) /\ Beyond(o, Reached(s))

Orderly == "restart" \notin Faults /\ FileUnits => Fresh /\ Survivor

Inv == Locals /\ Exclusive /\ Files /\ Orderly

-----------------------------------------------------------------------------
(* Which steps change what the processes share.                            *)

\* Process s takes no name and listens on none anew.
Quiet(s) ==
  \A t \in Transports :
    at'[s][t] = "none" \/ (at'[s][t] = at[s][t] /\ sock'[s][t] = sock[s][t])

\* Only five actions are not quiet.
LEMMA StepQuiet ==
  ASSUME Types, NEW s \in Servers, Step(s), ~Bind(s), ~ListenOk(s),
         ~ListenNoMem(s), ~ResetBind(s), ~ResetListen(s)
  PROVE  Quiet(s)
<1>1. CASE UNCHANGED sockets
  BY <1>1 DEF Quiet, sockets
<1>2. CASE \/ OpenCOTSServer(s) \/ BindFails(s) \/ ListenFails(s)
  <2>1. Cur(s) \in Transports
    BY <1>2, CurIn, Table
       DEF Types, ControlType, Making, OpenCOTSServer, BindFails, ListenFails
  <2>2. QED
    BY <1>2, <2>1
       DEF Types, SocketType, OpenCOTSServer, BindFails, ListenFails, SetSock,
           Quiet
<1>3. CASE \/ ResetUnlink(s) \/ ResetOpenFails(s) \/ ResetBindFails(s)
           \/ ResetListenFails(s)
  BY <1>3
     DEF Types, ControlType, SocketType, ResetUnlink, ResetOpenFails,
         ResetBindFails, ResetListenFails, Forget, SetSock, Quiet
<1>4. ASSUME NEW t \in Transports,
             \/ AbortClose(s, t) \/ Close(s, t) \/ CloseForCloning(s, t)
             \/ ResetListener(s, t)
      PROVE  Quiet(s)
  BY <1>4
     DEF Types, SocketType, AbortClose, Close, CloseForCloning, ResetListener,
         CloseSocket, SetSock, Quiet
<1>5. CASE Exit(s)
  BY <1>5 DEF Types, SocketType, Exit, Quiet
<1>6. QED
  BY <1>1, <1>2, <1>3, <1>4, <1>5
     DEF Step, MakeListeners, Serve, NoListen, Listen, Start, Receive,
         ReceiveFails, ReceiveEnd, Skip, OpenFails, MkdirFails, PathTooLong,
         Unlink, BindAllowed, BindInUse, AbortCloseReceived, AbortUnlink,
         AbortEnd, Finish, FinishNoMem, CloseUnlink, Accept, CloseReceived,
         AcceptReceived, ResetReceived, ConnectFallback

\* Which steps change the socket file, and how.
LEMMA PathStep ==
  ASSUME NEW s \in Servers, Step(s), path' # path
  PROVE  \/ /\ path' = NoFile
            /\ \/ Unlink(s) \/ AbortUnlink(s) \/ CloseUnlink(s)
               \/ ResetUnlink(s) \/ ResetOpenFails(s)
         \/ /\ path = NoFile
            /\ \/ /\ Bind(s) /\ NameOf(s, Cur(s)) = "path"
                  /\ path' = <<s, Cur(s)>>
               \/ ResetBind(s) /\ path' = <<s, victim[s]>>
<1>1. CASE UNCHANGED path
  BY <1>1
<1>2. CASE Bind(s)
  BY <1>2 DEF Bind, InUse
<1>3. CASE ResetBind(s)
  BY <1>3 DEF ResetBind
<1>4. CASE \/ Unlink(s) \/ AbortUnlink(s) \/ CloseUnlink(s)
           \/ ResetUnlink(s) \/ ResetOpenFails(s)
  BY <1>4
     DEF Unlink, AbortUnlink, CloseUnlink, ResetUnlink, ResetOpenFails,
         UnlinkAddr
<1>5. QED
  BY <1>1, <1>2, <1>3, <1>4
     DEF Step, MakeListeners, Serve, NoListen, Listen, Start, Receive,
         ReceiveFails, ReceiveEnd, Skip, OpenFails, OpenCOTSServer,
         MkdirFails, PathTooLong, BindAllowed, BindInUse, BindFails, ListenOk,
         ListenNoMem, ListenFails, AbortCloseReceived, AbortClose, AbortEnd,
         Finish, FinishNoMem, Close, CloseForCloning, Accept, ResetListener,
         ResetBindFails, ResetListen, ResetListenFails, CloseReceived,
         AcceptReceived, ResetReceived, ConnectFallback, Exit

\* A process comes to bind after it has unlinked the file, or does not want it.
LEMMA BindEntry ==
  ASSUME Types, NEW s \in Servers, Step(s), pc'[s] = "bind"
  PROVE  Unlink(s) \/ (OpenCOTSServer(s) /\ NameOf(s, Cur(s)) # "path")
<1>1. CASE OpenCOTSServer(s)
  BY <1>1 DEF Types, ControlType, OpenCOTSServer, Goto
<1>2. CASE UNCHANGED pc /\ pc[s] # "bind"
  BY <1>2
<1>3. CASE \E l \in Labels \ {"bind"} : Goto(s, l)
  BY <1>3 DEF Types, ControlType, Goto
<1>4. CASE \/ \E p \in Configurable : NoListen(s, p) \/ Listen(s, p)
           \/ Receive(s) \/ AbortCloseReceived(s)
           \/ \E t \in Transports : Accept(s, t)
           \/ \E k \in 1 .. Len(recv[s]) : AcceptReceived(s, k)
           \/ \E k \in 1 .. Len(recv[s]), outcome \in ResetOutcomes :
                ResetReceived(s, k, outcome)
           \/ ConnectFallback(s)
  BY <1>2, <1>4
     DEF NoListen, Listen, Receive, AbortCloseReceived, Accept,
         AcceptReceived, ResetReceived, ConnectFallback
<1>5. QED
  BY <1>1, <1>3, <1>4
     DEF Labels, Continue, Step, MakeListeners, Serve, Start, ReceiveFails,
         ReceiveEnd, Skip, OpenFails, MkdirFails, PathTooLong, Bind,
         BindAllowed, BindInUse, BindFails, ListenOk, Keep, ListenNoMem,
         ListenFails, AbortClose, AbortUnlink, AbortEnd, Finish, FinishNoMem,
         Close, CloseUnlink, CloseForCloning, ResetListener, ResetUnlink,
         ResetOpenFails, ResetBind, ResetBindFails, ResetListen,
         ResetListenFails, CloseReceived, Exit

-----------------------------------------------------------------------------
(* Exclusive.                                                              *)

\* Units do not change.
LEMMA UnitHasSame ==
  ASSUME units' = units, NEW t
  PROVE  UnitHas(t)' <=> UnitHas(t)
  BY DEF UnitHas, UnitKinds

\* A process that takes a name only when nobody has it keeps the names
\* exclusive.
LEMMA TakesFree ==
  ASSUME Exclusive, NEW s \in Servers, Others(s),
         \A t \in Transports : at'[s][t] = "abstract" =>
           \/ at[s][t] = "abstract"
           \/ /\ ~UnitHas(t)
              /\ \A o \in Servers \ {s} : at[o][t] # "abstract",
         \A t \in Transports : at'[s][t] = "port" =>
           at[s][t] = "port" \/ ~UnitHas(t),
         \A t \in Transports :
           sock'[s][t] = "listening" /\ at'[s][t] = "port" =>
             \/ sock[s][t] = "listening" /\ at[s][t] = "port"
             \/ \A o \in Servers \ {s} :
                  ~(sock[o][t] = "listening" /\ at[o][t] = "port")
  PROVE  Exclusive'
<1>1. \A x \in Servers \ {s} : at'[x] = at[x] /\ sock'[x] = sock[x]
  BY DEF Others, Same
<1>2. \A x, o \in Servers : \A t \in Transports :
        at'[x][t] = "abstract" /\ at'[o][t] = "abstract" => x = o
  BY <1>1 DEF Exclusive
<1>3. \A x, o \in Servers : \A t \in Transports :
        /\ sock'[x][t] = "listening" /\ at'[x][t] = "port"
        /\ sock'[o][t] = "listening" /\ at'[o][t] = "port"
        => x = o
  BY <1>1 DEF Exclusive
<1>4. \A x \in Servers : \A t \in Transports :
        at'[x][t] \in {"port", "abstract"} => ~UnitHas(t)'
  BY <1>1, UnitHasSame DEF Exclusive, Others
<1>5. QED
  BY <1>2, <1>3, <1>4 DEF Exclusive, Others

\* No step breaks Exclusive: bind(2) looks for another holder, listen(2) for
\* another listener.
LEMMA StepExclusive ==
  ASSUME Locals, Exclusive, NEW s \in Servers, Step(s)
  PROVE  Exclusive'
<1>1. Others(s) /\ Types /\ Local(s)
  BY StepOthers DEF Locals
<1>2. CASE Quiet(s)
  BY <1>1, <1>2, TakesFree DEF Quiet
<1>3. CASE Bind(s)
  <2>1. Cur(s) \in Transports
    BY <1>1, <1>3, CurIn, Table DEF Types, ControlType, Making, Bind
  <2>2. \A t \in Transports :
          /\ at'[s][t] = IF t = Cur(s) THEN NameOf(s, t) ELSE at[s][t]
          /\ sock'[s][t] = IF t = Cur(s) THEN "bound" ELSE sock[s][t]
    BY <1>1, <1>3, <2>1 DEF Types, SocketType, Bind, SetSock
  <2>3. /\ NameOf(s, Cur(s)) = "port" => ~UnitHas(Cur(s))
        /\ NameOf(s, Cur(s)) = "abstract" =>
             /\ ~UnitHas(Cur(s))
             /\ \A o \in Servers \ {s} : at[o][Cur(s)] # "abstract"
    BY <1>3 DEF Bind, InUse
  <2>4. QED
    BY <1>1, <2>2, <2>3, TakesFree
<1>4. CASE ListenOk(s) \/ ListenNoMem(s)
  <2>1. Cur(s) \in Transports /\ ~PortTaken(s, Cur(s))
    BY <1>1, <1>4, CurIn, Table
       DEF Types, ControlType, Making, ListenOk, ListenNoMem
  <2>2. \A t \in Transports :
          /\ at'[s][t] = IF t = Cur(s) THEN ListenName(s, t) ELSE at[s][t]
          /\ t # Cur(s) => sock'[s][t] = sock[s][t]
    BY <1>1, <1>4, <2>1 DEF Types, SocketType, ListenOk, ListenNoMem, SetSock
  <2>3. QED
    BY <1>1, <2>1, <2>2, TakesFree DEF PortTaken, ListenName
<1>5. CASE ResetBind(s) \/ ResetListen(s)
  <2>1. \A t \in Transports :
          \/ at'[s][t] \in {"path", "auto"}
          \/ at'[s][t] = at[s][t] /\ sock'[s][t] = sock[s][t]
    BY <1>1, <1>5
       DEF Types, ControlType, SocketType, Local, Victim, ResetBind,
           ResetListen, SetSock
  <2>2. QED
    BY <1>1, <2>1, TakesFree
<1>6. QED
  BY <1>1, <1>2, <1>3, <1>4, <1>5, StepQuiet

-----------------------------------------------------------------------------
(* Files.                                                                  *)

\* The name the current listener is made under, in a step that leaves flags
\* and index alone.
LEMMA NameSame ==
  ASSUME NEW s \in Servers, i'[s] = i[s], flags'[s] = flags[s]
  PROVE  Cur(s)' = Cur(s) /\ NameOf(s, Cur(s))' = NameOf(s, Cur(s))
  BY DEF Cur, NameOf, Abstract

\* A process that comes to bind for the file finds none.
LEMMA ComesToBind ==
  ASSUME Types, NEW s \in Servers, Step(s), pc'[s] = "bind",
         NameOf(s, Cur(s))' = "path"
  PROVE  path' = NoFile
<1>1. CASE Unlink(s)
  BY <1>1 DEF Unlink
<1>2. CASE OpenCOTSServer(s) /\ NameOf(s, Cur(s)) # "path"
  BY <1>2, NameSame DEF OpenCOTSServer, walk
<1>3. QED
  BY <1>1, <1>2, BindEntry

\* The transport whose listener is made at a path.
LEMMA PathTrans ==
  ASSUME Types, NEW s \in Servers, pc[s] \in Making,
         NameOf(s, Cur(s)) = "path"
  PROVE  /\ Cur(s) \in {"local", "unix"}
         /\ Cur(s) = "local" => i[s] = 4
         /\ Cur(s) = "unix" => i[s] = 5
<1>1. i[s] \in 1 .. 5
  BY DEF Types, ControlType
<1>2. QED
  BY <1>1 DEF NameOf, IsUnix, Cur, Xtransports

\* A step that makes the socket file.
LEMMA MakesFile ==
  ASSUME Locals, NEW s \in Servers, Step(s), path' # path, path' # NoFile
  PROVE  \E t \in {"local", "unix"} :
           /\ path' = <<s, t>> /\ path' \in Servers \X Transports
           /\ ~Bad(s)' /\ Beyond(s, IF t = "local" THEN 4 ELSE 5)'
<1>1. Types /\ Local(s)
  BY DEF Locals
<1>2. CASE /\ Bind(s) /\ NameOf(s, Cur(s)) = "path"
           /\ path' = <<s, Cur(s)>>
  <2>1. /\ Cur(s) \in {"local", "unix"}
        /\ Cur(s) = "local" => i[s] = 4
        /\ Cur(s) = "unix" => i[s] = 5
    BY <1>1, <1>2, PathTrans DEF Bind, Making
  <2>2. pc'[s] = "listen" /\ i' = i
    BY <1>1, <1>2 DEF Bind, Goto, walk, Types, ControlType
  <2>3. ~Bad(s)'
    BY <2>2 DEF Bad, Aborting
  <2>4. \A n : n = i[s] => Beyond(s, n)'
    BY <2>2 DEF Beyond, Walking, Making
  <2>5. /\ Cur(s) = "local" => Beyond(s, 4)'
        /\ Cur(s) = "unix" => Beyond(s, 5)'
    BY <2>1, <2>4
  <2>6. QED
    BY <1>2, <2>1, <2>3, <2>5 DEF Transports
<1>3. CASE ResetBind(s) /\ path' = <<s, victim[s]>>
  <2>1. victim[s] \in {"local", "unix"}
    BY <1>1, <1>3 DEF Local, Victim, Resetting, ResetBind, IsUnix
  <2>2. pc'[s] = "reset_listen"
    BY <1>1, <1>3 DEF ResetBind, Goto, Types, ControlType
  <2>3. ~Bad(s)' /\ \A n : Beyond(s, n)'
    BY <2>2 DEF Bad, Beyond, Aborting, Walking, Making, Early
  <2>4. QED
    BY <1>3, <2>1, <2>3 DEF Transports
<1>4. QED
  BY <1>2, <1>3, PathStep

\* No step breaks Files.
LEMMA StepFiles ==
  ASSUME Locals, Files, NEW s \in Servers, Step(s)
  PROVE  Files'
<1>1. Others(s) /\ Types
  BY StepOthers DEF Locals
<1>2. /\ path' # NoFile => path'[2] \in {"local", "unix", "passed"}
      /\ path' # NoFile /\ path'[2] = "passed" => units'[path'[1]] # <<>>
  <2>1. CASE path' = path
    BY <1>1, <2>1 DEF Files, Others
  <2>2. CASE path' # path /\ path' # NoFile
    BY <2>2, MakesFile
  <2>3. QED
    BY <2>1, <2>2
<1>3. ASSUME NEW x \in Servers, pc'[x] = "bind", NameOf(x, Cur(x))' = "path",
             path' # NoFile
      PROVE  path'[1] # x
  <2>1. x # s
    BY <1>1, <1>3, ComesToBind
  <2>2. pc[x] = "bind" /\ NameOf(x, Cur(x)) = "path"
    BY <1>1, <1>3, <2>1, NameSame DEF Others, Same
  <2>3. CASE path' = path
    BY <1>3, <2>2, <2>3 DEF Files
  <2>4. CASE path' # path
    <3>1. \E t : path' = <<s, t>>
      BY <1>3, <2>4, MakesFile
    <3>2. QED
      BY <2>1, <3>1
  <2>5. QED
    BY <2>3, <2>4
<1>4. QED
  BY <1>2, <1>3 DEF Files

-----------------------------------------------------------------------------
(* Orderly.                                                                *)

\* A process that nothing changes for is as bad and as far as before.
LEMMA SameFate ==
  ASSUME NEW o \in Servers, Same(o)
  PROVE  /\ Bad(o)' <=> Bad(o)
         /\ \A n : Beyond(o, n) => Beyond(o, n)'
  BY DEF Same, Bad, Beyond

\* A process that is beyond an entry stays so, if none is started again.
LEMMA StepBeyond ==
  ASSUME Types, NEW s \in Servers, Step(s), "restart" \notin Faults,
         NEW n \in 1 .. 5, Beyond(s, n)
  PROVE  Beyond(s, n)'
<1>1. CASE Exit(s)
  BY <1>1 DEF Exit, Goto, Types, ControlType, Beyond
<1>2. i[s] \in 1 .. 6
  BY DEF Types, ControlType
<1>3. CASE Continue(s) /\ pc[s] \in {"loop"} \union Making
  <2>1. i'[s] = i[s] + 1 /\ pc'[s] = "loop" /\ i[s] >= n
    BY <1>2, <1>3
       DEF Continue, Goto, Types, ControlType, Beyond, Walking, Making, Early
  <2>2. QED
    BY <1>2, <2>1 DEF Beyond, Walking
<1>4. CASE pc'[s] \notin Walking \union Early \union {"failed"}
  BY <1>4 DEF Beyond
<1>5. CASE /\ i' = i /\ pc'[s] \in Walking \union {"failed"}
           /\ pc[s] \in Walking \ {"listen"}
  BY <1>5 DEF Beyond, Walking, Making, Aborting, Early
<1>6. CASE Serve(s)
  <2>1. CASE pc[s] \in {"up", "down", "close_unlink"} \union Resetting
  BY <1>4, <1>6, <2>1
     DEF Serve, Types, ControlType, Walking, Making, Aborting, Early,
         Resetting, Close, CloseUnlink, CloseForCloning, Accept,
         ResetListener, ResetUnlink, ResetOpenFails, ResetBind,
         ResetBindFails, ResetListen, ResetListenFails, CloseReceived,
         AcceptReceived, ResetReceived, ConnectFallback, CloseSocket, Goto,
         masks, received, SetSock, UnlinkAddr, walk, sockets, ZeroMask,
         Forget, RestoreMask, DropReceived
  <2>2. QED
  BY <1>6, <2>1
     DEF Serve, Resetting, Beyond, Walking, Making, Aborting, Early, Close,
         CloseUnlink, CloseForCloning, Accept, ResetListener, ResetUnlink,
         ResetOpenFails, ResetBind, ResetBindFails, ResetListen,
         ResetListenFails, CloseReceived, AcceptReceived, ResetReceived,
         ConnectFallback
<1>7. CASE MakeListeners(s)
  BY <1>3, <1>4, <1>5, <1>7
     DEF MakeListeners, Types, ControlType, Beyond, Walking, Making, Aborting,
         Early, Receive, ReceiveFails, ReceiveEnd, Skip, OpenFails,
         OpenCOTSServer, MkdirFails, PathTooLong, Unlink, Bind, BindAllowed,
         BindInUse, BindFails, ListenOk, ListenNoMem, ListenFails,
         AbortCloseReceived, AbortClose, AbortUnlink, AbortEnd, Finish,
         FinishNoMem, walk, sockets, masks, Goto, received, Continue, SetSock,
         ZeroMask, RestoreMask, Keep, CloseSocket, UnlinkAddr
<1>8. QED
  BY <1>1, <1>6, <1>7
     DEF Step, NoListen, Listen, Start, Beyond, Walking, Making, Aborting,
         Early

\* A socket file is not the absence of one.
LEMMA FileIs == \A o, t : <<o, t>> # NoFile
  BY DEF NoFile

\* The last entry of the table is made at a path.
LEMMA FlagsPath ==
  ASSUME NEW s \in Servers, FlagsOk(s), i[s] = 5
  PROVE  Cur(s) = "unix" /\ NameOf(s, Cur(s)) = "path"
  BY DEF Cur, Xtransports, NameOf, IsUnix, Abstract, FlagsOk, Transports

\* Where systemd hands over files only, it keeps no other name.
LEMMA FileUnitsOnly ==
  ASSUME Types, FileUnits, NEW t \in Transports, t # "unix"
  PROVE  ~UnitHas(t)
<1>1. ASSUME NEW o \in Servers, NEW k \in UnitKinds(o)
      PROVE  k \in {"unix", "other"}
  BY <1>1 DEF Types, ReceivedType, UnitKinds, FileUnits
<1>2. QED
  BY <1>1 DEF UnitHas, TransOf, Transports

\* A call that begins to fail, and not for lack of memory, has found an
\* address in use; from then on the index stays where it is.
LEMMA StepBad ==
  ASSUME Types, NEW s \in Servers, Step(s), Bad(s)'
  PROVE  BindInUse(s) \/ (Bad(s) /\ i'[s] = i[s])
<1>1. CASE pc'[s] \notin Aborting \union {"failed"} \/ oom'[s]
  BY <1>1 DEF Bad
<1>2. CASE pc[s] \in Aborting /\ UNCHANGED <<i, oom>>
  BY <1>2 DEF Bad
<1>3. CASE FinishNoMem(s)
  BY <1>1, <1>3 DEF FinishNoMem, Types, ControlType
<1>4. CASE MakeListeners(s)
  BY <1>1, <1>2, <1>3, <1>4
     DEF MakeListeners, Types, ControlType, Aborting, Receive, ReceiveFails,
         ReceiveEnd, Skip, OpenFails, OpenCOTSServer, MkdirFails, PathTooLong,
         Unlink, Bind, BindAllowed, BindInUse, BindFails, ListenOk,
         ListenNoMem, ListenFails, AbortCloseReceived, AbortClose,
         AbortUnlink, AbortEnd, Finish, walk, sockets, masks, Goto, received,
         Continue, SetSock, ZeroMask, RestoreMask, Keep, CloseSocket,
         UnlinkAddr
<1>5. CASE Serve(s)
  BY <1>1, <1>5
     DEF Serve, Types, ControlType, Aborting, Close, CloseUnlink,
         CloseForCloning, Accept, ResetListener, ResetUnlink, ResetOpenFails,
         ResetBind, ResetBindFails, ResetListen, ResetListenFails,
         CloseReceived, AcceptReceived, ResetReceived, ConnectFallback,
         CloseSocket, Goto, masks, received, SetSock, UnlinkAddr, walk,
         sockets, ZeroMask, Forget, RestoreMask, DropReceived
<1>6. QED
  BY <1>1, <1>4, <1>5
     DEF Step, NoListen, Listen, Start, Exit, Goto, Types, ControlType,
         Aborting

\* A process beyond an entry is beyond those before it.
LEMMA BeyondLess ==
  ASSUME Types, NEW o \in Servers, NEW n \in 1 .. 5, NEW m \in 1 .. 5,
         m <= n, Beyond(o, n)
  PROVE  Beyond(o, m)
<1>1. i[o] \in 1 .. 6
  BY DEF Types, ControlType
<1>2. QED
  BY <1>1 DEF Beyond

\* A process that does not fail stays beyond an entry, and does not begin to
\* fail, unless it is turned away.
LEMMA GoodStays ==
  ASSUME Types, "restart" \notin Faults, NEW s \in Servers, Step(s),
         NEW o \in Servers, NEW n \in 1 .. 5, ~Bad(o), Beyond(o, n),
         o = s => ~BindInUse(s)
  PROVE  ~Bad(o)' /\ Beyond(o, n)'
<1>1. CASE o = s
  BY <1>1, StepBad, StepBeyond
<1>2. CASE o # s
  BY <1>2, StepOthers, SameFate DEF Others
<1>3. QED
  BY <1>1, <1>2

\* No step breaks Fresh: a process is not turned away by its own file.
LEMMA StepFresh ==
  ASSUME Locals, Files, "restart" \notin Faults, Fresh, NEW s \in Servers,
         Step(s)
  PROVE  Fresh'
<1>1. Others(s) /\ Types
  BY StepOthers DEF Locals
<1>2. ASSUME NEW o \in Servers, path' = <<o, "local">>
      PROVE  ~Bad(o)' /\ Beyond(o, 4)'
  <2>1. CASE path' # path
    BY <1>2, <2>1, MakesFile, FileIs
  <2>2. CASE path' = path
    <3>1. ~Bad(o) /\ Beyond(o, 4)
      BY <1>2, <2>2 DEF Fresh
    <3>2. o = s => ~BindInUse(s)
      <4>1. SUFFICES ASSUME o = s, BindInUse(s) PROVE FALSE
        OBVIOUS
      <4>2. pc[s] = "bind" /\ i[s] \in 1 .. 5
        BY <1>1, <4>1 DEF BindInUse, Types, ControlType, Making
      <4>3. i[s] = 5
        BY <3>1, <4>1, <4>2 DEF Beyond, Walking, Making, Early
      <4>4. NameOf(s, Cur(s)) = "path"
        BY <4>3, FlagsPath DEF Locals, Local
      <4>5. QED
        BY <1>2, <2>2, <4>1, <4>2, <4>4, FileIs DEF Files
    <3>3. QED
      BY <1>1, <3>1, <3>2, GoodStays
  <2>3. QED
    BY <2>1, <2>2
<1>3. ASSUME NEW x \in Servers, pc'[x] = "bind", NameOf(x, Cur(x))' = "path",
             path' # NoFile
      PROVE  /\ path'[2] # "passed"
             /\ \A o \in Servers :
                  path' = <<o, "unix">> => ~Bad(o)' /\ Beyond(o, 5)'
  <2>1. CASE path' # path
    BY <1>3, <2>1, MakesFile
  <2>2. CASE path' = path
    <3>1. x # s
      BY <1>1, <1>3, ComesToBind
    <3>2. pc[x] = "bind" /\ NameOf(x, Cur(x)) = "path"
      BY <1>1, <1>3, <3>1, NameSame DEF Others, Same
    <3>3. ASSUME NEW o \in Servers, path' = <<o, "unix">>
          PROVE  ~Bad(o)' /\ Beyond(o, 5)'
      <4>1. ~Bad(o) /\ Beyond(o, 5)
        BY <1>3, <2>2, <3>2, <3>3 DEF Fresh
      <4>2. o = s => ~BindInUse(s)
        BY <1>1, <4>1
           DEF BindInUse, Beyond, Walking, Making, Early, Types, ControlType
      <4>3. QED
        BY <1>1, <4>1, <4>2, GoodStays
    <3>4. QED
      BY <1>3, <2>2, <3>2, <3>3 DEF Fresh
  <2>3. QED
    BY <2>1, <2>2
<1>4. QED
  BY <1>2, <1>3 DEF Fresh

\* A process that is turned away meets one that has not been and is as far.
\* The holder of the name is as far; if it is itself on its way out, it was
\* turned away further down the table, by one that is further still.
LEMMA TurnedAway ==
  ASSUME Locals, Files, FileUnits, Fresh, Survivor, NEW s \in Servers,
         BindInUse(s)
  PROVE  \E o \in Servers \ {s} : ~Bad(o) /\ Beyond(o, Reached(s))
<1>1. Types /\ Local(s)
  BY DEF Locals
<1>2. /\ pc[s] = "bind" /\ i[s] \in 1 .. 5 /\ InUse(s, Cur(s))
      /\ Cur(s) \in Transports /\ Place(Cur(s)) = i[s]
  BY <1>1, CurIn, Table DEF BindInUse, Types, ControlType, Making
<1>3. CASE NameOf(s, Cur(s)) = "path"
  <2>1. /\ path \in Servers \X (Transports \union {"passed"})
        /\ path[2] \in {"local", "unix"} /\ path[1] # s
    BY <1>1, <1>2, <1>3 DEF InUse, Types, SocketType, Files, Fresh
  <2>2. PICK o \in Servers : path = <<o, path[2]>> /\ o # s
    BY <2>1
  <2>3. ~Bad(o) /\ Beyond(o, 4)
    BY <1>1, <1>2, <1>3, <2>1, <2>2, BeyondLess DEF Fresh, InUse
  <2>4. Reached(s) \in 1 .. 5 /\ Reached(s) <= 4
    BY <1>2 DEF Reached
  <2>5. Beyond(o, Reached(s))
    BY <1>1, <2>3, <2>4, BeyondLess
  <2>6. QED
    BY <2>2, <2>3, <2>5
<1>4. CASE NameOf(s, Cur(s)) # "path"
  <2>1. Cur(s) # "unix" /\ i[s] <= 4
    <3>1. i[s] # 5
      BY <1>1, <1>4, FlagsPath DEF Local
    <3>2. Place("unix") = 5
      BY DEF Place
    <3>3. QED
      BY <1>2, <3>1, <3>2
  <2>2. ~UnitHas(Cur(s))
    BY <1>1, <1>2, <2>1, FileUnitsOnly
  <2>3. PICK o \in Servers \ {s} : at[o][Cur(s)] # "none"
    BY <1>2, <1>4, <2>2, NameIn DEF InUse
  <2>4. Types /\ Local(o) /\ i[o] \in 1 .. 6
    BY DEF Locals, Types, ControlType
  <2>5. Beyond(o, i[s])
    <3>1. pc[o] \notin Early
      BY <1>2, <2>3, <2>4 DEF Local, Passed, Bare
    <3>2. CASE pc[o] \in Walking \union {"failed"}
      <4>1. Place(Cur(s)) < i[o] \/ (pc[o] = "listen" /\ Cur(s) = Cur(o))
        BY <1>2, <2>3, <2>4, <3>2 DEF Local, Passed
      <4>2. pc[o] = "listen" => Place(Cur(o)) = i[o]
        BY <2>4, CurIn, Table DEF Types, ControlType, Making
      <4>3. QED
        BY <1>2, <2>4, <3>2, <4>1, <4>2 DEF Beyond
    <3>3. QED
      BY <3>1, <3>2 DEF Beyond
  <2>6. Reached(s) = i[s]
    BY <1>2, <2>1 DEF Reached
  <2>7. CASE ~Bad(o)
    BY <2>5, <2>6, <2>7
  <2>8. CASE Bad(o)
    <3>1. pc[o] \in Aborting /\ i[o] > i[s]
      BY <1>2, <2>3, <2>4, <2>5, <2>8
         DEF Bad, Local, Holds, Beyond, Walking, Aborting, Early
    <3>2. Reached(o) \in 1 .. 5 /\ Reached(o) >= i[s]
      BY <1>2, <2>1, <2>4, <3>1 DEF Reached
    <3>3. PICK w \in Servers : ~Bad(w) /\ Beyond(w, Reached(o))
      BY <2>8 DEF Survivor
    <3>4. Beyond(w, i[s])
      BY <1>2, <2>4, <3>2, <3>3, BeyondLess
    <3>5. w # s
      BY <1>2, <3>4 DEF Beyond, Walking, Making, Early
    <3>6. QED
      BY <2>6, <3>3, <3>4, <3>5
  <2>9. QED
    BY <2>7, <2>8
<1>5. QED
  BY <1>3, <1>4

\* No step breaks Survivor.
LEMMA StepSurvivor ==
  ASSUME Locals, Files, "restart" \notin Faults, FileUnits, Fresh, Survivor,
         NEW s \in Servers, Step(s)
  PROVE  Survivor'
<1>1. Others(s) /\ Types
  BY StepOthers DEF Locals
<1>2. \A x \in Servers : Reached(x) \in 1 .. 5 /\ Reached(x) <= 4
  BY <1>1 DEF Reached, Types, ControlType
<1>3. ASSUME NEW x \in Servers, Bad(x)'
      PROVE  i'[x] = i[x] /\ (Bad(x) \/ (x = s /\ BindInUse(s)))
  <2>1. CASE x = s
    BY <1>1, <1>3, <2>1, StepBad DEF BindInUse, walk
  <2>2. CASE x # s
    BY <1>1, <1>3, <2>2, SameFate DEF Others, Same
  <2>3. QED
    BY <2>1, <2>2
<1>4. ASSUME NEW x \in Servers, Bad(x)'
      PROVE  \E o \in Servers : ~Bad(o)' /\ Beyond(o, Reached(x))'
  <2>1. Reached(x)' = Reached(x)
    BY <1>3, <1>4 DEF Reached
  <2>2. ASSUME NEW o \in Servers, ~Bad(o), Beyond(o, Reached(x)),
               o = s => ~BindInUse(s)
        PROVE  \E w \in Servers : ~Bad(w)' /\ Beyond(w, Reached(x))'
    <3> DEFINE n == Reached(x)
    <3>1. n \in 1 .. 5 /\ Beyond(o, n)
      BY <1>2, <2>2
    <3> HIDE DEF n
    <3>2. ~Bad(o)' /\ \A m : m = n => Beyond(o, m)'
      BY <1>1, <2>2, <3>1, GoodStays
    <3>3. QED
      BY <2>1, <3>2 DEF n, Beyond
  <2>3. CASE ~BindInUse(s)
    BY <1>3, <1>4, <2>2, <2>3 DEF Survivor
  <2>4. CASE BindInUse(s)
    <3>1. PICK o \in Servers \ {s} : ~Bad(o) /\ Beyond(o, Reached(s))
      BY <2>4, TurnedAway
    <3>2. CASE x = s
      BY <2>2, <3>1, <3>2
    <3>3. CASE x # s
      <4>1. PICK w \in Servers : ~Bad(w) /\ Beyond(w, Reached(x))
        BY <1>3, <1>4, <3>3 DEF Survivor
      <4>2. CASE w = s
        <5>1. pc[s] = "bind" /\ i[s] \in 1 .. 5 /\ i[s] > Reached(x)
          BY <1>1, <1>2, <2>4, <4>1, <4>2
             DEF BindInUse, Types, ControlType, Beyond, Walking, Making, Early
        <5>2. Reached(x) <= Reached(s)
          BY <1>2, <5>1 DEF Reached
        <5>3. Beyond(o, Reached(x))
          BY <1>1, <1>2, <3>1, <5>2, BeyondLess
        <5>4. QED
          BY <2>2, <3>1, <5>3
      <4>3. CASE w # s
        BY <2>2, <4>1, <4>3
      <4>4. QED
        BY <4>2, <4>3
    <3>4. QED
      BY <3>2, <3>3
  <2>5. QED
    BY <2>3, <2>4
<1>5. QED
  BY <1>4 DEF Survivor

-----------------------------------------------------------------------------
(* The invariant.                                                          *)

\* What the cleaner does to it.
LEMMA CleanInv ==
  ASSUME Inv, Clean
  PROVE  Exclusive' /\ Files' /\ Orderly'
<1>1. path' = NoFile /\ UNCHANGED <<pc, i, sock, at, units, oom>>
  BY DEF Clean, walk, sockets, received
<1>2. Exclusive' /\ Files'
  BY <1>1 DEF Inv, Exclusive, Files, UnitHas, UnitKinds
<1>3. Fresh => Fresh'
  BY <1>1, FileIs DEF Fresh
<1>4. Survivor => Survivor'
  BY <1>1 DEF Survivor, Bad, Beyond, Reached
<1>5. QED
  BY <1>2, <1>3, <1>4 DEF Inv, Orderly

\* The invariant holds when the processes begin.
LEMMA InitInv == Init => Inv
<1> SUFFICES ASSUME Init PROVE Inv
  OBVIOUS
<1>1. Exclusive
  BY DEF Init, Exclusive
<1>2. \A s \in Servers : pc[s] = "idle"
  BY DEF Init
<1>3. /\ path # NoFile => path[2] \in {"unix", "passed"}
      /\ path # NoFile /\ path[2] = "passed" => units[path[1]] # <<>>
  BY DEF Init, NoFile, UnitKinds
<1>4. Files
  BY <1>2, <1>3 DEF Files
<1>5. Orderly
  BY <1>2, <1>3, FileIs DEF Orderly, Fresh, Survivor, Bad, Aborting
<1>6. QED
  BY <1>1, <1>4, <1>5, InitLocals DEF Inv

\* It is inductive.
LEMMA NextInv == Inv /\ [Next]_vars => Inv'
<1> SUFFICES ASSUME Inv, [Next]_vars PROVE Inv'
  OBVIOUS
<1>1. Locals'
  BY NextLocals DEF Inv
<1>2. ASSUME NEW s \in Servers, Step(s)
      PROVE  Exclusive' /\ Files' /\ Orderly'
  <2>1. Exclusive' /\ Files'
    BY <1>2, StepExclusive, StepFiles DEF Inv
  <2>2. Orderly'
    BY <1>2, StepFresh, StepSurvivor DEF Inv, Orderly, FileUnits
  <2>3. QED
    BY <2>1, <2>2
<1>3. CASE UNCHANGED vars
  <2>1. UNCHANGED <<pc, i, flags, sock, at, units, oom, path>>
    BY <1>3 DEF vars, walk, sockets, received
  <2>2. Exclusive' /\ Files'
    BY <2>1
       DEF Inv, Exclusive, Files, UnitHas, UnitKinds, NameOf, Abstract, Cur
  <2>3. Orderly'
    BY <2>1
       DEF Inv, Orderly, FileUnits, Fresh, Survivor, Bad, Beyond, Reached,
           NameOf, Abstract, Cur
  <2>4. QED
    BY <1>1, <2>2, <2>3 DEF Inv
<1>4. QED
  BY <1>1, <1>2, <1>3, CleanInv, NextStep DEF Inv

\* The invariant holds in every behaviour.
THEOREM InvHolds == Spec => []Inv
<1>1. Init => Inv
  BY InitInv
<1>2. Inv /\ [Next]_vars => Inv'
  BY NextInv
<1>3. QED
  BY <1>1, <1>2, PTL DEF Spec

-----------------------------------------------------------------------------
(* Invariants.                                                             *)

\* A call of MakeAllCOTSServerListeners that failed over an address in use has
\* closed all it had, received or made: the names held during the walk are
\* those in temp_ciptrs, which the abort goes through.
THEOREM FailedReleasesHolds == Spec => []FailedReleases
<1>1. Inv => FailedReleases
  BY DEF Inv, Locals, Local, Holds, FailedReleases
<1>2. QED
  BY <1>1, InvHolds, PTL

\* The listeners fit into temp_ciptrs unless systemd hands over two sockets
\* more than there are transports for: those the walk makes are of transports
\* that were not received, and four transports are no aliases.
THEOREM TempFitsHolds == Spec => []TempFits
<1>1. Inv => TempFits
  BY DEF Inv, Locals, Local, Fits, TempFits
<1>2. QED
  BY <1>1, InvHolds, PTL

\* Two processes past the bind of the abstract name are the same one.
LEMMA OnePastLocal ==
  ASSUME Inv, LocalWorks, NEW s \in Servers, NEW o \in Servers,
         PastLocal(s), PastLocal(o), Enabled(s, "local"), Enabled(o, "local")
  PROVE  s = o
<1>1. \A x \in {s, o} :
        at[x]["local"] = "abstract" \/ "local" \in UnitTrans(x)
  BY DEF Inv, Locals, Local, HasLocal, FlagsOk, Transports
<1>2. \A x \in {s, o} : "local" \in UnitTrans(x) =>
        UnitHas("local") /\ units[x] # <<>>
  BY DEF UnitTrans, UnitHas, UnitKinds
<1>3. QED
  BY <1>1, <1>2 DEF Inv, Exclusive, Transports

\* Two processes are never both up as servers of the display, when both want
\* the abstract name and nothing but another server keeps them from it.
THEOREM OneServerHolds == Spec => []OneServer
<1>1. Inv => OneServer
  BY OnePastLocal DEF OneServer, PastLocal
<1>2. QED
  BY <1>1, InvHolds, PTL

\* Of two processes that were told that their listeners are complete, one has
\* TCP over IPv6, and one the abstract name, switched off: *partial tells of
\* every lost listener, whatever fails and whatever is restarted.
THEOREM CompleteIsExclusiveHolds == Spec => []CompleteIsExclusive
<1>1. ASSUME Inv, PlainUnits, NEW s \in Servers, NEW o \in Servers, s # o,
             pc[s] = "up", pc[o] = "up", ~partial[s], ~partial[o],
             NEW t \in {"inet6", "local"}, Enabled(s, t), Enabled(o, t),
             t = "local" => Abstract(s, t) /\ Abstract(o, t)
      PROVE  FALSE
  <2>1. \A x \in {s, o} : t \in temp[x] \/ t \in UnitTrans(x)
    BY <1>1 DEF Inv, Locals, Local, Complete
  <2>2. \A x \in {s, o} : t \in temp[x] =>
          IF t = "local" THEN at[x][t] = "abstract"
                         ELSE at[x][t] = "port" /\ sock[x][t] = "listening"
    BY <1>1 DEF Inv, Locals, Local, Kept
  <2>3. \A x \in {s, o} : t \in UnitTrans(x) => UnitHas(t) /\ units[x] # <<>>
    BY <1>1 DEF UnitTrans, UnitHas, UnitKinds
  <2>4. t \in Transports
    BY DEF Transports
  <2>5. QED
    BY <1>1, <2>1, <2>2, <2>3, <2>4 DEF Inv, Exclusive
<1>2. Inv => CompleteIsExclusive
  BY <1>1 DEF CompleteIsExclusive
<1>3. QED
  BY <1>2, InvHolds, PTL

\* Processes that start once do not all turn each other away, however many
\* there are and whatever fails but an allocation: one that was turned away
\* leaves one as far that was not.
THEOREM NotAllFailHolds == Spec => []NotAllFail
<1>1. Inv => NotAllFail
  BY ListenAssumption DEF Inv, Orderly, Survivor, Bad, NotAllFail
<1>2. QED
  BY <1>1, InvHolds, PTL

-----------------------------------------------------------------------------
(* Action properties.                                                      *)

\* A reset takes down a listener that clients reach only when it is abstract
\* and its transport has lost the flag.
THEOREM ResetWhenGoneHolds == Spec => ResetWhenGone
<1> DEFINE A == \A s \in Servers, t \in Transports :
                  ResetListener(s, t) /\ sock[s][t] = "listening" =>
                    \/ at[s][t] = "path" /\ path # <<s, t>>
                    \/ at[s][t] = "auto"
                    \/ at[s][t] = "abstract" /\ ~Abstract(s, t)
<1>1. Inv => A
  BY FileIs DEF Inv, Locals, Local, Kept, ResetListener, Missing
<1>2. Inv /\ [Next]_vars => [A]_vars
  BY <1>1
<1>3. QED
  BY <1>2, InvHolds, PTL DEF Spec, ResetWhenGone

\* *partial is false only when there is a listener for every transport that
\* is switched on: the transports counted are as many as the listeners, which
\* are of different ones among them.
THEOREM PartialTruthfulHolds == Spec => PartialTruthful
<1> DEFINE A == \A s \in Servers :
                  /\ Finish(s) /\ ~partial'[s]
                  /\ Surplus(s) = 0
                  /\ \A t \in ReceivedTrans(s) : Enabled(s, t)
                  => \A t \in Transports :
                       Enabled(s, t) /\ "ALIAS" \notin flags[s][t] =>
                         t \in temp[s] \union ReceivedTrans(s)
<1>1. ASSUME Inv, NEW s \in Servers, Finish(s), ~partial'[s], Surplus(s) = 0,
             \A t \in ReceivedTrans(s) : Enabled(s, t)
      PROVE  \A t \in Transports :
               Enabled(s, t) /\ "ALIAS" \notin flags[s][t] =>
                 t \in temp[s] \union ReceivedTrans(s)
  <2>1. Types /\ Local(s)
    BY <1>1 DEF Inv, Locals
  <2>2. ~(Count(s) < complete_network_count(flags[s]))
    BY <1>1, <2>1 DEF Finish, Types, FlagType
  <2>3. Cardinality(ReceivedTrans(s)) \in Nat
    BY <2>1, Apart, Zenon
  <2>4. Len(recv[s]) \in Nat
    BY <2>1 DEF Types, ReceivedType
  <2>5. Len(recv[s]) = Cardinality(ReceivedTrans(s))
    BY <1>1, <2>3, <2>4 DEF Surplus
  <2>6. QED
    BY <1>1, <2>1, <2>2, <2>5, Truthful
<1>2. Inv /\ [Next]_vars => [A]_vars
  BY <1>1
<1>3. QED
  BY <1>2, InvHolds, PTL DEF Spec, PartialTruthful

\* A name that is found in use belongs to somebody else, as the comment in
\* MakeAllCOTSServerListeners has it: the walk skips what it received and
\* unlinks the file before it binds it.
THEOREM BlamesOtherHolds == Spec => BlamesOther
<1> DEFINE B(s) == \/ \E o \in Servers \ {s} :
                        \/ at[o][Cur(s)] # "none"
                        \/ units[o] # <<>>
                        \/ path \in {o} \X Transports
                   \/ Cur(s) = "inet" /\ "dual" \in ReceivedKinds(s)
                   \/ Len(recv[s]) < Len(units[s])
<1>1. ASSUME Inv, NEW s \in Servers, BindInUse(s)
      PROVE  B(s)
  <2>1. Types /\ Local(s) /\ pc[s] = "bind" /\ InUse(s, Cur(s))
    BY <1>1 DEF Inv, Locals, BindInUse
  <2>2. CASE UnitHas(Cur(s))
    <3>0. PICK o \in Servers :
            \E k \in UnitKinds(o) :
              TransOf(k) = Cur(s) \/ (k = "dual" /\ Cur(s) = "inet")
      BY <2>2 DEF UnitHas
    <3>1. PICK k \in UnitKinds(o) :
            TransOf(k) = Cur(s) \/ (k = "dual" /\ Cur(s) = "inet")
      BY <3>0
    <3>2. CASE o # s
      BY <3>1, <3>2 DEF UnitKinds
    <3>3. CASE o = s /\ ~(Len(recv[s]) < Len(units[s]))
      <4>1. PICK j \in 1 .. Len(units[s]) : k = units[s][j]
        BY <3>1, <3>3 DEF UnitKinds
      <4>2. Len(recv[s]) \in Nat /\ Len(units[s]) \in Nat
        BY <2>1, UnitsAssumption DEF Types, ReceivedType
      <4>3. j \in 1 .. Len(recv[s])
        BY <3>3, <4>1, <4>2
      <4>4. recv[s][j].kind = k /\ "RECEIVED" \in flags[s][TransOf(k)]
        BY <2>1, <4>1, <4>3 DEF Local, ReceivedOk, Making
      <4>5. TransOf(k) # Cur(s)
        BY <2>1, <4>4 DEF Local, Chosen, Skipped, Making
      <4>6. QED
        BY <3>1, <4>3, <4>4, <4>5 DEF ReceivedKinds
    <3>4. QED
      BY <3>2, <3>3
  <2>3. CASE NameOf(s, Cur(s)) # "path" /\ ~UnitHas(Cur(s))
    BY <2>1, <2>3, NameIn DEF InUse
  <2>4. CASE NameOf(s, Cur(s)) = "path"
    <3>1. /\ path \in Servers \X (Transports \union {"passed"})
          /\ path[1] \in Servers \ {s}
          /\ path[2] = "passed" => units[path[1]] # <<>>
      BY <1>1, <2>1, <2>4 DEF Inv, Files, InUse, Types, SocketType
    <3>2. path[2] # "passed" => path \in {path[1]} \X Transports
      BY <3>1
    <3>3. QED
      BY <3>1, <3>2
  <2>5. QED
    BY <2>2, <2>3, <2>4
<1>2. Inv /\ [Next]_vars => [\A s \in Servers : BindInUse(s) => B(s)]_vars
  BY <1>1
<1>3. QED
  BY <1>2, InvHolds, PTL DEF Spec, BlamesOther

\* A server that is up loses its socket file to a cleaner or to the close of
\* another server only: whoever comes to the unlink before a bind, or to a
\* reset, is past the abstract name, and an abort does not get that far.
THEOREM PathLossHolds == Spec => PathLoss
<1> DEFINE A == LocalWorks /\ "local" \notin Configurable =>
                  \A s \in Servers : Serving(s) /\ path' # path =>
                    Clean \/ \E o \in Servers \ {s} : CloseUnlink(o)
<1>1. ASSUME Inv, LocalWorks, "local" \notin Configurable,
             NEW s \in Servers, Serving(s), path' # path,
             NEW x \in Servers, Step(x)
      PROVE  x # s /\ CloseUnlink(x)
  <2>1. Types /\ Local(s) /\ Local(x)
    BY <1>1 DEF Inv, Locals
  <2>2. \/ Unlink(x) \/ AbortUnlink(x) \/ CloseUnlink(x)
        \/ ResetUnlink(x) \/ ResetOpenFails(x)
    BY <1>1, PathStep, FileIs DEF Serving
  <2>3. x # s
    BY <1>1, <2>2
       DEF Serving, Unlink, AbortUnlink, CloseUnlink, ResetUnlink,
           ResetOpenFails
  <2>4. \A o \in {s, x} : Enabled(o, "local") /\ Abstract(o, "local")
    <3>1. Enabled(s, "local") /\ Enabled(x, "local")
      BY <1>1, <2>1 DEF Enabled, Local, FlagsOk, NolistenOf, Transports
    <3>2. QED
      BY <1>1, <2>1, <3>1, LocalAbstract DEF Local
  <2>5. ~PastLocal(x)
    BY <1>1, <2>3, <2>4, OnePastLocal DEF Serving, PastLocal
  <2>6. ~Unlink(x)
    <3>1. SUFFICES ASSUME Unlink(x) PROVE FALSE
      OBVIOUS
    <3>2. pc[x] = "unlink" /\ NameOf(x, Cur(x)) = "path"
      BY <2>1, <3>1 DEF Unlink, Local, Bound
    <3>3. Cur(x) # "local"
      BY <2>4, <3>2 DEF NameOf
    <3>4. i[x] = 5
      BY <2>1, <3>2, <3>3, PathTrans DEF Making
    <3>5. QED
      BY <2>5, <3>2, <3>4 DEF PastLocal, Making
  <2>7. ~AbortUnlink(x)
    <3>1. SUFFICES ASSUME AbortUnlink(x) PROVE FALSE
      OBVIOUS
    <3>2. /\ IsUnix(victim[x]) /\ ~Abstract(x, victim[x])
          /\ Place(victim[x]) < i[x] /\ i[x] \in 1 .. 5
      BY <2>1, <3>1
         DEF AbortUnlink, Local, Victim, Types, ControlType, Aborting
    <3>3. Place("unix") = 5
      BY DEF Place
    <3>4. QED
      BY <2>4, <3>2, <3>3 DEF IsUnix
  <2>8. ~ResetUnlink(x) /\ ~ResetOpenFails(x)
    BY <2>5 DEF ResetUnlink, ResetOpenFails, PastLocal, Resetting
  <2>9. QED
    BY <2>2, <2>3, <2>6, <2>7, <2>8
<1>2. Inv /\ [Next]_vars => [A]_vars
  BY <1>1, NextStep
<1>3. QED
  BY <1>2, InvHolds, PTL DEF Spec, PathLoss

\* A step of s itself leaves its mask in order, but for the three that the
\* property names.
LEMMA StepMask ==
  ASSUME Types, NEW s \in Servers, Local(s), Step(s), MaskOk(s), ~MaskOk(s)'
  PROVE  \/ PathTooLong(s)
         \/ ResetBindFails(s)
         \/ \E k \in 1 .. Len(recv[s]) : ResetReceived(s, k, "bind")
<1> DEFINE Off == Making \union Resetting
<1>1. CASE pc[s] \notin Off /\ pc'[s] \notin Off /\ umask' = umask
  BY <1>1 DEF MaskOk, Masked, Making, Resetting
<1>2. CASE OpenCOTSServer(s)
  <2>1. /\ pc[s] = "loop" /\ pc'[s] \in Making /\ Cur(s)' = Cur(s)
        /\ umask[s] = "user"
    BY <1>2
       DEF OpenCOTSServer, Goto, walk, Cur, Types, ControlType, Making,
           MaskOk, Masked
  <2>2. IF IsUnix(Cur(s)) THEN oldUmask'[s] = "user" ELSE umask'[s] = "user"
    BY <1>2, <2>1 DEF OpenCOTSServer, ZeroMask, masks, Types, FlagType
  <2>3. QED
    BY <2>1, <2>2 DEF MaskOk, Masked, Making
<1>3. CASE Unlink(s) \/ Bind(s) \/ BindAllowed(s)
  <2>1. /\ pc[s] \in Making /\ pc'[s] \in Making /\ Cur(s)' = Cur(s)
        /\ umask' = umask /\ oldUmask' = oldUmask
    BY <1>3
       DEF Unlink, Bind, BindAllowed, Goto, walk, masks, Cur, Types,
           ControlType, Making
  <2>2. QED
    BY <2>1 DEF MaskOk, Masked, Making
<1>4. CASE \/ MkdirFails(s) \/ BindInUse(s) \/ BindFails(s) \/ ListenOk(s)
           \/ ListenNoMem(s) \/ ListenFails(s)
  <2>1. /\ pc[s] \in Making /\ pc'[s] \notin Off /\ RestoreMask(s, Cur(s))
    BY <1>4
       DEF MkdirFails, BindInUse, BindFails, ListenOk, ListenNoMem,
           ListenFails, Keep, Continue, Goto, Types, ControlType, Making,
           Resetting
  <2>2. QED
    BY <2>1
       DEF RestoreMask, MaskOk, Masked, Making, Resetting, Types, FlagType
<1>5. ASSUME NEW t \in Transports, ResetListener(s, t)
      PROVE  FALSE
  BY <1>5
     DEF ResetListener, ZeroMask, Goto, MaskOk, Masked, Types, ControlType,
         FlagType
<1>6. CASE ResetUnlink(s) \/ ResetBind(s)
  BY <1>6
     DEF ResetUnlink, ResetBind, Goto, masks, MaskOk, Masked, Types,
         ControlType
<1>7. CASE ResetOpenFails(s) \/ ResetListen(s) \/ ResetListenFails(s)
  <2>1. /\ pc[s] \in Resetting /\ pc'[s] = "up" /\ IsUnix(victim[s])
        /\ RestoreMask(s, victim[s])
    BY <1>7
       DEF ResetOpenFails, ResetListen, ResetListenFails, Goto, Local, Victim,
           Resetting, Types, ControlType
  <2>2. QED
    BY <2>1 DEF RestoreMask, MaskOk, Masked, Resetting, Types, FlagType
<1>8. ASSUME NEW k \in 1 .. Len(recv[s]), NEW outcome \in ResetOutcomes,
             ResetReceived(s, k, outcome), outcome # "bind"
      PROVE  FALSE
  <2>1. pc[s] = "up" /\ pc' = pc /\ umask' = umask
    BY <1>8 DEF ResetReceived
  <2>2. QED
    BY <2>1 DEF MaskOk, Masked
<1>9. CASE Exit(s)
  BY <1>9 DEF Exit, Goto, MaskOk, Masked, Types, ControlType, FlagType
<1>10. CASE MakeListeners(s)
  BY <1>1, <1>2, <1>3, <1>4, <1>10
     DEF MakeListeners, Types, ControlType, Making, Resetting, Receive,
         ReceiveFails, ReceiveEnd, Skip, OpenFails, AbortCloseReceived,
         AbortClose, AbortUnlink, AbortEnd, Finish, FinishNoMem, walk,
         sockets, masks, Goto, received, Continue, CloseSocket, SetSock,
         UnlinkAddr
<1>11. CASE Serve(s)
  BY <1>1, <1>5, <1>6, <1>7, <1>8, <1>11
     DEF Serve, Types, ControlType, Making, Resetting, Close, CloseUnlink,
         CloseForCloning, Accept, CloseReceived, AcceptReceived,
         ConnectFallback, CloseSocket, Goto, masks, received, SetSock,
         UnlinkAddr, walk, sockets, DropReceived
<1>12. QED
  BY <1>1, <1>9, <1>10, <1>11
     DEF Step, NoListen, Listen, Start, Goto, masks, Types, ControlType,
         Making, Resetting

\* The process's own umask comes back after every listener operation, but for
\* a path too long and a bind that fails in a reset.
THEOREM MaskLeaksHolds == Spec => MaskLeaks
<1> DEFINE A == \A s \in Servers : MaskOk(s) /\ ~MaskOk(s)' =>
                  \/ PathTooLong(s)
                  \/ ResetBindFails(s)
                  \/ \E k \in 1 .. Len(recv[s]) : ResetReceived(s, k, "bind")
<1>1. ASSUME NEW s \in Servers, Same(s)
      PROVE  MaskOk(s)' <=> MaskOk(s)
  BY <1>1 DEF Same, MaskOk, Masked, Cur
<1>2. ASSUME Inv, NEW x \in Servers, Step(x)
      PROVE  A
  <2>1. Types /\ Local(x) /\ Others(x)
    BY <1>2, StepOthers DEF Inv, Locals
  <2>2. QED
    BY <1>1, <1>2, <2>1, StepMask DEF Others
<1>3. ASSUME Clean
      PROVE  A
  BY <1>1, <1>3, CleanSame
<1>4. Inv /\ [Next]_vars => [A]_vars
  BY <1>2, <1>3, NextStep
<1>5. QED
  BY <1>4, InvHolds, PTL DEF Spec, MaskLeaks

=============================================================================
