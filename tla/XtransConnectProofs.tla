------------------------- MODULE XtransConnectProofs -------------------------
(***************************************************************************)
(* The safety properties of XtransConnect, for any number of connections,  *)
(* descriptors and addresses.                                              *)
(***************************************************************************)
EXTENDS XtransConnect, TLAPS

Labels ==
  {"idle", "opened", "scan", "reopen", "connect", "again", "failed",
   "progress", "done", "gaveup"}

Types ==
  /\ pc \in [Conns -> Labels]
  /\ index \in [Conns -> 1 .. 4]
  /\ fd \in [Conns -> Fds \union {NoFd}]
  /\ owner \in [Fds -> Conns \union {NoOne, Program}]
  /\ family \in [Fds -> Families]
  /\ host \in Hosts
  /\ addrs \in AddrLists \union {<<>>}
  /\ cur \in Nat
  /\ astray \subseteq Conns

\* Calls of Connect do not overlap.
Alone == \A c, o \in Conns : InCall(c) /\ InCall(o) => c = o

\* The list that is walked has addresses, and the cursor is in it.
Listed ==
  /\ listed => addrs \in AddrLists
  /\ \A c \in Conns : InCall(c) => addrs \in AddrLists
  /\ cur <= Len(addrs)
  /\ \A c \in Conns : pc[c] \in {"reopen", "connect"} => cur # 0

\* While the socket is being replaced the connection has none.
Between == \A c \in Conns : pc[c] = "reopen" => \A d \in Fds : owner[d] # c

\* The entry of the table is one of the transport's.
Entry ==
  \A c \in Conns :
    /\ pc[c] \notin {"idle", "gaveup"} =>
         Sockettrans2devtab[index[c]].transname = TransOf[c]
    /\ pc[c] = "reopen" => Reopens(c, cur)

\* Until a socket could not be reopened, a connection has its socket.
Has ==
  astray = {} =>
    \A c \in Conns :
      pc[c] \notin {"idle", "gaveup", "reopen"} =>
        fd[c] \in Fds /\ owner[fd[c]] = c

\* It has the family of the entry until it has been replaced for good.
Fits ==
  astray = {} =>
    \A c \in Conns :
      /\ pc[c] \in {"opened", "scan"} => family[fd[c]] = FamilyOf(index[c])
      /\ pc[c] = "connect" => family[fd[c]] = addrs[cur]

\* What the walk has passed since it went back to the beginning.
Passed ==
  \A c \in Conns :
    resetonce =>
      /\ pc[c] = "scan" =>
           \A k \in 1 .. Len(addrs) : (cur = 0 \/ k < cur) => ~Same(c, k)
      /\ pc[c] = "reopen" => \A k \in 1 .. Len(addrs) : k <= cur => ~Same(c, k)

CInv ==
  /\ Types /\ Alone /\ Listed /\ Between /\ NoSocketLeak /\ Entry
  /\ Has /\ Fits /\ Passed

-----------------------------------------------------------------------------
\* The table of socket types.
LEMMA Table ==
  /\ Len(Sockettrans2devtab) = 4
  /\ FamilyOf(1) = "in" /\ FamilyOf(2) = "in6"
  /\ FamilyOf(3) = "in" /\ FamilyOf(4) = "in6"
  /\ Sockettrans2devtab[1].transname = "inet"
  /\ Sockettrans2devtab[2].transname = "tcp"
  /\ Sockettrans2devtab[3].transname = "tcp"
  /\ Sockettrans2devtab[4].transname = "inet6"
  BY DEF Sockettrans2devtab, FamilyOf

\* The lists that getaddrinfo returns.
LEMMA Lists ==
  ASSUME NEW list \in AddrLists
  PROVE  /\ list \in Seq(Families) /\ Len(list) \in Nat /\ Len(list) > 0
         /\ \A k \in 1 .. Len(list) : list[k] \in Families
  BY ConnectAssumption

\* Connections are told from the program, and from nobody.
LEMMA NoneIsConn == \A c \in Conns : c # NoOne /\ c # Program
  BY OwnerAssumption

\* So are these two, and a ciptr without a socket.
LEMMA Kinds == NoOne # Program /\ NoFd \notin Nat
  BY DEF NoOne, Program, NoFd

\* No socket can be opened.
LEMMA OpenNullStep ==
  ASSUME CInv, NEW c \in Conns, OpenNull(c)
  PROVE  CInv'
<1>1. Types'
  BY DEF CInv, Types, Labels, OpenNull, Goto, addrlist, descriptors, ciptr
<1>2. Alone'
  BY DEF CInv, Types, Alone, OpenNull, Goto, InCall, addrlist, descriptors,
         ciptr
<1>3. Listed'
  BY DEF CInv, Types, Listed, OpenNull, Goto, InCall, addrlist, descriptors,
         ciptr
<1>4. Between'
  BY DEF CInv, Types, Between, OpenNull, Goto, addrlist, descriptors, ciptr
<1>5. NoSocketLeak'
  BY DEF CInv, Types, NoSocketLeak, OpenNull, Goto, addrlist, descriptors,
         ciptr
<1>6. Entry'
  BY DEF CInv, Types, Entry, Reopens, Same, OpenNull, Goto, addrlist,
         descriptors, ciptr
<1>7. Has'
  BY DEF CInv, Types, Has, OpenNull, Goto, addrlist, descriptors, ciptr
<1>8. Fits'
  BY DEF CInv, Types, Fits, OpenNull, Goto, addrlist, descriptors, ciptr
<1>9. Passed'
  BY DEF CInv, Types, Passed, Same, OpenNull, Goto, addrlist, descriptors,
         ciptr
<1>10. QED
  BY <1>1, <1>2, <1>3, <1>4, <1>5, <1>6, <1>7, <1>8, <1>9 DEF CInv

\* The attempt is started again.
LEMMA StartOverStep ==
  ASSUME CInv, NEW c \in Conns, StartOver(c)
  PROVE  CInv'
<1>1. Types'
  BY DEF CInv, Types, Labels, StartOver, Goto, addrlist, descriptors, ciptr
<1>2. Alone'
  BY DEF CInv, Types, Alone, StartOver, Goto, InCall, addrlist, descriptors,
         ciptr
<1>3. Listed'
  BY DEF CInv, Types, Listed, StartOver, Goto, InCall, addrlist, descriptors,
         ciptr
<1>4. Between'
  BY DEF CInv, Types, Between, StartOver, Goto, addrlist, descriptors, ciptr
<1>5. NoSocketLeak'
  BY DEF CInv, Types, NoSocketLeak, StartOver, Goto, addrlist, descriptors,
         ciptr
<1>6. Entry'
  BY DEF CInv, Types, Entry, Reopens, Same, StartOver, Goto, addrlist,
         descriptors, ciptr
<1>7. Has'
  BY DEF CInv, Types, Has, StartOver, Goto, addrlist, descriptors, ciptr
<1>8. Fits'
  BY DEF CInv, Types, Fits, StartOver, Goto, addrlist, descriptors, ciptr
<1>9. Passed'
  BY DEF CInv, Types, Passed, Same, StartOver, Goto, addrlist, descriptors,
         ciptr
<1>10. QED
  BY <1>1, <1>2, <1>3, <1>4, <1>5, <1>6, <1>7, <1>8, <1>9 DEF CInv

\* The list is used again.
LEMMA UseListStep ==
  ASSUME CInv, NEW c \in Conns, UseList(c)
  PROVE  CInv'
<1>1. Types'
  BY DEF CInv, Types, Labels, UseList, Enter, Goto, addrlist, descriptors,
         ciptr
<1>2. Alone'
  BY DEF CInv, Types, Alone, UseList, Enter, Goto, InCall, addrlist,
         descriptors, ciptr
<1>3. Listed'
  BY DEF CInv, Types, Listed, UseList, Enter, Goto, InCall, addrlist,
         descriptors, ciptr
<1>4. Between'
  BY DEF CInv, Types, Between, UseList, Enter, Goto, addrlist, descriptors,
         ciptr
<1>5. NoSocketLeak'
  BY DEF CInv, Types, NoSocketLeak, UseList, Enter, Goto, addrlist,
         descriptors, ciptr
<1>6. Entry'
  BY DEF CInv, Types, Entry, Reopens, Same, UseList, Enter, Goto, addrlist,
         descriptors, ciptr
<1>7. Has'
  BY DEF CInv, Types, Has, UseList, Enter, Goto, addrlist, descriptors, ciptr
<1>8. Fits'
  BY DEF CInv, Types, Fits, UseList, Enter, Goto, addrlist, descriptors, ciptr
<1>9. Passed'
  BY DEF CInv, Types, Passed, Same, UseList, Enter, Goto, addrlist,
         descriptors, ciptr
<1>10. QED
  BY <1>1, <1>2, <1>3, <1>4, <1>5, <1>6, <1>7, <1>8, <1>9 DEF CInv

\* A new list, with the cursor cleared.
LEMMA NewListStep ==
  ASSUME CInv, NEW c \in Conns, NEW list \in AddrLists, NewList(c, list)
  PROVE  CInv'
<1>1. Types'
  BY ConnectAssumption
     DEF CInv, Types, Labels, NewList, Goto, InCall, addrlist, descriptors,
         ciptr
<1>2. Alone'
  BY DEF CInv, Types, Alone, NewList, Enter, Goto, InCall, addrlist,
         descriptors, ciptr
<1>3. Listed'
  BY DEF CInv, Types, Listed, NewList, Enter, Goto, InCall, addrlist,
         descriptors, ciptr
<1>4. Between'
  BY DEF CInv, Types, Between, NewList, Enter, Goto, addrlist, descriptors,
         ciptr
<1>5. NoSocketLeak'
  BY DEF CInv, Types, NoSocketLeak, NewList, Enter, Goto, addrlist,
         descriptors, ciptr
<1>6. Entry'
  BY DEF CInv, Types, Entry, Reopens, Same, NewList, Enter, Goto, InCall,
         addrlist, descriptors, ciptr
<1>7. Has'
  BY DEF CInv, Types, Has, NewList, Enter, Goto, addrlist, descriptors, ciptr
<1>8. Fits'
  BY DEF CInv, Types, Fits, NewList, Enter, Goto, InCall, addrlist,
         descriptors, ciptr
<1>9. Passed'
  BY DEF CInv, Types, Passed, Same, NewList, Enter, Goto, addrlist,
         descriptors, ciptr
<1>10. QED
  BY <1>1, <1>2, <1>3, <1>4, <1>5, <1>6, <1>7, <1>8, <1>9 DEF CInv

\* getaddrinfo fails.
LEMMA NoListStep ==
  ASSUME CInv, NEW c \in Conns, NoList(c)
  PROVE  CInv'
<1>1. Types'
  BY ConnectAssumption
     DEF CInv, Types, Labels, NoList, Goto, InCall, addrlist, descriptors,
         ciptr
<1>2. Alone'
  BY DEF CInv, Types, Alone, NoList, Enter, Goto, InCall, addrlist,
         descriptors, ciptr
<1>3. Listed'
  BY DEF CInv, Types, Listed, NoList, Enter, Goto, InCall, addrlist,
         descriptors, ciptr
<1>4. Between'
  BY DEF CInv, Types, Between, NoList, Enter, Goto, addrlist, descriptors,
         ciptr
<1>5. NoSocketLeak'
  BY DEF CInv, Types, NoSocketLeak, NoList, Enter, Goto, addrlist,
         descriptors, ciptr
<1>6. Entry'
  BY DEF CInv, Types, Entry, Reopens, Same, NoList, Enter, Goto, addrlist,
         descriptors, ciptr
<1>7. Has'
  BY DEF CInv, Types, Has, NoList, Enter, Goto, addrlist, descriptors, ciptr
<1>8. Fits'
  BY DEF CInv, Types, Fits, NoList, Enter, Goto, addrlist, descriptors, ciptr
<1>9. Passed'
  BY DEF CInv, Types, Passed, Same, NoList, Enter, Goto, addrlist,
         descriptors, ciptr
<1>10. QED
  BY <1>1, <1>2, <1>3, <1>4, <1>5, <1>6, <1>7, <1>8, <1>9 DEF CInv

\* The walk ends.
LEMMA ScanEndStep ==
  ASSUME CInv, NEW c \in Conns, ScanEnd(c)
  PROVE  CInv'
<1>1. Types'
  BY DEF CInv, Types, Labels, ScanEnd, Goto, addrlist, descriptors, ciptr
<1>2. Alone'
  BY DEF CInv, Types, Alone, ScanEnd, Goto, InCall, addrlist, descriptors,
         ciptr
<1>3. Listed'
  BY DEF CInv, Types, Listed, ScanEnd, Goto, InCall, addrlist, descriptors,
         ciptr
<1>4. Between'
  BY DEF CInv, Types, Between, ScanEnd, Goto, addrlist, descriptors, ciptr
<1>5. NoSocketLeak'
  BY DEF CInv, Types, NoSocketLeak, ScanEnd, Goto, addrlist, descriptors,
         ciptr
<1>6. Entry'
  BY DEF CInv, Types, Entry, Reopens, Same, ScanEnd, Goto, addrlist,
         descriptors, ciptr
<1>7. Has'
  BY DEF CInv, Types, Has, ScanEnd, Goto, addrlist, descriptors, ciptr
<1>8. Fits'
  BY DEF CInv, Types, Fits, ScanEnd, Goto, addrlist, descriptors, ciptr
<1>9. Passed'
  BY DEF CInv, Types, Passed, Same, ScanEnd, Goto, addrlist, descriptors,
         ciptr
<1>10. QED
  BY <1>1, <1>2, <1>3, <1>4, <1>5, <1>6, <1>7, <1>8, <1>9 DEF CInv

\* An address is used.
LEMMA ScanUseStep ==
  ASSUME CInv, NEW c \in Conns, ScanUse(c)
  PROVE  CInv'
<1>1. Len(addrs) \in Nat /\ Len(addrs) > 0
  BY Lists
     DEF CInv, Types, Listed, InCall, ScanUse
<1>2. \A o \in Conns : o # c => ~InCall(o)
  BY DEF CInv, Alone, InCall, ScanUse
<1>3. Types'
  BY DEF CInv, Types, Labels, ScanUse, Here, Goto, addrlist, descriptors,
         ciptr
<1>4. Alone'
  BY DEF CInv, Types, Alone, ScanUse, Here, Goto, InCall, addrlist,
         descriptors, ciptr
<1>5. Listed'
  BY <1>1, <1>2
     DEF CInv, Types, Listed, AtEnd, ScanUse, Here, Goto, InCall, addrlist,
         descriptors, ciptr
<1>6. Between'
  BY DEF CInv, Types, Between, ScanUse, Here, Goto, addrlist, descriptors,
         ciptr
<1>7. NoSocketLeak'
  BY DEF CInv, Types, NoSocketLeak, ScanUse, Here, Goto, addrlist,
         descriptors, ciptr
<1>8. Entry'
  BY <1>1, <1>2
     DEF CInv, Types, Entry, Reopens, Same, ScanUse, Here, Goto, InCall,
         addrlist, descriptors, ciptr
<1>9. Has'
  BY DEF CInv, Types, Has, ScanUse, Here, Goto, addrlist, descriptors, ciptr
<1>10. Fits'
  BY <1>1, <1>2
     DEF CInv, Types, Fits, Same, Has, ScanUse, Here, Goto, InCall, addrlist,
         descriptors, ciptr
<1>11. Passed'
  BY <1>1, <1>2
     DEF CInv, Types, Passed, Wrap, AtEnd, Same, ScanUse, Here, Goto, InCall,
         addrlist, descriptors, ciptr
<1>12. QED
  BY <1>3, <1>4, <1>5, <1>6, <1>7, <1>8, <1>9, <1>10, <1>11 DEF CInv

\* An address is skipped.
LEMMA ScanSkipStep ==
  ASSUME CInv, NEW c \in Conns, ScanSkip(c)
  PROVE  CInv'
<1>1. Len(addrs) \in Nat /\ Len(addrs) > 0
  BY Lists
     DEF CInv, Types, Listed, InCall, ScanSkip
<1>2. \A o \in Conns : o # c => ~InCall(o)
  BY DEF CInv, Alone, InCall, ScanSkip
<1>3. Types'
  BY DEF CInv, Types, Labels, ScanSkip, Here, NextAddr, Goto, addrlist,
         descriptors, ciptr
<1>4. Alone'
  BY DEF CInv, Types, Alone, ScanSkip, Here, NextAddr, Goto, InCall, addrlist,
         descriptors, ciptr
<1>5. Listed'
  BY <1>1, <1>2
     DEF CInv, Types, Listed, ScanSkip, Here, NextAddr, Goto, InCall,
         addrlist, descriptors, ciptr
<1>6. Between'
  BY DEF CInv, Types, Between, ScanSkip, Here, NextAddr, Goto, addrlist,
         descriptors, ciptr
<1>7. NoSocketLeak'
  BY DEF CInv, Types, NoSocketLeak, ScanSkip, Here, NextAddr, Goto, addrlist,
         descriptors, ciptr
<1>8. Entry'
  BY <1>1, <1>2
     DEF CInv, Types, Entry, Reopens, Same, ScanSkip, Here, NextAddr, Goto,
         InCall, addrlist, descriptors, ciptr
<1>9. Has'
  BY DEF CInv, Types, Has, ScanSkip, Here, NextAddr, Goto, addrlist,
         descriptors, ciptr
<1>10. Fits'
  BY <1>1, <1>2
     DEF CInv, Types, Fits, ScanSkip, Here, NextAddr, Goto, InCall, addrlist,
         descriptors, ciptr
<1>11. Passed'
  <2> SUFFICES ASSUME NEW o \in Conns, resetonce', pc'[o] = "scan",
                      NEW k \in 1 .. Len(addrs), cur' = 0 \/ k < cur'
               PROVE  ~Same(o, k)
    BY <1>2 DEF Passed, ScanSkip, Same, ciptr, InCall
  <2>1. o = c
    BY <1>2 DEF ScanSkip, InCall
  <2>2. k <= Here
    BY <1>1 DEF CInv, Types, Listed, ScanSkip, Here, NextAddr
  <2>3. CASE k = Here
    BY <2>1, <2>3 DEF ScanSkip
  <2>4. CASE k < Here
    <3>1. cur # 0 /\ k < cur
      BY <2>4 DEF Here
    <3>2. resetonce
      BY <3>1 DEF ScanSkip, Wrap
    <3>. QED
      BY <3>1, <3>2, <2>1 DEF CInv, Passed, ScanSkip
  <2>. QED
    BY <2>2, <2>3, <2>4, <1>1 DEF CInv, Types, Here
<1>12. QED
  BY <1>3, <1>4, <1>5, <1>6, <1>7, <1>8, <1>9, <1>10, <1>11 DEF CInv

\* The socket is closed.
LEMMA ScanCloseStep ==
  ASSUME CInv, NEW c \in Conns, ScanClose(c)
  PROVE  CInv'
<1>1. Len(addrs) \in Nat /\ Len(addrs) > 0
  BY Lists
     DEF CInv, Types, Listed, InCall, ScanClose
<1>2. \A o \in Conns : o # c => ~InCall(o)
  BY DEF CInv, Alone, InCall, ScanClose
<1>3. Types'
  BY DEF CInv, Types, Labels, Families, ScanClose, Here, CloseFd, Goto,
         addrlist, descriptors, ciptr
<1>4. Alone'
  BY DEF CInv, Types, Alone, ScanClose, Here, CloseFd, Goto, InCall, addrlist,
         descriptors, ciptr
<1>5. Listed'
  BY <1>1, <1>2
     DEF CInv, Types, Listed, ScanClose, Here, CloseFd, Goto, InCall,
         addrlist, descriptors, ciptr
<1>6. Between'
  BY NoneIsConn
     DEF CInv, Types, Between, NoSocketLeak, ScanClose, Here, CloseFd, Goto,
         addrlist, descriptors, ciptr
<1>7. NoSocketLeak'
  BY NoneIsConn
     DEF CInv, Types, NoSocketLeak, ScanClose, Here, CloseFd, Goto, addrlist,
         descriptors, ciptr
<1>8. Entry'
  BY <1>1, <1>2
     DEF CInv, Types, Entry, Reopens, Same, ScanClose, Here, CloseFd, Goto,
         InCall, addrlist, descriptors, ciptr
<1>9. Has'
  <2> SUFFICES ASSUME astray = {}, NEW o \in Conns,
                      pc'[o] \notin {"idle", "gaveup", "reopen"}
               PROVE  fd[o] \in Fds /\ owner'[fd[o]] = o
    BY DEF Has, ScanClose, ciptr
  <2>1. o # c /\ pc'[o] = pc[o]
    BY DEF CInv, Types, ScanClose, Goto
  <2>2. fd[o] \in Fds /\ owner[fd[o]] = o
    BY <2>1 DEF CInv, Has
  <2>3. fd[c] \in Fds /\ owner[fd[c]] = c
    BY DEF CInv, Has, ScanClose
  <2>. QED
    BY <2>1, <2>2, <2>3 DEF ScanClose, CloseFd
<1>10. Fits'
  BY <1>1, <1>2
     DEF CInv, Types, Fits, NoSocketLeak, Has, ScanClose, Here, CloseFd, Goto,
         InCall, addrlist, descriptors, ciptr
<1>11. Passed'
  <2> SUFFICES ASSUME NEW o \in Conns, resetonce', pc'[o] = "reopen",
                      NEW k \in 1 .. Len(addrs), k <= cur'
               PROVE  ~Same(o, k)
    BY <1>2 DEF CInv, Types, Passed, ScanClose, Same, ciptr, InCall, Goto
  <2>1. o = c
    BY <1>2 DEF ScanClose, InCall, Goto, CInv, Types
  <2>2. CASE k = Here
    BY <2>1, <2>2 DEF ScanClose, Reopens
  <2>3. CASE k < Here
    <3>1. cur # 0 /\ k < cur
      BY <2>3 DEF Here
    <3>2. resetonce
      BY <3>1 DEF ScanClose, Wrap
    <3>. QED
      BY <3>1, <3>2, <2>1 DEF CInv, Passed, ScanClose
  <2>. QED
    BY <2>2, <2>3, <1>1 DEF CInv, Types, Here, ScanClose
<1>12. QED
  BY <1>3, <1>4, <1>5, <1>6, <1>7, <1>8, <1>9, <1>10, <1>11 DEF CInv

\* The socket is not reopened.
LEMMA ReopenFailsStep ==
  ASSUME CInv, NEW c \in Conns, ReopenFails(c)
  PROVE  CInv'
<1>1. Len(addrs) \in Nat /\ Len(addrs) > 0
  BY Lists
     DEF CInv, Types, Listed, InCall, ReopenFails
<1>2. \A o \in Conns : o # c => ~InCall(o)
  BY DEF CInv, Alone, InCall, ReopenFails
<1>3. Types'
  BY DEF CInv, Types, Labels, ReopenFails, NextAddr, Goto, addrlist,
         descriptors, ciptr
<1>4. Alone'
  BY DEF CInv, Types, Alone, ReopenFails, NextAddr, Goto, InCall, addrlist,
         descriptors, ciptr
<1>5. Listed'
  BY <1>1, <1>2
     DEF CInv, Types, Listed, ReopenFails, NextAddr, Goto, InCall, addrlist,
         descriptors, ciptr
<1>6. Between'
  BY DEF CInv, Types, Between, ReopenFails, NextAddr, Goto, addrlist,
         descriptors, ciptr
<1>7. NoSocketLeak'
  BY DEF CInv, Types, NoSocketLeak, ReopenFails, NextAddr, Goto, addrlist,
         descriptors, ciptr
<1>8. Entry'
  BY <1>1, <1>2
     DEF CInv, Types, Entry, Reopens, Same, ReopenFails, NextAddr, Goto,
         InCall, addrlist, descriptors, ciptr
<1>9. Has'
  BY DEF CInv, Types, Has, ReopenFails, NextAddr, Goto, addrlist, descriptors,
         ciptr
<1>10. Fits'
  BY DEF CInv, Types, Fits, ReopenFails, NextAddr, Goto, addrlist,
         descriptors, ciptr
<1>11. Passed'
  BY <1>1, <1>2
     DEF CInv, Types, Passed, Listed, Same, ReopenFails, NextAddr, Goto,
         InCall, addrlist, descriptors, ciptr
<1>12. QED
  BY <1>3, <1>4, <1>5, <1>6, <1>7, <1>8, <1>9, <1>10, <1>11 DEF CInv

\* connect(2).
LEMMA ConnectStep ==
  ASSUME CInv, NEW c \in Conns, NEW outcome \in AllOutcomes,
         Connect(c, outcome)
  PROVE  CInv'
<1>1. Len(addrs) \in Nat /\ Len(addrs) > 0
  BY Lists
     DEF CInv, Types, Listed, InCall, Connect
<1>2. \A o \in Conns : o # c => ~InCall(o)
  BY DEF CInv, Alone, InCall, Connect
<1>3. pc'[c] \in {"done", "progress", "again", "failed"}
  BY DEF CInv, Types, Connect, Goto, Result, AllOutcomes, GetAddrFails
<1>4. Types'
  BY <1>1, <1>2, <1>3
     DEF CInv, Types, Labels, Connect, MoveOn, NextAddr, Goto, InCall,
         addrlist, descriptors, ciptr
<1>5. Alone'
  BY DEF CInv, Types, Alone, Connect, MoveOn, NextAddr, Goto, InCall,
         addrlist, descriptors, ciptr
<1>6. Listed'
  BY <1>1, <1>2, <1>3
     DEF CInv, Types, Listed, Connect, MoveOn, NextAddr, Goto, InCall,
         addrlist, descriptors, ciptr
<1>7. Between'
  BY <1>1, <1>2, <1>3
     DEF CInv, Types, Between, Connect, MoveOn, NextAddr, Goto, InCall,
         addrlist, descriptors, ciptr
<1>8. NoSocketLeak'
  BY <1>1, <1>2, <1>3
     DEF CInv, Types, NoSocketLeak, Connect, MoveOn, NextAddr, Goto, InCall,
         addrlist, descriptors, ciptr
<1>9. Entry'
  BY <1>1, <1>2, <1>3
     DEF CInv, Types, Entry, Reopens, Same, Connect, MoveOn, NextAddr, Goto,
         InCall, addrlist, descriptors, ciptr
<1>10. Has'
  BY DEF CInv, Types, Has, Connect, MoveOn, NextAddr, Goto, addrlist,
         descriptors, ciptr
<1>11. Fits'
  BY <1>1, <1>2, <1>3
     DEF CInv, Types, Fits, Connect, MoveOn, NextAddr, Goto, InCall, addrlist,
         descriptors, ciptr
<1>12. Passed'
  BY <1>1, <1>2, <1>3
     DEF CInv, Types, Passed, Same, Connect, MoveOn, NextAddr, Goto, InCall,
         addrlist, descriptors, ciptr
<1>13. QED
  BY <1>4, <1>5, <1>6, <1>7, <1>8, <1>9, <1>10, <1>11, <1>12 DEF CInv

\* A connection is opened with a socket that nobody has.
LEMMA OpenStep ==
  ASSUME CInv, NEW c \in Conns, OpenCOTSClient(c)
  PROVE  CInv'
<1>1. PICK j \in OpensWith(0, TransOf[c]) :
       index' = [index EXCEPT ![c] = j] /\ NewSocket(c, j)
  BY DEF OpenCOTSClient
<1>2. PICK d \in Fds :
       /\ Lowest(d)
       /\ fd' = [fd EXCEPT ![c] = d]
       /\ owner' = [owner EXCEPT ![d] = c]
       /\ family' = [family EXCEPT ![d] = FamilyOf(j)]
  BY <1>1 DEF NewSocket
<1>3. /\ j \in 1 .. 4 /\ FamilyOf(j) \in Families
      /\ Sockettrans2devtab[j].transname = TransOf[c]
  BY <1>1, Table DEF OpensWith, SelectFamily, Families
<1>4. \A e \in Fds : owner[e] # c
  BY DEF CInv, NoSocketLeak, OpenCOTSClient
<1>5. owner[d] = NoOne
  BY <1>2 DEF Lowest, Free
<1>6. Types'
  BY <1>1, <1>2, <1>3, <1>4, <1>5
     DEF CInv, Types, Labels, OpenCOTSClient, Goto, InCall, addrlist,
         descriptors, ciptr
<1>7. Alone'
  BY DEF CInv, Types, Alone, OpenCOTSClient, Goto, InCall, addrlist,
         descriptors, ciptr
<1>8. Listed'
  BY DEF CInv, Types, Listed, OpenCOTSClient, Goto, InCall, addrlist,
         descriptors, ciptr
<1>9. Between'
  BY <1>1, <1>2, <1>3, <1>4, <1>5
     DEF CInv, Types, Between, OpenCOTSClient, Goto, InCall, addrlist,
         descriptors, ciptr
<1>10. NoSocketLeak'
  BY <1>1, <1>2, <1>3, <1>4, <1>5
     DEF CInv, Types, NoSocketLeak, OpenCOTSClient, Goto, InCall, addrlist,
         descriptors, ciptr
<1>11. Entry'
  BY <1>1, <1>2, <1>3, <1>4, <1>5
     DEF CInv, Types, Entry, Reopens, Same, OpenCOTSClient, Goto, InCall,
         addrlist, descriptors, ciptr
<1>12. Has'
  BY <1>1, <1>2, <1>3, <1>4, <1>5, NoneIsConn
     DEF CInv, Types, Has, OpenCOTSClient, Goto, InCall, addrlist,
         descriptors, ciptr
<1>13. Fits'
  BY <1>1, <1>2, <1>3, <1>4, <1>5, NoneIsConn
     DEF CInv, Types, Fits, Has, OpenCOTSClient, Goto, InCall, addrlist,
         descriptors, ciptr
<1>14. Passed'
  BY DEF CInv, Types, Passed, Same, OpenCOTSClient, Goto, addrlist,
         descriptors, ciptr
<1>15. QED
  BY <1>6, <1>7, <1>8, <1>9, <1>10, <1>11, <1>12, <1>13, <1>14 DEF CInv

\* The socket is replaced, by one nobody has.
LEMMA ReopenStep ==
  ASSUME CInv, NEW c \in Conns, Reopen(c)
  PROVE  CInv'
<1>1. Len(addrs) \in Nat /\ Len(addrs) > 0
  BY Lists
     DEF CInv, Types, Listed, InCall, Reopen
<1>2. \A o \in Conns : o # c => ~InCall(o)
  BY DEF CInv, Alone, InCall, Reopen
<1>3. PICK j \in OpensWith(ReopenFrom(c), "tcp") :
       /\ NewSocket(c, j)
       /\ IF FamilyOf(j) = addrs[cur]
            THEN Goto(c, "connect") /\ UNCHANGED cur
            ELSE Goto(c, "scan") /\ cur' = NextAddr(cur)
  BY DEF Reopen
<1>4. PICK d \in Fds :
       /\ Lowest(d)
       /\ fd' = [fd EXCEPT ![c] = d]
       /\ owner' = [owner EXCEPT ![d] = c]
       /\ family' = [family EXCEPT ![d] = FamilyOf(j)]
  BY <1>3 DEF NewSocket
<1>5. /\ j \in 1 .. 4 /\ FamilyOf(j) \in Families
      /\ Sockettrans2devtab[j].transname = "tcp"
      /\ j > ReopenFrom(c)
  BY <1>3, Table DEF OpensWith, SelectFamily, Families
<1>6. \A e \in Fds : owner[e] # c
  BY DEF CInv, Between, Reopen
<1>7. owner[d] = NoOne
  BY <1>4 DEF Lowest, Free
<1>8. FamilyOf(j) = addrs[cur] \/ FamilyOf(j) = FamilyOf(index[c])
  BY <1>5, Table DEF CInv, Types, Entry, Reopen, Reopens, Same, ReopenFrom
<1>9. Types'
  <2>1. cur' \in Nat
    BY <1>1, <1>3 DEF CInv, Types, NextAddr
  <2>2. pc' \in [Conns -> Labels]
    BY <1>3 DEF CInv, Types, Goto, Labels
  <2>3. fd' \in [Conns -> Fds \union {NoFd}]
    BY <1>4 DEF CInv, Types
  <2>4. owner' \in [Fds -> Conns \union {NoOne, Program}]
    BY <1>4 DEF CInv, Types
  <2>5. family' \in [Fds -> Families]
    BY <1>4, <1>5 DEF CInv, Types
  <2>. QED
    BY <2>1, <2>2, <2>3, <2>4, <2>5 DEF CInv, Types, Reopen
<1>10. Alone'
  BY DEF CInv, Types, Alone, Reopen, NextAddr, Goto, InCall, addrlist,
         descriptors, ciptr
<1>11. Listed'
  BY <1>1, <1>2, <1>3, <1>4, <1>5, <1>6, <1>7, <1>8
     DEF CInv, Types, Listed, Reopen, NextAddr, Goto, InCall, addrlist,
         descriptors, ciptr
<1>12. Between'
  BY <1>1, <1>2, <1>3, <1>4, <1>5, <1>6, <1>7, <1>8
     DEF CInv, Types, Between, Reopen, NextAddr, Goto, InCall, addrlist,
         descriptors, ciptr
<1>13. NoSocketLeak'
  BY <1>1, <1>2, <1>3, <1>4, <1>5, <1>6, <1>7, <1>8
     DEF CInv, Types, NoSocketLeak, Reopen, NextAddr, Goto, InCall, addrlist,
         descriptors, ciptr
<1>14. Entry'
  BY <1>1, <1>2, <1>3, <1>4, <1>5, <1>6, <1>7, <1>8
     DEF CInv, Types, Entry, Reopens, Same, Reopen, NextAddr, Goto, InCall,
         addrlist, descriptors, ciptr
<1>15. Has'
  BY <1>1, <1>2, <1>3, <1>4, <1>5, <1>6, <1>7, <1>8, NoneIsConn
     DEF CInv, Types, Has, Reopen, NextAddr, Goto, InCall, addrlist,
         descriptors, ciptr
<1>16. Fits'
  BY <1>1, <1>2, <1>3, <1>4, <1>5, <1>6, <1>7, <1>8, NoneIsConn
     DEF CInv, Types, Fits, Has, Reopen, NextAddr, Goto, InCall, addrlist,
         descriptors, ciptr
<1>17. Passed'
  <2> SUFFICES ASSUME NEW o \in Conns, resetonce', pc'[o] = "scan",
                      NEW k \in 1 .. Len(addrs), cur' = 0 \/ k < cur'
               PROVE  ~Same(o, k)
    BY <1>2, <1>3 DEF CInv, Types, Passed, Reopen, Same, InCall, Goto
  <2>1. o = c
    BY <1>2, <1>3 DEF InCall, Goto, CInv, Types
  <2>2. cur' = NextAddr(cur)
    BY <1>3, <2>1 DEF Goto, CInv, Types
  <2>3. k <= cur
    BY <1>1, <2>2 DEF CInv, Types, Listed, Reopen, NextAddr
  <2>. QED
    BY <2>1, <2>3 DEF CInv, Passed, Reopen
<1>18. QED
  BY <1>9, <1>10, <1>11, <1>12, <1>13, <1>14, <1>15, <1>16, <1>17 DEF CInv

\* A connection is closed.
LEMMA CloseStep ==
  ASSUME CInv, NEW c \in Conns, Close(c)
  PROVE  CInv'
<1>1. Types'
  BY DEF CInv, Types, Labels, Families, Close, CloseFd, Goto, addrlist,
         descriptors, ciptr
<1>2. Alone'
  BY DEF CInv, Types, Alone, Close, CloseFd, Goto, InCall, addrlist,
         descriptors, ciptr
<1>3. Listed'
  BY DEF CInv, Types, Listed, Close, CloseFd, Goto, InCall, addrlist,
         descriptors, ciptr
<1>4. Between'
  BY NoneIsConn
     DEF CInv, Types, Between, Close, CloseFd, Goto, addrlist, descriptors,
         ciptr
<1>5. NoSocketLeak'
  BY NoneIsConn
     DEF CInv, Types, NoSocketLeak, Close, CloseFd, Goto, addrlist,
         descriptors, ciptr
<1>6. Entry'
  BY DEF CInv, Types, Entry, Reopens, Same, Close, CloseFd, Goto, addrlist,
         descriptors, ciptr
<1>7. Has'
  BY DEF CInv, Types, Has, NoSocketLeak, Close, CloseFd, Goto, addrlist,
         descriptors, ciptr
<1>8. Fits'
  <2> SUFFICES ASSUME astray = {}, NEW o \in Conns,
                      pc'[o] \in {"opened", "scan", "connect"}
               PROVE  /\ pc[o] = pc'[o]
                      /\ fd'[o] = fd[o] /\ index'[o] = index[o]
                      /\ family'[fd[o]] = family[fd[o]]
    BY DEF CInv, Types, Fits, Close, addrlist
  <2>1. o # c /\ pc[o] = pc'[o] /\ fd'[o] = fd[o] /\ index'[o] = index[o]
    BY DEF CInv, Types, Close, Goto
  <2>2. fd[o] \in Fds /\ owner[fd[o]] = o
    BY <2>1 DEF CInv, Has
  <2>3. fd[c] \in Fds /\ owner[fd[c]] = c
    BY DEF CInv, Has, Close
  <2>. QED
    BY <2>1, <2>2, <2>3 DEF Close, CloseFd
<1>9. Passed'
  BY DEF CInv, Types, Passed, Same, Close, CloseFd, Goto, addrlist,
         descriptors, ciptr
<1>10. QED
  BY <1>1, <1>2, <1>3, <1>4, <1>5, <1>6, <1>7, <1>8, <1>9 DEF CInv

\* The program opens a file.
LEMMA ProgramOpensStep ==
  ASSUME CInv, NEW d \in Fds, ProgramOpens(d)
  PROVE  CInv'
<1>1. Types'
  BY DEF CInv, Types, Labels, Families, ProgramOpens, Lowest, Free, Goto,
         addrlist, descriptors, ciptr
<1>2. Alone'
  BY DEF CInv, Types, Alone, ProgramOpens, Lowest, Free, Goto, InCall,
         addrlist, descriptors, ciptr
<1>3. Listed'
  BY DEF CInv, Types, Listed, ProgramOpens, Lowest, Free, Goto, InCall,
         addrlist, descriptors, ciptr
<1>4. Between'
  BY NoneIsConn
     DEF CInv, Types, Between, ProgramOpens, Lowest, Free, Goto, addrlist,
         descriptors, ciptr
<1>5. NoSocketLeak'
  BY NoneIsConn
     DEF CInv, Types, NoSocketLeak, ProgramOpens, Lowest, Free, Goto,
         addrlist, descriptors, ciptr
<1>6. Entry'
  BY DEF CInv, Types, Entry, Reopens, Same, ProgramOpens, Lowest, Free, Goto,
         addrlist, descriptors, ciptr
<1>7. Has'
  BY NoneIsConn
     DEF CInv, Types, Has, ProgramOpens, Lowest, Free, Goto, addrlist,
         descriptors, ciptr
<1>8. Fits'
  BY NoneIsConn
     DEF CInv, Types, Fits, Has, ProgramOpens, Lowest, Free, Goto, addrlist,
         descriptors, ciptr
<1>9. Passed'
  BY DEF CInv, Types, Passed, Same, ProgramOpens, Lowest, Free, Goto,
         addrlist, descriptors, ciptr
<1>10. QED
  BY <1>1, <1>2, <1>3, <1>4, <1>5, <1>6, <1>7, <1>8, <1>9 DEF CInv

\* The program closes a file.
LEMMA ProgramClosesStep ==
  ASSUME CInv, NEW d \in Fds, ProgramCloses(d)
  PROVE  CInv'
<1>1. Types'
  BY DEF CInv, Types, Labels, ProgramCloses, Goto, addrlist, descriptors,
         ciptr
<1>2. Alone'
  BY DEF CInv, Types, Alone, ProgramCloses, Goto, InCall, addrlist,
         descriptors, ciptr
<1>3. Listed'
  BY DEF CInv, Types, Listed, ProgramCloses, Goto, InCall, addrlist,
         descriptors, ciptr
<1>4. Between'
  BY NoneIsConn
     DEF CInv, Types, Between, ProgramCloses, Goto, addrlist, descriptors,
         ciptr
<1>5. NoSocketLeak'
  BY NoneIsConn
     DEF CInv, Types, NoSocketLeak, ProgramCloses, Goto, addrlist,
         descriptors, ciptr
<1>6. Entry'
  BY DEF CInv, Types, Entry, Reopens, Same, ProgramCloses, Goto, addrlist,
         descriptors, ciptr
<1>7. Has'
  BY NoneIsConn
     DEF CInv, Types, Has, ProgramCloses, Goto, addrlist, descriptors, ciptr
<1>8. Fits'
  BY DEF CInv, Types, Fits, Has, ProgramCloses, Goto, addrlist, descriptors,
         ciptr
<1>9. Passed'
  BY DEF CInv, Types, Passed, Same, ProgramCloses, Goto, addrlist,
         descriptors, ciptr
<1>10. QED
  BY <1>1, <1>2, <1>3, <1>4, <1>5, <1>6, <1>7, <1>8, <1>9 DEF CInv

-----------------------------------------------------------------------------
(* The theorems.                                                           *)

\* The invariant holds in the initial states.
LEMMA InitCInv == Init => CInv
<1> SUFFICES ASSUME Init PROVE CInv
  OBVIOUS
<1>1. Types
  BY ConnectAssumption DEF Init, Types, Labels, Families
<1>2. Alone /\ Between /\ Entry /\ Has /\ Fits /\ Passed
  BY DEF Init, Alone, InCall, Between, Entry, Has, Fits, Passed
<1>3. Listed
  BY DEF Init, Listed, InCall
<1>4. NoSocketLeak
  BY NoneIsConn DEF Init, NoSocketLeak
<1>5. QED
  BY <1>1, <1>2, <1>3, <1>4 DEF CInv

\* Every step keeps it.
LEMMA NextCInv == CInv /\ [Next]_vars => CInv'
<1> SUFFICES ASSUME CInv, [Next]_vars PROVE CInv'
  OBVIOUS
<1>1. CASE UNCHANGED vars
  <2>1. Types' /\ Alone' /\ Between' /\ NoSocketLeak'
    BY <1>1 DEF CInv, vars, ciptr, descriptors, addrlist, Types, Alone,
                InCall, Between, NoSocketLeak
  <2>2. Listed' /\ Has' /\ Fits'
    BY <1>1 DEF CInv, vars, ciptr, descriptors, addrlist, Listed, Has, Fits,
                InCall
  <2>3. Entry' /\ Passed'
    BY <1>1 DEF CInv, vars, ciptr, addrlist, Entry, Passed, Reopens, Same
  <2>. QED
    BY <2>1, <2>2, <2>3 DEF CInv
<1>2. ASSUME NEW c \in Conns, Walk(c) PROVE CInv'
  BY <1>2, ScanEndStep, ScanUseStep, ScanSkipStep, ScanCloseStep, ReopenStep,
     ReopenFailsStep, ConnectStep DEF Walk
<1>3. ASSUME NEW c \in Conns,
             OpenCOTSClient(c) \/ OpenNull(c) \/ Close(c) \/ UseList(c)
               \/ NoList(c) \/ StartOver(c)
      PROVE  CInv'
  BY <1>3, OpenStep, OpenNullStep, CloseStep, UseListStep, NoListStep,
     StartOverStep
<1>4. ASSUME NEW c \in Conns, NEW list \in AddrLists, NewList(c, list)
      PROVE  CInv'
  BY <1>4, NewListStep
<1>5. ASSUME NEW d \in Fds, ProgramOpens(d) \/ ProgramCloses(d) PROVE CInv'
  BY <1>5, ProgramOpensStep, ProgramClosesStep
<1>6. QED
  BY <1>1, <1>2, <1>3, <1>4, <1>5 DEF Next

\* The invariant the properties follow from holds in every reachable state.
THEOREM CInvHolds == Spec => []CInv
  BY InitCInv, NextCInv, PTL DEF Spec

\* SocketINETConnect calls connect(2) with an address of the list and, as long
\* as sockets can be reopened, on its own socket and in that socket's family.
THEOREM ConnectMatchesHolds == Spec => []ConnectMatches
<1>1. CInv => ConnectMatches
  <2> SUFFICES ASSUME CInv, NEW c \in Conns, pc[c] = "connect"
               PROVE  /\ cur \in 1 .. Len(addrs)
                      /\ astray = {} => /\ fd[c] \in Fds /\ owner[fd[c]] = c
                                        /\ family[fd[c]] = addrs[cur]
    BY DEF ConnectMatches
  <2>1. cur \in 1 .. Len(addrs)
    BY Lists DEF CInv, Types, Listed, InCall
  <2>2. ASSUME astray = {}
        PROVE  fd[c] \in Fds /\ owner[fd[c]] = c /\ family[fd[c]] = addrs[cur]
    BY <2>2 DEF CInv, Has, Fits
  <2>. QED
    BY <2>1, <2>2
<1>2. QED
  BY <1>1, CInvHolds, PTL

\* A socket that SocketINETConnect or SocketOpenCOTSClientBase has opened is
\* in a ciptr until TRANS(Close), whichever sockets were replaced before.
THEOREM NoSocketLeakHolds == Spec => []NoSocketLeak
<1>1. CInv => NoSocketLeak
  BY DEF CInv
<1>2. QED
  BY <1>1, CInvHolds, PTL

\* Outside the case of a socket that could not be reopened, the library does
\* not close or take over a descriptor of the rest of the program.
THEOREM OwnDescriptorsHolds == Spec => OwnDescriptors
<1> DEFINE Keeps ==
      \A d \in Fds : owner[d] = Program /\ owner'[d] # Program =>
        ProgramCloses(d) \/ astray # {}
<1>1. CInv /\ [Next]_vars => [Keeps]_vars
  <2> SUFFICES ASSUME CInv, Next, NEW d \in Fds, owner[d] = Program,
                      owner'[d] # Program, astray = {}
               PROVE  ProgramCloses(d)
    OBVIOUS
  <2>1. owner \in [Fds -> Conns \union {NoOne, Program}]
    BY DEF CInv, Types
  <2>2. ASSUME NEW c \in Conns, CloseFd(c),
               pc[c] \notin {"idle", "gaveup", "reopen"}
        PROVE  FALSE
    BY <2>2, <2>1, NoneIsConn DEF CInv, Has, CloseFd
  <2>3. ASSUME NEW c \in Conns, NEW j, NewSocket(c, j) PROVE FALSE
    BY <2>3, <2>1, Kinds DEF NewSocket, Lowest, Free
  <2>4. ASSUME NEW c \in Conns, Walk(c) PROVE FALSE
    BY <2>4, <2>2, <2>3
       DEF Walk, ScanEnd, ScanUse, ScanSkip, ScanClose, Reopen, ReopenFails,
           Connect, descriptors
  <2>5. ASSUME NEW c \in Conns,
               OpenCOTSClient(c) \/ OpenNull(c) \/ Close(c) \/ UseList(c)
                 \/ NoList(c) \/ StartOver(c)
        PROVE  FALSE
    BY <2>5, <2>2, <2>3 DEF OpenCOTSClient, OpenNull, Close, UseList, NoList,
                            StartOver, descriptors
  <2>6. ASSUME NEW c \in Conns, NEW list \in AddrLists, NewList(c, list)
        PROVE  FALSE
    BY <2>6 DEF NewList, descriptors
  <2>7. ASSUME NEW e \in Fds, ProgramOpens(e) PROVE FALSE
    BY <2>7, <2>1, Kinds DEF ProgramOpens, Lowest, Free
  <2>8. ASSUME NEW e \in Fds, ProgramCloses(e) PROVE ProgramCloses(d)
    BY <2>8, <2>1 DEF ProgramCloses
  <2>. QED
    BY <2>4, <2>5, <2>6, <2>7, <2>8 DEF Next
<1>2. QED
  BY <1>1, CInvHolds, PTL DEF Spec, OwnDescriptors

\* The walk over addrlist gives up only when no address of the list has the
\* family of the socket, wherever in the list it began.
THEOREM WholeListSeenHolds == Spec => WholeListSeen
<1> DEFINE Seen ==
      \A c \in Conns : ScanEnd(c) => \A k \in 1 .. Len(addrs) : ~Same(c, k)
<1>1. CInv => Seen
  BY DEF CInv, Passed, ScanEnd, AtEnd
<1>2. CInv /\ [Next]_vars => [Seen]_vars
  BY <1>1
<1>3. QED
  BY <1>2, CInvHolds, PTL DEF Spec, WholeListSeen
-----------------------------------------------------------------------------
(* Retries.  A program with one connection finds the list as it left it;   *)
(* with two, each moves the other's cursor or replaces its list.           *)

\* The families a transport can use.
Uses(c) ==
  CASE TransOf[c] = "tcp" -> {"in", "in6"}
    [] TransOf[c] = "inet" -> {"in"}
    [] TransOf[c] = "inet6" -> {"in6"}

\* The addresses of such a family, whatever socket there is.
Worth(c) == {k \in 1 .. Len(addrs) : addrs[k] \in Uses(c)}

\* How soon the walk comes to address k: from the cursor to the end of the
\* list, then from its beginning.
RankOf(h, n, k) == IF k >= h THEN k ELSE k + n
Rank(k) == RankOf(Here, Len(addrs), k)

\* The list is the connection's, and nothing is tried before there is one.
Own ==
  /\ tried \in [Conns -> SUBSET Nat]
  /\ \A c \in Conns :
       /\ listed => host = HostOf[c]
       /\ ~listed => tried[c] = {}
       /\ InCall(c) => listed

\* What was tried comes last.
InTurn(c) ==
  \A j, k \in Worth(c) :
    k \in tried[c] /\ Rank(k) <= Rank(j) => j \in tried[c]

\* connect(2) is called for an address worth it, and each has its turn.
Turns ==
  astray = {} =>
    \A c \in Conns :
      /\ pc[c] = "connect" => cur \in Worth(c)
      /\ InTurn(c)

RInv == CInv /\ Own /\ Turns

\* There is one connection, and socket(2) fails for IPv6 only for lack of a
\* descriptor.  (Where it may fail for IPv4 the socket is then not reopened.)
Undisturbed ==
  /\ \A c, d \in Conns : c = d
  /\ "in6" \notin MayFail

\* When the cursor moves on, the address it leaves becomes the last one.
LEMMA MoveRank ==
  ASSUME NEW n \in Nat, NEW h \in 1 .. n, NEW g,
         g = IF h < n THEN h + 1 ELSE 1,
         NEW j \in 1 .. n, NEW k \in 1 .. n,
         RankOf(g, n, k) <= RankOf(g, n, j)
  PROVE  j = h \/ (k # h /\ RankOf(h, n, k) <= RankOf(h, n, j))
  BY DEF RankOf

\* The addresses a connection can try do not depend on the socket it has.
LEMMA UsableIs ==
  ASSUME CInv, NEW c \in Conns, pc[c] \notin {"idle", "gaveup"},
         NEW k \in 1 .. Len(addrs)
  PROVE  (Same(c, k) \/ Reopens(c, k)) <=> addrs[k] \in Uses(c)
<1>1. TransOf[c] \in {"tcp", "inet", "inet6"}
  BY ConnectAssumption
<1>2. index[c] \in {1, 2, 3, 4}
  BY DEF CInv, Types
<1>3. Sockettrans2devtab[index[c]].transname = TransOf[c]
  BY DEF CInv, Entry
<1>4. \/ index[c] = 1 /\ TransOf[c] = "inet" /\ FamilyOf(index[c]) = "in"
      \/ index[c] = 2 /\ TransOf[c] = "tcp" /\ FamilyOf(index[c]) = "in6"
      \/ index[c] = 3 /\ TransOf[c] = "tcp" /\ FamilyOf(index[c]) = "in"
      \/ index[c] = 4 /\ TransOf[c] = "inet6" /\ FamilyOf(index[c]) = "in6"
  BY <1>1, <1>2, <1>3, Table
<1>5. QED
  BY <1>4 DEF Same, Reopens, Uses

\* A step that leaves the list, its cursor and what was tried alone, or forgets
\* what was tried.
LEMMA SameTurn ==
  ASSUME Undisturbed, RInv, NEW c \in Conns, UNCHANGED <<addrs, cur>>,
         tried' = tried \/ tried'[c] = {}
  PROVE  astray = {} => \A d \in Conns : InTurn(d)'
<1> SUFFICES ASSUME astray = {} PROVE InTurn(c)'
  BY DEF Undisturbed
<1>1. InTurn(c)
  BY DEF RInv, Turns
<1>2. QED
  BY <1>1 DEF InTurn, Worth, Uses, Rank, RankOf, Here

\* A step that moves the cursor on from an address that is of no use or is
\* among those tried now.
LEMMA MoveTurn ==
  ASSUME Undisturbed, RInv, NEW c \in Conns, addrs \in AddrLists,
         addrs' = addrs, cur' = NextAddr(Here),
         tried[c] \subseteq tried'[c],
         tried'[c] \subseteq tried[c] \union {Here},
         Here \in Worth(c) => Here \in tried'[c]
  PROVE  astray = {} => \A d \in Conns : InTurn(d)'
<1> SUFFICES ASSUME astray = {} PROVE InTurn(c)'
  BY DEF Undisturbed
<1> DEFINE n == Len(addrs)
           h == Here
           g == IF h < n THEN h + 1 ELSE 1
<1>1. n \in Nat /\ n > 0 /\ cur \in Nat /\ cur <= n
  BY Lists DEF RInv, CInv, Types, Listed
<1>2. h \in 1 .. n
  BY <1>1 DEF Here
<1>3. Here' = g
  BY <1>1, <1>2 DEF Here, NextAddr
<1>4. InTurn(c)
  BY DEF RInv, Turns
<1>5. Worth(c)' = Worth(c) /\ Worth(c) \subseteq 1 .. n
  BY DEF Worth, Uses
<1>6. \A k : Rank(k)' = RankOf(g, n, k)
  BY <1>3 DEF Rank, RankOf
<1> SUFFICES ASSUME NEW j \in Worth(c), NEW k \in Worth(c), k \in tried'[c],
                    RankOf(g, n, k) <= RankOf(g, n, j)
             PROVE  j \in tried'[c]
  BY <1>5, <1>6 DEF InTurn
<1>7. j = h \/ (k # h /\ RankOf(h, n, k) <= RankOf(h, n, j))
  <2> HIDE DEF n, h
  <2>1. QED
    BY <1>1, <1>2, <1>5, MoveRank
<1>8. QED
  BY <1>4, <1>7 DEF InTurn, Rank

\* The walk itself.
LEMMA WalkTurns ==
  ASSUME Undisturbed, RInv, NEW c \in Conns, Walk(c), CInv'
  PROVE  Own' /\ Turns'
<1>1. /\ CInv /\ Own /\ Turns
      /\ pc \in [Conns -> Labels] /\ tried \in [Conns -> SUBSET Nat]
      /\ cur \in Nat /\ astray \in SUBSET Conns /\ addrs \in AddrLists
      /\ listed
      /\ \A d \in Conns : d = c
  <2>1. InCall(c)
    BY DEF Walk, InCall, ScanEnd, ScanUse, ScanSkip, ScanClose, Reopen,
           ReopenFails, Connect
  <2>2. QED
    BY <2>1 DEF RInv, CInv, Types, Listed, Own, Undisturbed
<1>2. CASE ScanEnd(c)
  <2>1. Own'
    BY <1>1, <1>2 DEF Own, ScanEnd, Goto, InCall, addrlist
  <2>2. (astray = {} => \A d \in Conns : InTurn(d)')
    BY <1>2, SameTurn DEF ScanEnd, addrlist
  <2>3. QED
    BY <1>1, <1>2, <2>1, <2>2 DEF Turns, ScanEnd, Goto, addrlist
<1>3. Here \in 1 .. Len(addrs)
  BY <1>1, Lists DEF CInv, Listed, Here
<1>4. CASE ScanUse(c) \/ ScanClose(c)
  <2>1. Own'
    BY <1>1, <1>4 DEF Own, ScanUse, ScanClose, Goto, InCall
  <2>2. pc'[c] = "connect" => cur' \in Worth(c)'
    <3>1. pc'[c] = "connect" => ScanUse(c)
      BY <1>1, <1>4 DEF ScanClose, Goto
    <3>2. ScanUse(c) => addrs[Here] \in Uses(c)
      BY <1>1, <1>3, UsableIs DEF ScanUse
    <3>3. cur' = Here /\ addrs' = addrs
      BY <1>4 DEF ScanUse, ScanClose
    <3>4. QED
      BY <1>3, <3>1, <3>2, <3>3 DEF Worth, Uses
  <2>3. astray = {} => InTurn(c)'
    <3>1. Here' = Here /\ addrs' = addrs /\ tried' = tried
      BY <1>1, <1>3, <1>4 DEF ScanUse, ScanClose, Here
    <3>2. astray = {} => InTurn(c)
      BY <1>1 DEF Turns
    <3>3. QED
      BY <3>1, <3>2 DEF InTurn, Worth, Uses, Rank, RankOf
  <2>4. QED
    BY <1>1, <1>4, <2>1, <2>2, <2>3 DEF Turns, ScanUse, ScanClose
<1>5. CASE ScanSkip(c)
  <2>1. Own'
    BY <1>1, <1>5 DEF Own, ScanSkip, InCall
  <2>2. Here \notin Worth(c)
    BY <1>1, <1>3, <1>5, UsableIs DEF ScanSkip, Worth
  <2>3. astray = {} => \A d \in Conns : InTurn(d)'
    BY <1>1, <1>5, <2>2, MoveTurn DEF ScanSkip
  <2>4. QED
    BY <1>1, <1>5, <2>1, <2>3 DEF Turns, ScanSkip
<1>6. CASE Reopen(c)
  <2>1. PICK j \in OpensWith(ReopenFrom(c), "tcp") :
          /\ NewSocket(c, j)
          /\ IF FamilyOf(j) = addrs[cur]
               THEN Goto(c, "connect") /\ UNCHANGED cur
               ELSE Goto(c, "scan") /\ cur' = NextAddr(cur)
    BY <1>6 DEF Reopen
  <2>2. cur \in 1 .. Len(addrs) /\ Reopens(c, cur)
    BY <1>1, <1>6, Lists DEF CInv, Listed, Entry, Reopen
  <2>3. FamilyOf(j) = addrs[cur]
    <3>1. Free # {}
      BY <2>1 DEF OpensWith
    <3>2. ~SocketFails(2)
      BY <3>1, Table DEF SocketFails, Undisturbed
    <3>3. index[c] \in 1 .. 4
      BY <1>1 DEF CInv, Types
    <3>4. /\ Sockettrans2devtab[index[c]].transname = TransOf[c]
          /\ TransOf[c] = "tcp" /\ addrs[cur] # FamilyOf(index[c])
          /\ addrs[cur] \in {"in", "in6"}
      BY <1>1, <1>6, <2>2 DEF CInv, Entry, Reopens, Same, Reopen
    <3>5. /\ j \in 1 .. 4 /\ j > ReopenFrom(c)
          /\ Sockettrans2devtab[j].transname = "tcp"
          /\ \A k \in SelectFamily(ReopenFrom(c), "tcp") :
               k < j => SocketFails(k)
      BY <2>1, Table DEF OpensWith, SelectFamily
    <3>6. CASE addrs[cur] = "in"
      <4>1. index[c] = 2
        BY <3>3, <3>4, <3>6, Table
      <4>2. j = 3
        BY <3>5, <3>6, <4>1, Table DEF ReopenFrom
      <4>3. QED
        BY <3>6, <4>2, Table
    <3>7. CASE addrs[cur] = "in6"
      <4>1. 2 \in SelectFamily(ReopenFrom(c), "tcp")
        BY <3>7, Table DEF SelectFamily, ReopenFrom
      <4>2. j = 2
        BY <3>2, <3>5, <4>1, Table
      <4>3. QED
        BY <3>7, <4>2, Table
    <3>8. QED
      BY <3>4, <3>6, <3>7
  <2>4. Goto(c, "connect") /\ UNCHANGED cur
    BY <2>1, <2>3
  <2>5. Own'
    BY <1>1, <1>6, <2>4 DEF Own, Reopen, Goto, InCall
  <2>6. cur' \in Worth(c)'
    <3>1. addrs[cur] \in Uses(c)
      BY <1>1, <1>6, <2>2, UsableIs DEF Reopen
    <3>2. addrs' = addrs
      BY <1>6 DEF Reopen
    <3>3. QED
      BY <2>2, <2>4, <3>1, <3>2 DEF Worth, Uses
  <2>7. astray = {} => \A d \in Conns : InTurn(d)'
    BY <1>6, <2>4, SameTurn DEF Reopen
  <2>8. QED
    BY <1>1, <1>6, <2>5, <2>6, <2>7 DEF Turns, Reopen
<1>7. CASE ReopenFails(c)
  <2>1. Own'
    BY <1>1, <1>7 DEF Own, ReopenFails, Goto, InCall
  <2>2. astray' # {}
    BY <1>7 DEF ReopenFails
  <2>3. QED
    BY <2>1, <2>2 DEF Turns
<1>8. ASSUME NEW o \in AllOutcomes, Connect(c, o) PROVE Own' /\ Turns'
  <2>1. cur \in 1 .. Len(addrs) /\ Here = cur
    BY <1>1, <1>8, Lists DEF CInv, Listed, Connect, Here
  <2>2. tried'[c] = IF o = "ok" THEN {} ELSE tried[c] \union {cur}
    BY <1>1, <1>8 DEF Connect
  <2>3. tried' \in [Conns -> SUBSET Nat]
    BY <1>1, <1>8 DEF Connect
  <2>4. Own'
    BY <1>1, <1>8, <2>3 DEF Own, Connect
  <2>5. pc'[c] # "connect"
    <3>1. Result(o) # "connect"
      BY <1>8 DEF Result, AllOutcomes, GetAddrFails
    <3>2. QED
      BY <1>1, <1>8, <3>1 DEF Connect, Goto
  <2>6. astray = {} => \A d \in Conns : InTurn(d)'
    <3>1. CASE o = "ok"
      BY <1>8, <2>2, <3>1, SameTurn DEF Connect, MoveOn
    <3>2. CASE o # "ok"
      <4>1. cur' = NextAddr(Here) /\ addrs' = addrs
        BY <1>8, <2>1, <3>2 DEF Connect, MoveOn
      <4>2. tried'[c] = tried[c] \union {Here}
        BY <2>1, <2>2, <3>2
      <4>3. QED
        BY <1>1, <4>1, <4>2, MoveTurn
    <3>3. QED
      BY <3>1, <3>2
  <2>7. QED
    BY <1>1, <1>8, <2>4, <2>5, <2>6 DEF Turns, Connect
<1>9. QED
  BY <1>2, <1>4, <1>5, <1>6, <1>7, <1>8 DEF Walk

\* Opening, closing, and entering Connect.
LEMMA CallTurns ==
  ASSUME Undisturbed, RInv, NEW c \in Conns,
         \/ OpenCOTSClient(c) \/ OpenNull(c) \/ Close(c) \/ UseList(c)
         \/ NoList(c) \/ StartOver(c)
         \/ \E list \in AddrLists : NewList(c, list)
  PROVE  Own' /\ Turns'
<1>1. /\ Own /\ Turns
      /\ pc \in [Conns -> Labels] /\ tried \in [Conns -> SUBSET Nat]
      /\ \A d \in Conns : d = c
  BY DEF RInv, CInv, Types, Own, Undisturbed
<1>2. pc'[c] # "connect" /\ astray' = astray
  BY <1>1 DEF OpenCOTSClient, OpenNull, Close, UseList, NoList, StartOver,
              NewList, Goto, addrlist
<1>3. CASE OpenCOTSClient(c) \/ OpenNull(c) \/ Close(c) \/ UseList(c)
  <2>1. Own'
    BY <1>1, <1>3 DEF Own, OpenCOTSClient, OpenNull, Close, UseList, Goto,
                      InCall, addrlist
  <2>2. astray = {} => \A d \in Conns : InTurn(d)'
    BY <1>3, SameTurn DEF OpenCOTSClient, OpenNull, Close, UseList, addrlist
  <2>3. QED
    BY <1>1, <1>2, <2>1, <2>2 DEF Turns
<1>4. CASE StartOver(c)
  <2>1. tried'[c] = {} /\ tried' \in [Conns -> SUBSET Nat]
    BY <1>1, <1>4 DEF StartOver
  <2>2. Own'
    BY <1>1, <1>4, <2>1 DEF Own, StartOver, Goto, InCall, addrlist
  <2>3. astray = {} => \A d \in Conns : InTurn(d)'
    BY <1>4, <2>1, SameTurn DEF StartOver, addrlist
  <2>4. QED
    BY <1>1, <1>2, <2>2, <2>3 DEF Turns
<1>5. CASE NoList(c) \/ \E list \in AddrLists : NewList(c, list)
  <2>1. ~listed /\ tried[c] = {} /\ tried' = tried
    BY <1>1, <1>5 DEF Own, NoList, NewList
  <2>2. Own'
    BY <1>1, <1>5, <2>1 DEF Own, NoList, NewList, Goto, InCall
  <2>3. InTurn(c)'
    BY <2>1 DEF InTurn
  <2>4. QED
    BY <1>1, <1>2, <2>2, <2>3 DEF Turns
<1>6. QED
  BY <1>3, <1>4, <1>5

\* No attempt has been made.
LEMMA InitRInv == Init => RInv
<1> SUFFICES ASSUME Init PROVE Own /\ Turns
  BY InitCInv DEF RInv
<1>1. Own
  BY DEF Init, Own, InCall
<1>2. Turns
  BY DEF Init, Turns, InTurn
<1>3. QED
  BY <1>1, <1>2

\* Every step keeps the order.
LEMMA NextRInv == Undisturbed /\ RInv /\ [Next]_vars => RInv'
<1> SUFFICES ASSUME Undisturbed, RInv, [Next]_vars PROVE RInv'
  OBVIOUS
<1>1. CInv'
  BY NextCInv DEF RInv
<1>2. ASSUME UNCHANGED <<pc, addrlist, astray, tried>> PROVE Own' /\ Turns'
  BY <1>2 DEF RInv, Own, Turns, InTurn, Worth, Uses, Rank, RankOf, Here,
              InCall, addrlist
<1>3. CASE UNCHANGED vars
  BY <1>1, <1>2, <1>3 DEF vars, RInv
<1>4. ASSUME NEW d \in Fds, ProgramOpens(d) \/ ProgramCloses(d) PROVE RInv'
  BY <1>1, <1>2, <1>4 DEF ProgramOpens, ProgramCloses, RInv
<1>5. ASSUME NEW c \in Conns, Walk(c) PROVE RInv'
  BY <1>1, <1>5, WalkTurns DEF RInv
<1>6. ASSUME NEW c \in Conns,
             \/ OpenCOTSClient(c) \/ OpenNull(c) \/ Close(c) \/ UseList(c)
             \/ NoList(c) \/ StartOver(c)
             \/ \E list \in AddrLists : NewList(c, list)
      PROVE  RInv'
  BY <1>1, <1>6, CallTurns DEF RInv
<1>7. QED
  BY <1>3, <1>4, <1>5, <1>6 DEF Next

\* SocketINETConnect is asked again after a failure, for a connection that was
\* closed and opened anew: the cursor it left in addrlist takes every other
\* address before one that has failed, in lists of any length and with other
\* threads that open and close files.  There is one connection: the run
\* connect_shared shows that two undo each other's progress.
THEOREM RetryMovesOnHolds == Undisturbed => (Spec => RetryMovesOn)
<1> SUFFICES ASSUME Undisturbed PROVE Spec => RetryMovesOn
  OBVIOUS
<1> DEFINE Fresh ==
      \A c \in Conns, o \in AllOutcomes :
        astray = {} /\ Connect(c, o) /\ cur \in tried[c]
          => Usable(c) \subseteq tried[c]
<1>1. RInv => Fresh
  <2> SUFFICES ASSUME RInv, NEW c \in Conns, NEW o \in AllOutcomes,
                      astray = {}, Connect(c, o), cur \in tried[c],
                      NEW k \in Usable(c)
               PROVE  k \in tried[c]
    OBVIOUS
  <2>1. cur \in Worth(c) /\ InTurn(c) /\ CInv
    BY DEF RInv, Turns, Connect
  <2>2. k \in Worth(c)
    BY <2>1, UsableIs DEF Usable, Worth, Connect
  <2>3. Len(addrs) \in Nat /\ cur \in 1 .. Len(addrs) /\ k \in 1 .. Len(addrs)
    BY <2>1, <2>2, Lists DEF CInv, Types, Worth
  <2>4. Rank(cur) <= Rank(k)
    BY <2>3 DEF Rank, RankOf, Here
  <2>5. QED
    BY <2>1, <2>2, <2>4 DEF InTurn
<1>2. RInv /\ [Next]_vars => [Fresh]_vars
  BY <1>1
<1>3. Init => RInv
  BY InitRInv
<1>4. RInv /\ [Next]_vars => RInv'
  BY NextRInv
<1>5. QED
  BY <1>2, <1>3, <1>4, PTL DEF Spec, RetryMovesOn
=============================================================================
