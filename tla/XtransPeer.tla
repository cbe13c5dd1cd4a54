----------------------------- MODULE XtransPeer -----------------------------
(***************************************************************************)
(* A server of the X transport library accepts a connection and asks who   *)
(* is at the other end (include/X11/Xtrans/Xtrans.c: Accept, GetPeerAddr,  *)
(* Close; Xtranssock.c: SocketINETAccept, SocketUNIXAccept,                *)
(* SocketINETGetAddr, SocketINETGetPeerAddr; Xtransutil.c: ConvertAddress, *)
(* GetPeerNetworkId).                                                      *)
(*                                                                         *)
(* GetPeerNetworkId limits a name lookup with alarm(2) and jumps out of it *)
(* in the signal handler.  The handler may run between any two steps of    *)
(* the process, for an alarm of the call or for one of the program itself. *)
(***************************************************************************)
EXTENDS Naturals, Sequences, FiniteSets

CONSTANT HostnameLens   \* lengths of the host's name; 0: it cannot be had

ASSUME PeerAssumption == HostnameLens \subseteq Nat

VARIABLES
  build,      \* what the library is built for: "X11" or "ICE"
  listener,   \* family of the listener
  hlen,       \* length of the host's name
  client,     \* who is connecting or connected, "none" if nobody is
  gone,       \* the client has left
  pc,
  stage,      \* the step of Accept
  own,        \* what the process has for the connection
  conv,       \* the address handed to ConvertAddress: family and length, the
              \* size of the buffer and how much of it was written
  alarm,      \* "off", or who has set it: "call" or "program"
  handler,    \* of SIGALRM: the "program"'s, or "nameserver_lost"
  blocked,    \* SIGALRM is blocked
  env,        \* the frame setjmp has saved: "none", "live" or "dead"
  hostp,      \* "NULL", or "name" when there is an answer
  told,       \* history: what gethostbyaddr has returned to this call
  result,     \* what GetPeerNetworkId is made from
  stray       \* history: the alarm that jumped into a frame that is not there

setting == <<build, listener, hlen>>
peerVars == <<client, gone>>
timer == <<alarm, handler, blocked, env>>
lookup == <<hostp, told, result>>
vars == <<setting, peerVars, pc, stage, own, conv, timer, lookup, stray>>

NoConv == [family |-> "none", len |-> 0, cap |-> 0, wrote |-> 0]

Init ==
  /\ build \in {"X11", "ICE"}
  /\ listener \in {"inet", "inet6", "unix"}
  /\ hlen \in HostnameLens
  /\ client = "none" /\ gone = FALSE
  /\ pc = "idle" /\ stage = 1 /\ own = {}
  /\ conv = NoConv
  /\ alarm = "off" /\ handler = "program" /\ blocked = FALSE /\ env = "none"
  /\ hostp = "NULL" /\ told = "NULL" /\ result = "none"
  /\ stray = "none"

-----------------------------------------------------------------------------
(* The client.  An inet6 socket may take IPv4 connections too, with mapped *)
(* addresses.                                                              *)

Peers ==
  CASE listener = "inet" -> {"loopback4", "host4"}
    [] listener = "inet6" -> {"loopback4", "host4", "loopback6", "host6"}
    [] listener = "unix" -> {"local"}

Arrive(c) ==
  /\ client = "none"
  /\ client' = c /\ gone' = FALSE
  /\ UNCHANGED <<setting, pc, stage, own, conv, timer, lookup, stray>>

Leave ==
  /\ client # "none" /\ ~gone
  /\ gone' = TRUE
  /\ UNCHANGED <<setting, client, pc, stage, own, conv, timer, lookup, stray>>

-----------------------------------------------------------------------------
(* Accept.  A definition named Bug... is a variant of the one that follows *)
(* it with a plausible mistake; no specification uses it.                  *)

Step(get, frees) == [get |-> get, frees |-> frees]

BugSteps ==
  <<Step("ciptr", {}), Step("fd", {"ciptr"}), Step("addr", {"fd", "ciptr"}),
    Step("peeraddr", {"fd", "ciptr"})>>

\* calloc, accept(2), SocketINETGetAddr and SocketINETGetPeerAddr, or the two
\* allocations of SocketUNIXAccept: what each step gets and what is given back
\* when it fails.
Steps ==
  <<Step("ciptr", {}), Step("fd", {"ciptr"}), Step("addr", {"fd", "ciptr"}),
    Step("peeraddr", {"fd", "addr", "ciptr"})>>

Accept ==
  /\ pc = "idle" /\ client # "none"
  /\ pc' = "accept" /\ stage' = 1
  /\ UNCHANGED <<setting, peerVars, own, conv, timer, lookup, stray>>

BugLast == stage > Len(Steps)

Last == stage = Len(Steps)

\* getpeername(2) wants the client to be there still.
Acquire ==
  /\ pc = "accept"
  /\ ~(gone /\ listener # "unix" /\ Steps[stage].get = "peeraddr")
  /\ own' = own \union {Steps[stage].get}
  /\ stage' = IF Last THEN 1 ELSE stage + 1
  /\ pc' = IF Last THEN "up" ELSE "accept"
  /\ UNCHANGED <<setting, peerVars, conv, timer, lookup, stray>>

\* NULL is returned.  Before accept(2) has succeeded the connection waits on.
AcquireFails ==
  /\ pc = "accept"
  /\ own' = own \ Steps[stage].frees
  /\ stage' = 1
  /\ pc' = "idle"
  /\ client' = IF stage > 2 \/ gone THEN "none" ELSE client
  /\ gone' = FALSE
  /\ UNCHANGED <<setting, conv, timer, lookup, stray>>

\* Close with FreeConnInfo.
Close ==
  /\ pc = "up"
  /\ own' = own \ {"fd", "addr", "peeraddr", "ciptr"}
  /\ client' = "none" /\ gone' = FALSE
  /\ pc' = "idle"
  /\ UNCHANGED <<setting, stage, conv, timer, lookup, stray>>

-----------------------------------------------------------------------------
(* GetPeerAddr and ConvertAddress.                                         *)

\* The size of the peer's address; a UNIX client has no name of its own.
SizeOf == [inet |-> 16, inet6 |-> 28, unix |-> 2]

\* A copy of the peer's address; without memory there is none.
GetPeerAddr ==
  /\ build = "X11"
  /\ pc = "up"
  /\ pc' = "address"
  /\ conv' = [family |-> listener, len |-> SizeOf[listener],
              cap |-> SizeOf[listener], wrote |-> SizeOf[listener]]
  /\ UNCHANGED <<setting, peerVars, stage, own, timer, lookup, stray>>

\* What the peer's address looks like: over an inet6 socket an IPv4 address
\* is a mapped one.
Mapped == listener = "inet6" /\ client \in {"loopback4", "host4"}

BugIsLocal ==
  CASE conv.family = "unix" -> TRUE
    [] conv.family = "inet" -> client = "loopback4"
    [] conv.family = "inet6" -> ~Mapped /\ client = "loopback6"

\* AF_UNIX, 127.0.0.1, ::1, and 127.0.0.1 as a mapped address.
IsLocal ==
  CASE conv.family = "unix" -> TRUE
    [] conv.family = "inet" -> client = "loopback4"
    [] conv.family = "inet6" ->
         IF Mapped THEN client = "loopback4" ELSE client = "loopback6"

\* The address itself, written over the beginning of the buffer.
Internet ==
  IF conv.family = "inet" \/ Mapped
    THEN [conv EXCEPT !.family = "FamilyInternet", !.len = 4]
    ELSE [conv EXCEPT !.family = "FamilyInternet6", !.len = 16]

BugTooSmall == conv.len < hlen

TooSmall == conv.len < hlen + 1

\* The host's name in the buffer there is, or in a new one, or no name at all.
LocalName ==
  LET local == [conv EXCEPT !.family = "FamilyLocal", !.len = hlen,
                            !.wrote = hlen + 1]
      none == [NoConv EXCEPT !.family = "FamilyLocal"]
  IN IF hlen = 0 THEN {none}
     ELSE IF TooSmall THEN {none, [local EXCEPT !.cap = hlen + 1]}
     ELSE {local}

ConvertAddress ==
  /\ pc = "address"
  /\ conv' \in IF IsLocal THEN LocalName ELSE {Internet}
  /\ pc' = "converted"
  /\ UNCHANGED <<setting, peerVars, stage, own, timer, lookup, stray>>

\* The program has used the address and frees it.
FreeAddress ==
  /\ pc = "converted"
  /\ conv' = NoConv
  /\ pc' = "up"
  /\ UNCHANGED <<setting, peerVars, stage, own, timer, lookup, stray>>

-----------------------------------------------------------------------------
(* GetPeerNetworkId.                                                       *)

\* For a UNIX socket this host's name; without one, strlen is called for NULL,
\* and without memory strcpy writes to NULL.
GetPeerNetworkIdLocal ==
  /\ build = "ICE" /\ listener = "unix"
  /\ pc = "up"
  /\ \/ hlen > 0 /\ pc' = "id" /\ result' = "hostname"
     \/ pc' = "crashed" /\ result' = "none"
  /\ UNCHANGED <<setting, peerVars, stage, own, conv, timer, hostp, told,
                 stray>>

\* signal (SIGALRM, nameserver_lost).
GetPeerNetworkId ==
  /\ build = "ICE" /\ listener # "unix"
  /\ pc = "up"
  /\ pc' = "alarm"
  /\ handler' = "nameserver_lost"
  /\ hostp' = "NULL" /\ told' = "NULL"
  /\ UNCHANGED <<setting, peerVars, stage, own, conv, alarm, blocked, env,
                 result, stray>>

BugAlarmOn ==
  /\ pc = "alarm"
  /\ pc' = "setjmp"
  /\ UNCHANGED <<setting, peerVars, stage, own, conv, timer, lookup, stray>>

\* alarm (4), in place of an alarm that the program may have set.
AlarmOn ==
  /\ pc = "alarm"
  /\ alarm' = "call"
  /\ pc' = "setjmp"
  /\ UNCHANGED <<setting, peerVars, stage, own, conv, handler, blocked,
                 env, lookup, stray>>

Setjmp ==
  /\ pc = "setjmp"
  /\ env' = "live"
  /\ pc' = "lookup"
  /\ UNCHANGED <<setting, peerVars, stage, own, conv, alarm, handler, blocked,
                 lookup, stray>>

\* gethostbyaddr returns, which it need not do in any time that matters, and
\* its result is stored; a signal between the two is one before the answer.
Answer(h) ==
  /\ pc = "lookup"
  /\ hostp' = h /\ told' = h
  /\ pc' = "alarm_off"
  /\ UNCHANGED <<setting, peerVars, stage, own, conv, timer, result, stray>>

BugAlarmOff ==
  /\ pc = "alarm_off"
  /\ pc' = "compose"
  /\ UNCHANGED <<setting, peerVars, stage, own, conv, timer, lookup, stray>>

\* alarm (0).
AlarmOff ==
  /\ pc = "alarm_off"
  /\ alarm' = "off"
  /\ pc' = "compose"
  /\ UNCHANGED <<setting, peerVars, stage, own, conv, handler, blocked,
                 env, lookup, stray>>

\* The name or the numbers; the call returns and its frame is gone.
Compose ==
  /\ pc = "compose"
  /\ result' = IF hostp = "NULL" THEN "numbers" ELSE "name"
  /\ env' = "dead"
  /\ pc' = "id"
  /\ UNCHANGED <<setting, peerVars, stage, own, conv, alarm, handler, blocked,
                 hostp, told, stray>>

\* strcpy into what malloc has not given.
ComposeNoMem ==
  /\ pc = "compose"
  /\ pc' = "crashed"
  /\ UNCHANGED <<setting, peerVars, stage, own, conv, timer, lookup, stray>>

\* The program has used the identifier.
FreeId ==
  /\ pc = "id"
  /\ result' = "none"
  /\ pc' = "up"
  /\ UNCHANGED <<setting, peerVars, stage, own, conv, timer, hostp, told,
                 stray>>

-----------------------------------------------------------------------------
(* Signals.                                                                *)

\* The program sets an alarm of its own, for the handler it has installed at
\* the start or installs now.
ProgramAlarm(install) ==
  /\ build = "ICE" /\ pc \in {"idle", "up"}
  /\ alarm = "off"
  /\ alarm' = "program"
  /\ handler' = IF install THEN "program" ELSE handler
  /\ UNCHANGED <<setting, peerVars, pc, stage, own, conv, blocked, env, lookup,
                 stray>>

BugKept(h) == "NULL"

\* A volatile variable has its value after the jump.
Kept(h) == h

\* The alarm goes off.
Due == alarm # "off" /\ ~blocked /\ pc # "crashed"

\* nameserver_lost jumps to where setjmp was called.  The signal is blocked
\* while a handler runs, and setjmp has not saved the mask that longjmp would
\* have to restore (include/setjmp.h), so it stays blocked.
Jump ==
  /\ Due /\ handler = "nameserver_lost"
  /\ env = "live"
  /\ alarm' = "off"
  /\ blocked' = TRUE
  /\ hostp' = Kept(hostp)
  /\ pc' = "alarm_off"
  /\ UNCHANGED <<setting, peerVars, stage, own, conv, handler, env, told,
                 result, stray>>

\* There is no such place: what follows is undefined.
JumpAstray ==
  /\ Due /\ handler = "nameserver_lost"
  /\ env # "live"
  /\ alarm' = "off"
  /\ stray' = IF alarm = "program" THEN "program"
              ELSE IF pc = "setjmp" THEN "early" ELSE "late"
  /\ pc' = "crashed"
  /\ UNCHANGED <<setting, peerVars, stage, own, conv, handler, blocked, env,
                 lookup>>

\* The program's handler returns.
ProgramHandler ==
  /\ Due /\ handler = "program"
  /\ alarm' = "off"
  /\ UNCHANGED <<setting, peerVars, pc, stage, own, conv, handler, blocked,
                 env, lookup, stray>>

-----------------------------------------------------------------------------
Signal == Jump \/ JumpAstray \/ ProgramHandler

\* The steps of a call that do not wait for anybody.
Proceed ==
  AlarmOn \/ Setjmp \/ AlarmOff \/ Compose \/ ComposeNoMem

Next ==
  \/ (\E c \in Peers : Arrive(c)) \/ Leave
  \/ Accept \/ Acquire \/ AcquireFails \/ Close
  \/ GetPeerAddr \/ ConvertAddress \/ FreeAddress
  \/ GetPeerNetworkIdLocal \/ GetPeerNetworkId \/ FreeId
  \/ Proceed
  \/ \E h \in {"NULL", "name"} : Answer(h)
  \/ \E install \in BOOLEAN : ProgramAlarm(install)
  \/ Signal

Spec == Init /\ [][Next]_vars

\* The process runs on and an alarm goes off; the name service may be silent.
FairSpec == Spec /\ WF_vars(Proceed) /\ WF_vars(Signal)

-----------------------------------------------------------------------------
(* Properties.                                                             *)

\* Every variable keeps its type.
TypeOK ==
  /\ build \in {"X11", "ICE"} /\ listener \in {"inet", "inet6", "unix"}
  /\ hlen \in HostnameLens
  /\ client \in {"none", "local", "loopback4", "host4", "loopback6", "host6"}
  /\ gone \in BOOLEAN /\ blocked \in BOOLEAN
  /\ pc \in {"idle", "accept", "up", "address", "converted", "alarm", "setjmp",
             "lookup", "alarm_off", "compose", "id", "crashed"}
  /\ stage \in 1 .. 4
  /\ own \subseteq {"ciptr", "fd", "addr", "peeraddr"}
  /\ conv \in [family : {"none", "inet", "inet6", "unix", "FamilyInternet",
                          "FamilyInternet6", "FamilyLocal"},
               len : Nat, cap : Nat, wrote : Nat]
  /\ alarm \in {"off", "call", "program"}
  /\ handler \in {"program", "nameserver_lost"}
  /\ env \in {"none", "live", "dead"}
  /\ hostp \in {"NULL", "name"} /\ told \in {"NULL", "name"}
  /\ result \in {"none", "name", "numbers", "hostname"}
  /\ stray \in {"none", "program", "early", "late"}

\* A connection is accepted as a whole or not at all: wherever Accept fails,
\* also because the client has left in between, the process is left with
\* neither a descriptor nor memory, and so it is after Close.
AllOrNothing ==
  /\ pc = "idle" => own = {}
  /\ pc \notin {"idle", "accept", "crashed"} =>
       own = {"ciptr", "fd", "addr", "peeraddr"}

\* ConvertAddress writes no more than the buffer holds, however long the name
\* of the host is that takes the place of an address in the same buffer, and
\* the length it reports is backed by the buffer.
BufferHolds == conv.wrote <= conv.cap /\ conv.len <= conv.cap

\* What ConvertAddress makes of a peer depends on the peer and not on the
\* socket it has come through: IPv4 looks the same over an inet6 listener, and
\* a connection from this host is local over all of them.
SameOverAll ==
  pc = "converted" =>
    conv.family = IF client \in {"local", "loopback4", "loopback6"}
                    THEN "FamilyLocal"
                  ELSE IF client = "host4" THEN "FamilyInternet"
                  ELSE "FamilyInternet6"

\* An answer that gethostbyaddr has given is used, also when the alarm goes
\* off between the answer and alarm (0) and the handler jumps back.
NameIfAnswered == pc = "id" /\ told = "name" => result = "name"

\* The handler finds the frame it jumps to, unless the alarm was the program's,
\* for which the handler was never taken out again, or the four seconds
\* passed before setjmp was called: the call's alarm does not outlive the call.
JumpsHome == stray # "late"

\* GetPeerNetworkId (Xtransutil.c:375): "do not make the user wait" for a name
\* service that does not respond, as long as the signal is not blocked.
WaitEnds == pc = "lookup" /\ ~blocked ~> pc # "lookup"

\* The same without the condition: "Assume that if it does not respond in
\* NAMESERVER_TIMEOUT seconds that something is wrong and do not make the user
\* wait."
WaitAlwaysEnds == pc = "lookup" ~> pc # "lookup"

=============================================================================
