-------------------------- MODULE XtransPeerProofs --------------------------
(***************************************************************************)
(* The invariants of XtransPeer, for host names of any length.             *)
(***************************************************************************)
EXTENDS XtransPeer, TLAPS

All == {"ciptr", "fd", "addr", "peeraddr"}

\* What the process has for the connection, at each stage of Accept.
Owns ==
  /\ pc = "idle" => own = {}
  /\ pc = "accept" =>
       own = CASE stage = 1 -> {} [] stage = 2 -> {"ciptr"}
               [] stage = 3 -> {"ciptr", "fd"}
               [] stage = 4 -> {"ciptr", "fd", "addr"}
  /\ pc \notin {"idle", "accept", "crashed"} => own = All

\* A client that is there is one of the listener's kind.
Attached ==
  /\ listener = "unix" => client \in {"none", "local"}
  /\ listener = "inet" => client \in {"none", "loopback4", "host4"}
  /\ listener = "inet6" => client # "local"
  /\ pc \notin {"idle", "crashed"} => client # "none"

\* The buffer given to ConvertAddress is the peer's address.
Buffer ==
  /\ pc = "address" =>
       conv = [family |-> listener, len |-> SizeOf[listener],
               cap |-> SizeOf[listener], wrote |-> SizeOf[listener]]
  /\ pc \notin {"address", "converted", "crashed"} => conv = NoConv

\* The frame that setjmp saved is there while the call's alarm is on.
Timer ==
  /\ alarm = "call" =>
       pc \in {"setjmp", "lookup", "alarm_off"}
  /\ pc \in {"lookup", "alarm_off", "compose"} => env = "live"
  /\ env = "live" => pc \in {"lookup", "alarm_off", "compose", "crashed"}

\* hostp holds what the lookup has returned; a UNIX socket needs none.
Held ==
  /\ hostp = told
  /\ listener = "unix" => told = "NULL"
  /\ pc \in {"alarm", "setjmp", "lookup", "alarm_off", "compose"} =>
       listener # "unix"

PInv ==
  /\ TypeOK /\ Owns /\ Attached /\ Buffer /\ Timer /\ Held
  /\ BufferHolds /\ SameOverAll /\ NameIfAnswered /\ JumpsHome

-----------------------------------------------------------------------------
(* A step per action.                                                      *)

\* Who a listener may meet.
LEMMA PeersAre ==
  ASSUME listener \in {"inet", "inet6", "unix"}
  PROVE  /\ Peers \subseteq {"local", "loopback4", "host4", "loopback6", "host6"}
         /\ "none" \notin Peers
         /\ listener = "unix" => Peers = {"local"}
         /\ listener = "inet" => Peers = {"loopback4", "host4"}
         /\ listener = "inet6" =>
              Peers = {"loopback4", "host4", "loopback6", "host6"}
  BY DEF Peers

\* What ConvertAddress may leave.
LEMMA Converted ==
  ASSUME hlen \in Nat, listener \in {"inet", "inet6", "unix"},
         conv = [family |-> listener, len |-> SizeOf[listener],
                 cap |-> SizeOf[listener], wrote |-> SizeOf[listener]],
         NEW c \in IF IsLocal THEN LocalName ELSE {Internet}
  PROVE  /\ c \in [family : {"FamilyInternet", "FamilyInternet6", "FamilyLocal"},
                   len : Nat, cap : Nat, wrote : Nat]
         /\ c.wrote <= c.cap /\ c.len <= c.cap
         /\ IsLocal => c.family = "FamilyLocal"
         /\ ~IsLocal => c = Internet
<1>1. SizeOf[listener] \in {2, 16, 28}
  BY DEF SizeOf
<1>2. CASE IsLocal
  <2>1. c \in LocalName
    BY <1>2
  <2>2. CASE hlen = 0
    BY <1>2, <2>1, <2>2 DEF LocalName, NoConv
  <2>3. CASE hlen # 0 /\ TooSmall
    <3>1. \/ c = [family |-> "FamilyLocal", len |-> 0, cap |-> 0, wrote |-> 0]
          \/ c = [family |-> "FamilyLocal", len |-> hlen, cap |-> hlen + 1,
                  wrote |-> hlen + 1]
      BY <2>1, <2>3 DEF LocalName, NoConv
    <3> QED BY <1>2, <3>1
  <2>4. CASE hlen # 0 /\ ~TooSmall
    <3>1. c = [family |-> "FamilyLocal", len |-> hlen, cap |-> SizeOf[listener],
               wrote |-> hlen + 1]
      BY <2>1, <2>4 DEF LocalName
    <3>2. hlen + 1 <= SizeOf[listener]
      BY <1>1, <2>4 DEF TooSmall
    <3> QED BY <1>1, <1>2, <3>1, <3>2
  <2> QED BY <2>2, <2>3, <2>4
<1>3. CASE ~IsLocal
  <2>1. c = Internet
    BY <1>3
  <2>2. listener # "unix"
    BY <1>3 DEF IsLocal
  <2>3. SizeOf[listener] \in {16, 28} /\ (listener = "inet6" => SizeOf[listener] = 28)
    BY <2>2 DEF SizeOf
  <2>4. \/ c = [family |-> "FamilyInternet", len |-> 4, cap |-> SizeOf[listener],
                wrote |-> SizeOf[listener]]
        \/ /\ SizeOf[listener] = 28
           /\ c = [family |-> "FamilyInternet6", len |-> 16,
                   cap |-> SizeOf[listener], wrote |-> SizeOf[listener]]
    BY <2>1, <2>2, <2>3 DEF Internet
  <2> QED BY <1>3, <2>1, <2>3, <2>4
<1> QED BY <1>2, <1>3

LEMMA PInvInit == Init => PInv
<1> SUFFICES ASSUME Init PROVE PInv
  OBVIOUS
<1>1. TypeOK
  <2>1. conv \in [family : {"none", "inet", "inet6", "unix", "FamilyInternet",
                           "FamilyInternet6", "FamilyLocal"},
                 len : Nat, cap : Nat, wrote : Nat]
    BY DEF Init, NoConv
  <2>2. stage \in 1 .. 4 /\ own \subseteq All
    BY DEF Init
  <2>3. gone \in BOOLEAN /\ blocked \in BOOLEAN
    BY DEF Init
  <2> QED BY <2>1, <2>2, <2>3 DEF Init, TypeOK, All
<1>2. Owns /\ Attached /\ Timer /\ Held
  BY DEF Init, Owns, Attached, Timer, Held
<1>3. Buffer /\ BufferHolds
  BY DEF Init, Buffer, BufferHolds, NoConv
<1>4. SameOverAll /\ NameIfAnswered /\ JumpsHome
  BY DEF Init, SameOverAll, NameIfAnswered, JumpsHome
<1> QED BY <1>1, <1>2, <1>3, <1>4 DEF PInv

LEMMA TypeStep == PInv /\ [Next]_vars => TypeOK'
<1> SUFFICES ASSUME PInv, [Next]_vars PROVE TypeOK'
  OBVIOUS
<1> USE PeerAssumption DEF PInv, TypeOK
<1>1. ASSUME NEW c \in Peers, Arrive(c) PROVE TypeOK'
  <2>1. gone' \in BOOLEAN
    BY <1>1 DEF Arrive
  <2>2. client' \in {"local", "loopback4", "host4", "loopback6", "host6"}
    BY <1>1, PeersAre DEF Arrive
  <2> QED BY <1>1, <2>1, <2>2 DEF Arrive, setting, timer, lookup
<1>2. CASE Leave BY <1>2 DEF Leave, setting, timer, lookup
<1>3. CASE Accept BY <1>3 DEF Accept, setting, peerVars, timer, lookup
<1>4. CASE Acquire
  <2>1. Steps[stage].get \in All /\ Len(Steps) = 4
    BY DEF Steps, Step, All
  <2>2. own' \subseteq All
    BY <1>4, <2>1 DEF Acquire, All
  <2>3. stage' \in 1 .. 4 /\ pc' \in {"up", "accept"}
    BY <1>4, <2>1 DEF Acquire, Last
  <2> QED BY <1>4, <2>2, <2>3 DEF Acquire, All, setting, peerVars, timer, lookup
<1>5. CASE AcquireFails
  <2>1. gone' \in BOOLEAN
    BY <1>5 DEF AcquireFails
  <2>2. own' \subseteq own /\ stage' = 1
    BY <1>5, Zenon DEF AcquireFails
  <2>3. own' \subseteq All
    BY <2>2 DEF All
  <2>4. client' \in {client, "none"}
    BY <1>5 DEF AcquireFails
  <2> QED BY <1>5, <2>1, <2>2, <2>3, <2>4 DEF AcquireFails, All, setting, timer,
             lookup
<1>6. CASE Close
  <2>1. gone' \in BOOLEAN
    BY <1>6 DEF Close
  <2>2. own' \subseteq All
    BY <1>6 DEF Close, All
  <2> QED BY <1>6, <2>1, <2>2 DEF Close, All, setting, timer, lookup
<1>7. CASE GetPeerAddr
  BY <1>7 DEF GetPeerAddr, SizeOf, setting, peerVars, timer, lookup
<1>8. CASE ConvertAddress
  <2>1. hlen \in Nat
    OBVIOUS
  <2>2. /\ conv'.family \in {"FamilyInternet", "FamilyInternet6", "FamilyLocal"}
        /\ conv' \in [family : {"none", "inet", "inet6", "unix",
                               "FamilyInternet", "FamilyInternet6",
                               "FamilyLocal"},
                     len : Nat, cap : Nat, wrote : Nat]
    BY <1>8, <2>1, Converted DEF ConvertAddress, Buffer
  <2> QED BY <1>8, <2>2 DEF ConvertAddress, setting, peerVars, timer, lookup
<1>9. CASE FreeAddress
  BY <1>9 DEF FreeAddress, NoConv, setting, peerVars, timer, lookup
<1>10. CASE GetPeerNetworkIdLocal
  BY <1>10 DEF GetPeerNetworkIdLocal, setting, peerVars, timer
<1>11. CASE GetPeerNetworkId
  BY <1>11 DEF GetPeerNetworkId, setting, peerVars
<1>12. CASE FreeId BY <1>12 DEF FreeId, setting, peerVars, timer
<1>13. CASE Proceed
  <2>1. CASE AlarmOn BY <2>1 DEF AlarmOn, setting, peerVars, lookup
  <2>2. CASE Setjmp BY <2>2 DEF Setjmp, setting, peerVars, lookup
  <2>3. CASE AlarmOff BY <2>3 DEF AlarmOff, setting, peerVars, lookup
  <2>4. CASE Compose BY <2>4 DEF Compose, setting, peerVars
  <2>5. CASE ComposeNoMem
    BY <2>5 DEF ComposeNoMem, setting, peerVars, timer, lookup
  <2> QED BY <1>13, <2>1, <2>2, <2>3, <2>4, <2>5 DEF Proceed
<1>14. ASSUME NEW h \in {"NULL", "name"}, Answer(h) PROVE TypeOK'
  BY <1>14 DEF Answer, setting, peerVars, timer
<1>15. ASSUME NEW install \in BOOLEAN, ProgramAlarm(install) PROVE TypeOK'
  BY <1>15 DEF ProgramAlarm, setting, peerVars, lookup
<1>16. CASE Signal
  <2>1. CASE Jump
    <3>1. blocked' \in BOOLEAN
      BY <2>1 DEF Jump
    <3> QED BY <2>1, <3>1 DEF Jump, Kept, setting, peerVars
  <2>2. CASE JumpAstray BY <2>2 DEF JumpAstray, setting, peerVars, lookup
  <2>3. CASE ProgramHandler
    BY <2>3 DEF ProgramHandler, setting, peerVars, lookup
  <2> QED BY <1>16, <2>1, <2>2, <2>3 DEF Signal
<1>17. CASE UNCHANGED vars
  BY <1>17 DEF vars, setting, peerVars, timer, lookup
<1> QED BY <1>1, <1>2, <1>3, <1>4, <1>5, <1>6, <1>7, <1>8, <1>9, <1>10,
           <1>11, <1>12, <1>13, <1>14, <1>15, <1>16, <1>17 DEF Next

\* What the steps of Accept get and give back.
LEMMA StepsAre ==
  /\ Len(Steps) = 4
  /\ Steps[1].get = "ciptr" /\ Steps[2].get = "fd" /\ Steps[3].get = "addr"
  /\ Steps[4].get = "peeraddr"
  /\ Steps[1].frees = {} /\ Steps[2].frees = {"ciptr"}
  /\ Steps[3].frees = {"fd", "ciptr"}
  /\ Steps[4].frees = {"fd", "addr", "ciptr"}
  BY DEF Steps, Step

\* Accept gets and gives back what it should.
LEMMA OwnsStep == PInv /\ [Next]_vars => Owns'
<1> SUFFICES ASSUME PInv, [Next]_vars PROVE Owns'
  OBVIOUS
<1> USE DEF PInv, TypeOK, Timer, Owns, All
<1>1. ASSUME NEW c \in Peers, Arrive(c) PROVE Owns'
  BY <1>1 DEF Arrive, setting, timer, lookup
<1>2. CASE Leave \/ Accept \/ Close
  BY <1>2 DEF Leave, Accept, Close, setting, peerVars, timer, lookup
<1>3. CASE Acquire
  <2>1. CASE stage = 4
    <3>1. pc' = "up" /\ own' = own \union {"peeraddr"}
      BY <1>3, <2>1, StepsAre DEF Acquire, Last
    <3> QED BY <1>3, <2>1, <3>1 DEF Acquire
  <2>2. CASE stage \in {1, 2, 3}
    <3>1. pc' = "accept" /\ stage' = stage + 1
      BY <1>3, <2>2, StepsAre DEF Acquire, Last
    <3>2. own' = own \union {Steps[stage].get}
      BY <1>3 DEF Acquire
    <3> QED BY <1>3, <2>2, <3>1, <3>2, StepsAre DEF Acquire
  <2>3. stage = 4 \/ stage \in {1, 2, 3}
    OBVIOUS
  <2> QED BY <2>1, <2>2, <2>3
<1>4. CASE AcquireFails
  <2>1. pc' = "idle" /\ own' = own \ Steps[stage].frees /\ pc = "accept"
    BY <1>4 DEF AcquireFails
  <2>2. own \ Steps[stage].frees = {}
    <3>1. CASE stage = 1 BY <2>1, <3>1
    <3>2. CASE stage = 2 BY <2>1, <3>2, StepsAre
    <3>3. CASE stage = 3 BY <2>1, <3>3, StepsAre
    <3>4. CASE stage = 4 BY <2>1, <3>4, StepsAre
    <3> QED BY <3>1, <3>2, <3>3, <3>4
  <2> QED BY <2>1, <2>2
<1>5. CASE GetPeerAddr \/ ConvertAddress \/ FreeAddress
  BY <1>5 DEF GetPeerAddr, ConvertAddress, FreeAddress, setting, peerVars,
     timer, lookup
<1>6. CASE GetPeerNetworkIdLocal \/ GetPeerNetworkId \/ FreeId
  BY <1>6 DEF GetPeerNetworkIdLocal, GetPeerNetworkId, FreeId, setting,
     peerVars, timer
<1>7. CASE Proceed
  BY <1>7 DEF Proceed, AlarmOn, Setjmp, AlarmOff, Compose, ComposeNoMem,
     setting, peerVars, timer, lookup
<1>8. ASSUME NEW h \in {"NULL", "name"}, Answer(h) PROVE Owns'
  BY <1>8 DEF Answer, setting, peerVars, timer
<1>9. ASSUME NEW install \in BOOLEAN, ProgramAlarm(install) PROVE Owns'
  BY <1>9 DEF ProgramAlarm, setting, peerVars, lookup
<1>10. CASE Signal
  BY <1>10 DEF Signal, Jump, JumpAstray, ProgramHandler, Due, Kept,
     setting, peerVars, lookup
<1>11. CASE UNCHANGED vars
  BY <1>11 DEF vars, setting, peerVars, timer, lookup
<1> QED BY <1>1, <1>2, <1>3, <1>4, <1>5, <1>6, <1>7, <1>8, <1>9, <1>10,
           <1>11 DEF Next

\* The client that is being served stays the same.
LEMMA AttachedStep == PInv /\ [Next]_vars => Attached'
<1> SUFFICES ASSUME PInv, [Next]_vars PROVE Attached'
  OBVIOUS
<1> USE DEF PInv, TypeOK, Timer, Attached
<1>1. ASSUME NEW c \in Peers, Arrive(c) PROVE Attached'
  BY <1>1, PeersAre DEF Arrive, setting, timer, lookup
<1>2. CASE Leave \/ Accept \/ Acquire \/ AcquireFails \/ Close
  BY <1>2 DEF Leave, Accept, Acquire, AcquireFails, Close, setting,
     peerVars, timer, lookup
<1>3. CASE GetPeerAddr \/ ConvertAddress \/ FreeAddress
  BY <1>3 DEF GetPeerAddr, ConvertAddress, FreeAddress, setting, peerVars,
     timer, lookup
<1>4. CASE GetPeerNetworkIdLocal \/ GetPeerNetworkId \/ FreeId
  BY <1>4 DEF GetPeerNetworkIdLocal, GetPeerNetworkId, FreeId, setting,
     peerVars, timer
<1>5. CASE Proceed
  BY <1>5 DEF Proceed, AlarmOn, Setjmp, AlarmOff, Compose, ComposeNoMem,
     setting, peerVars, timer, lookup
<1>6. ASSUME NEW h \in {"NULL", "name"}, Answer(h) PROVE Attached'
  BY <1>6 DEF Answer, setting, peerVars, timer
<1>7. ASSUME NEW install \in BOOLEAN, ProgramAlarm(install) PROVE Attached'
  BY <1>7 DEF ProgramAlarm, setting, peerVars, lookup
<1>8. CASE Signal
  BY <1>8 DEF Signal, Jump, JumpAstray, ProgramHandler, Due, Kept, setting,
     peerVars, lookup
<1>9. CASE UNCHANGED vars
  BY <1>9 DEF vars, setting, peerVars, timer, lookup
<1> QED BY <1>1, <1>2, <1>3, <1>4, <1>5, <1>6, <1>7, <1>8, <1>9 DEF Next

\* Only GetPeerAddr fills the buffer.
LEMMA BufferStep == PInv /\ [Next]_vars => Buffer'
<1> SUFFICES ASSUME PInv, [Next]_vars PROVE Buffer'
  OBVIOUS
<1> USE DEF PInv, TypeOK, Timer, Buffer
<1>1. ASSUME NEW c \in Peers, Arrive(c) PROVE Buffer'
  BY <1>1 DEF Arrive, setting, timer, lookup
<1>2. CASE Leave \/ Accept \/ Acquire \/ AcquireFails \/ Close
  BY <1>2 DEF Leave, Accept, Acquire, AcquireFails, Close, setting,
     peerVars, timer, lookup
<1>3. CASE GetPeerAddr \/ ConvertAddress \/ FreeAddress
  BY <1>3 DEF GetPeerAddr, ConvertAddress, FreeAddress, setting, peerVars,
     timer, lookup
<1>4. CASE GetPeerNetworkIdLocal \/ GetPeerNetworkId \/ FreeId
  BY <1>4 DEF GetPeerNetworkIdLocal, GetPeerNetworkId, FreeId, setting,
     peerVars, timer
<1>5. CASE Proceed
  BY <1>5 DEF Proceed, AlarmOn, Setjmp, AlarmOff, Compose, ComposeNoMem,
     setting, peerVars, timer, lookup
<1>6. ASSUME NEW h \in {"NULL", "name"}, Answer(h) PROVE Buffer'
  BY <1>6 DEF Answer, setting, peerVars, timer
<1>7. ASSUME NEW install \in BOOLEAN, ProgramAlarm(install) PROVE Buffer'
  BY <1>7 DEF ProgramAlarm, setting, peerVars, lookup
<1>8. CASE Signal
  BY <1>8 DEF Signal, Jump, JumpAstray, ProgramHandler, Due, Kept, setting,
     peerVars, lookup
<1>9. CASE UNCHANGED vars
  BY <1>9 DEF vars, setting, peerVars, timer, lookup
<1> QED BY <1>1, <1>2, <1>3, <1>4, <1>5, <1>6, <1>7, <1>8, <1>9 DEF Next

\* The alarm of the call is on only from alarm (4) to alarm (0).
LEMMA TimerStep == PInv /\ [Next]_vars => Timer'
<1> SUFFICES ASSUME PInv, [Next]_vars PROVE Timer'
  OBVIOUS
<1> USE DEF PInv, TypeOK, Timer
<1>1. ASSUME NEW c \in Peers, Arrive(c) PROVE Timer'
  BY <1>1 DEF Arrive, setting, timer, lookup
<1>2. CASE Leave \/ Accept \/ Acquire \/ AcquireFails \/ Close
  BY <1>2 DEF Leave, Accept, Acquire, AcquireFails, Close, setting,
     peerVars, timer, lookup
<1>3. CASE GetPeerAddr \/ ConvertAddress \/ FreeAddress
  BY <1>3 DEF GetPeerAddr, ConvertAddress, FreeAddress, setting, peerVars,
     timer, lookup
<1>4. CASE GetPeerNetworkIdLocal \/ GetPeerNetworkId \/ FreeId
  BY <1>4 DEF GetPeerNetworkIdLocal, GetPeerNetworkId, FreeId, setting,
     peerVars, timer
<1>5. CASE Proceed
  BY <1>5 DEF Proceed, AlarmOn, Setjmp, AlarmOff, Compose, ComposeNoMem,
     setting, peerVars, timer, lookup
<1>6. ASSUME NEW h \in {"NULL", "name"}, Answer(h) PROVE Timer'
  BY <1>6 DEF Answer, setting, peerVars, timer
<1>7. ASSUME NEW install \in BOOLEAN, ProgramAlarm(install) PROVE Timer'
  BY <1>7 DEF ProgramAlarm, setting, peerVars, lookup
<1>8. CASE Signal
  BY <1>8 DEF Signal, Jump, JumpAstray, ProgramHandler, Due, Kept, setting,
     peerVars, lookup
<1>9. CASE UNCHANGED vars
  BY <1>9 DEF vars, setting, peerVars, timer, lookup
<1> QED BY <1>1, <1>2, <1>3, <1>4, <1>5, <1>6, <1>7, <1>8, <1>9 DEF Next

\* A lookup's answer is kept.
LEMMA HeldStep == PInv /\ [Next]_vars => Held'
<1> SUFFICES ASSUME PInv, [Next]_vars PROVE Held'
  OBVIOUS
<1> USE DEF PInv, TypeOK, Timer, Held
<1>1. ASSUME NEW c \in Peers, Arrive(c) PROVE Held'
  BY <1>1 DEF Arrive, setting, timer, lookup
<1>2. CASE Leave \/ Accept \/ Acquire \/ AcquireFails \/ Close
  BY <1>2 DEF Leave, Accept, Acquire, AcquireFails, Close, setting,
     peerVars, timer, lookup
<1>3. CASE GetPeerAddr \/ ConvertAddress \/ FreeAddress
  BY <1>3 DEF GetPeerAddr, ConvertAddress, FreeAddress, setting, peerVars,
     timer, lookup
<1>4. CASE GetPeerNetworkIdLocal \/ GetPeerNetworkId \/ FreeId
  BY <1>4 DEF GetPeerNetworkIdLocal, GetPeerNetworkId, FreeId, setting,
     peerVars, timer
<1>5. CASE Proceed
  BY <1>5 DEF Proceed, AlarmOn, Setjmp, AlarmOff, Compose, ComposeNoMem,
     setting, peerVars, timer, lookup
<1>6. ASSUME NEW h \in {"NULL", "name"}, Answer(h) PROVE Held'
  BY <1>6 DEF Answer, setting, peerVars, timer
<1>7. ASSUME NEW install \in BOOLEAN, ProgramAlarm(install) PROVE Held'
  BY <1>7 DEF ProgramAlarm, setting, peerVars, lookup
<1>8. CASE Signal
  BY <1>8 DEF Signal, Jump, JumpAstray, ProgramHandler, Due, Kept, setting,
     peerVars, lookup
<1>9. CASE UNCHANGED vars
  BY <1>9 DEF vars, setting, peerVars, timer, lookup
<1> QED BY <1>1, <1>2, <1>3, <1>4, <1>5, <1>6, <1>7, <1>8, <1>9 DEF Next

\* ConvertAddress stays within its buffer.
LEMMA BufferHoldsStep == PInv /\ [Next]_vars => BufferHolds'
<1> SUFFICES ASSUME PInv, [Next]_vars PROVE BufferHolds'
  OBVIOUS
<1> USE DEF PInv, TypeOK, BufferHolds
<1>1. ASSUME NEW c \in Peers, Arrive(c) PROVE BufferHolds'
  BY <1>1 DEF Arrive, setting, timer, lookup
<1>2. CASE Leave \/ Accept \/ Acquire \/ AcquireFails \/ Close
  BY <1>2 DEF Leave, Accept, Acquire, AcquireFails, Close, setting,
     peerVars, timer, lookup
<1>3. CASE GetPeerAddr
  BY <1>3 DEF GetPeerAddr, SizeOf
<1>4. CASE ConvertAddress
  <2>1. hlen \in Nat
    BY PeerAssumption
  <2> QED BY <1>4, <2>1, Converted DEF ConvertAddress, Buffer
<1>5. CASE FreeAddress
  BY <1>5 DEF FreeAddress, NoConv
<1>6. CASE GetPeerNetworkIdLocal \/ GetPeerNetworkId \/ FreeId
  BY <1>6 DEF GetPeerNetworkIdLocal, GetPeerNetworkId, FreeId, setting,
     peerVars, timer
<1>7. CASE Proceed
  BY <1>7 DEF Proceed, AlarmOn, Setjmp, AlarmOff, Compose, ComposeNoMem,
     setting, peerVars, timer, lookup
<1>8. ASSUME NEW h \in {"NULL", "name"}, Answer(h) PROVE BufferHolds'
  BY <1>8 DEF Answer, setting, peerVars, timer
<1>9. ASSUME NEW install \in BOOLEAN, ProgramAlarm(install) PROVE BufferHolds'
  BY <1>9 DEF ProgramAlarm, setting, peerVars, lookup
<1>10. CASE Signal
  BY <1>10 DEF Signal, Jump, JumpAstray, ProgramHandler, Due, Kept,
     setting, peerVars, lookup
<1>11. CASE UNCHANGED vars
  BY <1>11 DEF vars, setting, peerVars, timer, lookup
<1> QED BY <1>1, <1>2, <1>3, <1>4, <1>5, <1>6, <1>7, <1>8, <1>9, <1>10,
           <1>11 DEF Next

\* The family it reports is that of the peer.
LEMMA SameOverAllStep == PInv /\ [Next]_vars => SameOverAll'
<1> SUFFICES ASSUME PInv, [Next]_vars PROVE SameOverAll'
  OBVIOUS
<1> USE DEF PInv, TypeOK, SameOverAll, Attached
<1>1. ASSUME NEW c \in Peers, Arrive(c) PROVE SameOverAll'
  BY <1>1 DEF Arrive, setting, timer, lookup
<1>2. CASE Leave \/ Accept \/ Acquire \/ AcquireFails \/ Close
  BY <1>2 DEF Leave, Accept, Acquire, AcquireFails, Close, setting,
     peerVars, timer, lookup
<1>3. CASE GetPeerAddr \/ FreeAddress
  BY <1>3 DEF GetPeerAddr, FreeAddress, setting, peerVars, timer, lookup
<1>4. CASE ConvertAddress
  <2>1. hlen \in Nat
    BY PeerAssumption
  <2>2. conv.family = listener
    BY <1>4 DEF ConvertAddress, Buffer
  <2>3. IsLocal => conv'.family = "FamilyLocal"
    BY <1>4, <2>1, Converted DEF ConvertAddress, Buffer
  <2>4. ~IsLocal => conv' = Internet
    BY <1>4, <2>1, Converted DEF ConvertAddress, Buffer
  <2>5. IsLocal <=> client \in {"local", "loopback4", "loopback6"}
    BY <1>4, <2>2 DEF ConvertAddress, IsLocal, Mapped
  <2>6. ~IsLocal => Internet.family =
          IF client = "host4" THEN "FamilyInternet" ELSE "FamilyInternet6"
    BY <1>4, <2>2, <2>5 DEF ConvertAddress, Internet, Mapped
  <2>7. client' = client
    BY <1>4 DEF ConvertAddress, peerVars
  <2> QED BY <2>3, <2>4, <2>5, <2>6, <2>7
<1>5. CASE GetPeerNetworkIdLocal \/ GetPeerNetworkId \/ FreeId
  BY <1>5 DEF GetPeerNetworkIdLocal, GetPeerNetworkId, FreeId, setting,
     peerVars, timer
<1>6. CASE Proceed
  BY <1>6 DEF Proceed, AlarmOn, Setjmp, AlarmOff, Compose, ComposeNoMem,
     setting, peerVars, timer, lookup
<1>7. ASSUME NEW h \in {"NULL", "name"}, Answer(h) PROVE SameOverAll'
  BY <1>7 DEF Answer, setting, peerVars, timer
<1>8. ASSUME NEW install \in BOOLEAN, ProgramAlarm(install) PROVE SameOverAll'
  BY <1>8 DEF ProgramAlarm, setting, peerVars, lookup
<1>9. CASE Signal
  BY <1>9 DEF Signal, Jump, JumpAstray, ProgramHandler, Due, Kept, setting,
     peerVars, lookup
<1>10. CASE UNCHANGED vars
  BY <1>10 DEF vars, setting, peerVars, timer, lookup
<1> QED BY <1>1, <1>2, <1>3, <1>4, <1>5, <1>6, <1>7, <1>8, <1>9, <1>10 DEF
           Next

\* The answer gets into the identifier.
LEMMA NameIfAnsweredStep == PInv /\ [Next]_vars => NameIfAnswered'
<1> SUFFICES ASSUME PInv, [Next]_vars PROVE NameIfAnswered'
  OBVIOUS
<1> USE DEF PInv, TypeOK, Held, Timer, NameIfAnswered
<1>1. ASSUME NEW c \in Peers, Arrive(c) PROVE NameIfAnswered'
  BY <1>1 DEF Arrive, setting, timer, lookup
<1>2. CASE Leave \/ Accept \/ Acquire \/ AcquireFails \/ Close
  BY <1>2 DEF Leave, Accept, Acquire, AcquireFails, Close, setting,
     peerVars, timer, lookup
<1>3. CASE GetPeerAddr \/ ConvertAddress \/ FreeAddress
  BY <1>3 DEF GetPeerAddr, ConvertAddress, FreeAddress, setting, peerVars,
     timer, lookup
<1>4. CASE GetPeerNetworkIdLocal \/ GetPeerNetworkId \/ FreeId
  BY <1>4 DEF GetPeerNetworkIdLocal, GetPeerNetworkId, FreeId, setting,
     peerVars, timer
<1>5. CASE Proceed
  BY <1>5 DEF Proceed, AlarmOn, Setjmp, AlarmOff, Compose, ComposeNoMem,
     setting, peerVars, timer, lookup
<1>6. ASSUME NEW h \in {"NULL", "name"}, Answer(h) PROVE NameIfAnswered'
  BY <1>6 DEF Answer, setting, peerVars, timer
<1>7. ASSUME NEW install \in BOOLEAN, ProgramAlarm(install) PROVE NameIfAnswered'
  BY <1>7 DEF ProgramAlarm, setting, peerVars, lookup
<1>8. CASE Signal
  BY <1>8 DEF Signal, Jump, JumpAstray, ProgramHandler, Due, Kept, setting,
     peerVars, lookup
<1>9. CASE UNCHANGED vars
  BY <1>9 DEF vars, setting, peerVars, timer, lookup
<1> QED BY <1>1, <1>2, <1>3, <1>4, <1>5, <1>6, <1>7, <1>8, <1>9 DEF Next

\* The handler of the call's alarm finds its frame.
LEMMA JumpsHomeStep == PInv /\ [Next]_vars => JumpsHome'
<1> SUFFICES ASSUME PInv, [Next]_vars PROVE JumpsHome'
  OBVIOUS
<1> USE DEF PInv, TypeOK, Timer, JumpsHome
<1>1. ASSUME NEW c \in Peers, Arrive(c) PROVE JumpsHome'
  BY <1>1 DEF Arrive, setting, timer, lookup
<1>2. CASE Leave \/ Accept \/ Acquire \/ AcquireFails \/ Close
  BY <1>2 DEF Leave, Accept, Acquire, AcquireFails, Close, setting,
     peerVars, timer, lookup
<1>3. CASE GetPeerAddr \/ ConvertAddress \/ FreeAddress
  BY <1>3 DEF GetPeerAddr, ConvertAddress, FreeAddress, setting, peerVars,
     timer, lookup
<1>4. CASE GetPeerNetworkIdLocal \/ GetPeerNetworkId \/ FreeId
  BY <1>4 DEF GetPeerNetworkIdLocal, GetPeerNetworkId, FreeId, setting,
     peerVars, timer
<1>5. CASE Proceed
  BY <1>5 DEF Proceed, AlarmOn, Setjmp, AlarmOff, Compose, ComposeNoMem,
     setting, peerVars, timer, lookup
<1>6. ASSUME NEW h \in {"NULL", "name"}, Answer(h) PROVE JumpsHome'
  BY <1>6 DEF Answer, setting, peerVars, timer
<1>7. ASSUME NEW install \in BOOLEAN, ProgramAlarm(install) PROVE JumpsHome'
  BY <1>7 DEF ProgramAlarm, setting, peerVars, lookup
<1>8. CASE Signal
  BY <1>8 DEF Signal, Jump, JumpAstray, ProgramHandler, Due, Kept, setting,
     peerVars, lookup
<1>9. CASE UNCHANGED vars
  BY <1>9 DEF vars, setting, peerVars, timer, lookup
<1> QED BY <1>1, <1>2, <1>3, <1>4, <1>5, <1>6, <1>7, <1>8, <1>9 DEF Next

-----------------------------------------------------------------------------
(* The theorems.                                                           *)

\* The inductive invariant holds in every state of the accepting server.
THEOREM PInvHolds == Spec => []PInv
<1>1. PInv /\ [Next]_vars => PInv'
  BY TypeStep, OwnsStep, AttachedStep, BufferStep, TimerStep, HeldStep,
     BufferHoldsStep, SameOverAllStep, NameIfAnsweredStep, JumpsHomeStep
     DEF PInv
<1> QED BY PInvInit, <1>1, PTL DEF Spec

\* Every variable of the accepting server keeps its type.
THEOREM TypeOKHolds == Spec => []TypeOK
<1>1. PInv => TypeOK
  BY DEF PInv
<1> QED BY PInvHolds, <1>1, PTL

\* Accept leaves the process with a whole connection or with nothing,
\* wherever it fails, and Close gives everything back.
THEOREM AllOrNothingHolds == Spec => []AllOrNothing
<1>1. PInv => AllOrNothing
  BY DEF PInv, AllOrNothing, Owns, All
<1> QED BY PInvHolds, <1>1, PTL

\* ConvertAddress writes within its buffer for a host name of any length.
THEOREM BufferHoldsHolds == Spec => []BufferHolds
<1>1. PInv => BufferHolds
  BY DEF PInv
<1> QED BY PInvHolds, <1>1, PTL

\* ConvertAddress tells the same of a peer over every kind of listener.
THEOREM SameOverAllHolds == Spec => []SameOverAll
<1>1. PInv => SameOverAll
  BY DEF PInv
<1> QED BY PInvHolds, <1>1, PTL

\* GetPeerNetworkId uses an answer it has got, whenever the alarm goes off.
THEOREM NameIfAnsweredHolds == Spec => []NameIfAnswered
<1>1. PInv => NameIfAnswered
  BY DEF PInv
<1> QED BY PInvHolds, <1>1, PTL

\* The alarm of GetPeerNetworkId does not go off after the call.
THEOREM JumpsHomeHolds == Spec => []JumpsHome
<1>1. PInv => JumpsHome
  BY DEF PInv
<1> QED BY PInvHolds, <1>1, PTL
=============================================================================
