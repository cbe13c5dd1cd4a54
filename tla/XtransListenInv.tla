--------------------------- MODULE XtransListenInv ---------------------------
(***************************************************************************)
(* What holds of every single process of XtransListen, whatever the others *)
(* do: the types, and Local(s), the invariant of the table walk of         *)
(* MakeAllCOTSServerListeners and of what the process does with its        *)
(* listeners afterwards.  XtransListenProofs builds on it what the         *)
(* processes do to each other.                                             *)
(*                                                                         *)
(* The proof goes by conjunct: for every conjunct a lemma Step... shows    *)
(* that no step of the process breaks it, with a case for each action that *)
(* could, and one for all the others; a step touches no other process      *)
(* (StepOthers), so theirs hold on (SameLocal).                            *)
(***************************************************************************)
EXTENDS XtransListen, FiniteSetTheorems, SequenceTheorems, TLAPS

-----------------------------------------------------------------------------
(* Types.                                                                  *)

Labels ==
  {"idle", "receive", "unreceived", "loop", "unlink", "bind", "listen",
   "abort", "abort_unlink", "failed", "overrun", "up", "down",
   "close_unlink", "reset_unlink", "reset_bind", "reset_listen", "gone"}

\* Before the walk; in an entry of the table; after EADDRINUSE; in the walk
\* at all; in a reset.
Early == {"idle", "receive", "unreceived", "gone"}
Making == {"unlink", "bind", "listen"}
Aborting == {"abort", "abort_unlink"}
Walking == {"loop"} \union Making \union Aborting
Resetting == {"reset_unlink", "reset_bind", "reset_listen"}

FlagNames == {"ALIAS", "NOLISTEN", "ABSTRACT", "RECEIVED"}

\* The listeners that were received.
Listeners ==
  [kind : Kinds \ {"other"}, at : {"passed", "auto", "cwd"}, clipped : BOOLEAN]

ControlType ==
  /\ pc \in [Servers -> Labels]
  /\ i \in [Servers -> 1 .. 6]
  /\ \A s \in Servers : pc[s] \in Making \union Aborting => i[s] <= 5
  /\ temp \in [Servers -> SUBSET Transports]
  /\ victim \in [Servers -> Transports]
  /\ oom \in [Servers -> BOOLEAN]

\* "auto" is the name of a socket, never the address a listener keeps.
SocketType ==
  /\ sock \in [Servers -> [Transports ->
                             {"none", "open", "bound", "listening"}]]
  /\ at \in [Servers -> [Transports -> {"none", "port", "abstract", "path",
                                        "any", "auto"}]]
  /\ addr \in [Servers -> [Transports -> {"none", "port", "abstract", "path"}]]
  /\ clipped \in [Servers -> SUBSET Transports]
  /\ path \in {NoFile} \union (Servers \X (Transports \union {"passed"}))

FlagType ==
  /\ flags \in [Servers -> [Transports -> SUBSET FlagNames]]
  /\ partial \in [Servers -> BOOLEAN]
  /\ umask \in [Servers -> {"user", "zero"}]
  /\ oldUmask \in [Servers -> {"user", "zero"}]

ReceivedType ==
  /\ units \in [Servers -> Units]
  /\ recv \in [Servers -> Seq(Listeners)]
  /\ inCwd \in [Servers -> BOOLEAN]

Types == ControlType /\ SocketType /\ FlagType /\ ReceivedType

-----------------------------------------------------------------------------
(* The invariant of one process.                                           *)

\* The position in the table, written out for the provers.
Place(t) ==
  CASE t = "tcp" -> 1 [] t = "inet6" -> 2 [] t = "inet" -> 3
    [] t = "local" -> 4 [] t = "unix" -> 5

\* Nothing has been made yet.
Bare(s) ==
  /\ i[s] = 1 /\ temp[s] = {}
  /\ \A t \in Transports : at[s][t] = "none"

UnitTrans(s) == {TransOf(units[s][k]) : k \in 1 .. Len(units[s])}

\* What each flag tells of its transport.
FlagsOk(s) ==
  /\ \A t \in Transports : "ALIAS" \in flags[s][t] <=> t = "tcp"
  /\ \A t \in Transports : "ABSTRACT" \in flags[s][t] => t = "local"
  /\ "client" \notin Faults => "ABSTRACT" \in flags[s]["local"]
  /\ \A t \in Transports : "NOLISTEN" \in flags[s][t] =>
       \E p \in Configurable : t \in {p} \union NolistenOf(p)
  /\ \A t \in Transports : "RECEIVED" \in flags[s][t] => t \in UnitTrans(s)

\* The walk makes listeners of transports that it does not skip.
Chosen(s) ==
  /\ \A t \in temp[s] : ~Skipped(flags[s], t)
  /\ pc[s] \in Making => ~Skipped(flags[s], Cur(s))

\* The transport of a received listener has the flag; during the call they
\* are a prefix of what was handed over, and the walk begins after the last.
ReceivedOk(s) ==
  /\ \A k \in 1 .. Len(recv[s]) :
       "RECEIVED" \in flags[s][TransOf(recv[s][k].kind)]
  /\ pc[s] \in {"idle", "gone"} => recv[s] = <<>>
  /\ pc[s] \in {"receive", "loop"} \union Making =>
       /\ Len(recv[s]) <= Len(units[s])
       /\ \A k \in 1 .. Len(recv[s]) : recv[s][k].kind = units[s][k]
  /\ pc[s] \in {"loop"} \union Making => ~HasUnit(s)

\* A name is held only for an entry of the table that the walk has passed.
Passed(s) ==
  /\ pc[s] \in Early => Bare(s)
  /\ pc[s] \in Walking \union {"failed"} =>
       /\ \A t \in temp[s] : Place(t) < i[s]
       /\ \A t \in Transports : at[s][t] # "none" =>
            Place(t) < i[s] \/ (pc[s] = "listen" /\ t = Cur(s))

\* The names held are those of the listeners in temp_ciptrs, so that closing
\* these gives up all of them, unless memory ran out.
Holds(s) ==
  /\ pc[s] \in Walking /\ ~oom[s] =>
       \A t \in Transports : at[s][t] # "none" =>
         t \in temp[s] \/ (pc[s] = "listen" /\ t = Cur(s))
  /\ pc[s] = "failed" /\ ~oom[s] =>
       /\ i[s] <= 5 /\ recv[s] = <<>>
       /\ \A t \in Transports : at[s][t] = "none"

\* A socket has a name of its transport's.
Bound(s) ==
  /\ \A t \in Transports : at[s][t] = "port" => ~IsUnix(t)
  /\ \A t \in Transports : at[s][t] = "abstract" => t = "local"
  /\ pc[s] = "unlink" => NameOf(s, Cur(s)) = "path"
  /\ pc[s] \in Making /\ IsUnix(Cur(s)) =>
       at[s][Cur(s)] = IF pc[s] = "listen" THEN NameOf(s, Cur(s)) ELSE "none"
  /\ pc[s] = "listen" /\ Cur(s) = "inet6" => at[s]["inet6"] = "port"

\* The listeners that are kept have the address and the name they were made
\* with, up to a reset.
Kept(s) ==
  /\ \A t \in temp[s] : IsUnix(t) /\ at[s][t] = "path" => addr[s][t] = "path"
  /\ \A t \in temp[s] : IsUnix(t) /\ sock[s][t] = "listening" =>
       at[s][t] \in {"path", "abstract", "auto"}
  /\ "inet6" \in temp[s] =>
       sock[s]["inet6"] = "listening" /\ at[s]["inet6"] = "port"
  /\ "local" \in temp[s] /\ Abstract(s, "local") => at[s]["local"] = "abstract"

\* The listener that is reset, or was closed in an abort, is one of a path.
Victim(s) ==
  /\ pc[s] \in Resetting =>
       /\ IsUnix(victim[s]) /\ victim[s] \in temp[s]
       /\ ~Abstract(s, victim[s])
  /\ pc[s] = "reset_listen" => at[s][victim[s]] \in {"path", "auto"}
  /\ pc[s] = "abort_unlink" =>
       /\ IsUnix(victim[s]) /\ ~Abstract(s, victim[s])
       /\ Place(victim[s]) < i[s]

\* The walk has gone past the bind of the local transport.
PastLocal(s) ==
  \/ pc[s] \in {"up"} \union Resetting
  \/ pc[s] \in {"loop"} \union Making /\ i[s] >= 5
  \/ pc[s] = "listen" /\ i[s] = 4

\* What it takes to get past it.
HasLocal(s) ==
  LocalWorks /\ PastLocal(s) /\ Enabled(s, "local") =>
    at[s]["local"] = "abstract" \/ "RECEIVED" \in flags[s]["local"]

\* What *partial = 0 says of the two names that exclude other servers.
Complete(s) ==
  PlainUnits /\ pc[s] \in {"up"} \union Resetting /\ ~partial[s] =>
    \A t \in {"inet6", "local"} : Enabled(s, t) =>
      t \in temp[s] \/ t \in UnitTrans(s) \/ (t = "local" /\ ~Abstract(s, t))

\* What it takes to write past temp_ciptrs.
Fits(s) == pc[s] = "overrun" => Surplus(s) >= 2

Local(s) ==
  /\ FlagsOk(s) /\ Chosen(s) /\ ReceivedOk(s)
  /\ Passed(s) /\ Holds(s) /\ Bound(s) /\ Kept(s) /\ Victim(s)
  /\ HasLocal(s) /\ Complete(s) /\ Fits(s)

Locals == Types /\ \A s \in Servers : Local(s)

\* A step of process s.
Step(s) ==
  \/ \E p \in Configurable : NoListen(s, p)
  \/ \E p \in Configurable : Listen(s, p)
  \/ Start(s) \/ MakeListeners(s) \/ Serve(s) \/ Exit(s)

\* Nothing of process o changes.
Same(o) ==
  /\ pc'[o] = pc[o] /\ i'[o] = i[o] /\ temp'[o] = temp[o]
  /\ partial'[o] = partial[o]
  /\ flags'[o] = flags[o] /\ sock'[o] = sock[o] /\ at'[o] = at[o]
  /\ addr'[o] = addr[o] /\ clipped'[o] = clipped[o] /\ umask'[o] = umask[o]
  /\ oldUmask'[o] = oldUmask[o] /\ victim'[o] = victim[o]
  /\ recv'[o] = recv[o] /\ inCwd'[o] = inCwd[o] /\ oom'[o] = oom[o]

Others(s) == units' = units /\ \A o \in Servers \ {s} : Same(o)

-----------------------------------------------------------------------------
(* The operators of the model.                                             *)

\* The table has five entries, and Place is the position in it.
LEMMA Table ==
  /\ NUMTRANS = 5
  /\ \A n \in 1 .. 5 :
       Xtransports[n] \in Transports /\ Place(Xtransports[n]) = n
  BY DEF NUMTRANS, Xtransports, Transports, Place

\* Inside the table, Cur is a transport and its place is the index.
LEMMA CurIn ==
  ASSUME Types, NEW s \in Servers, i[s] <= NUMTRANS
  PROVE  Cur(s) \in Transports /\ Place(Cur(s)) = i[s]
<1>1. i[s] \in 1 .. 5
  BY Table DEF Types, ControlType
<1>2. QED
  BY <1>1, Table DEF Cur

\* A listener is made under a port, an abstract name or a path.
LEMMA NameIn ==
  \A s, t : NameOf(s, t) \in {"port", "abstract", "path"}
  BY DEF NameOf

\* The compiled flags are flags.
LEMMA InitialFlagsIn == InitialFlags \in [Transports -> SUBSET FlagNames]
  BY DEF InitialFlags, FlagNames

\* While there is a socket to receive, NextUnit is one of those handed over.
LEMMA UnitIn ==
  ASSUME Types, NEW s \in Servers, HasUnit(s)
  PROVE  NextUnit(s) \in Kinds /\ Len(recv[s]) + 1 \in 1 .. Len(units[s])
<1>1. units[s] \in Seq(Kinds) /\ recv[s] \in Seq(Listeners)
  BY UnitsAssumption DEF Types, ReceivedType
<1>2. QED
  BY <1>1 DEF HasUnit, NextUnit

\* A socket of a known family belongs to a transport that is no alias.
LEMMA TransIn ==
  ASSUME NEW kind \in Kinds \ {"other"}
  PROVE  TransOf(kind) \in Transports \ {"tcp"}
  BY DEF Kinds, TransOf, Transports

\* Two transports have different places.
LEMMA Places ==
  /\ \A t \in Transports : Place(t) \in 1 .. 5
  /\ \A t, u \in Transports : Place(t) = Place(u) => t = u
<1>1. Place("tcp") = 1 /\ Place("inet6") = 2 /\ Place("inet") = 3
      /\ Place("local") = 4 /\ Place("unix") = 5
  BY DEF Place
<1>2. QED
  BY <1>1 DEF Transports

\* A received listener belongs to a transport that is no alias.
LEMMA RecvIn ==
  ASSUME Types, NEW s \in Servers, NEW k \in 1 .. Len(recv[s])
  PROVE  /\ recv[s][k].kind \in Kinds \ {"other"}
         /\ TransOf(recv[s][k].kind) \in Transports \ {"tcp"}
<1>1. recv[s][k] \in Listeners
  BY DEF Types, ReceivedType
<1>2. recv[s][k].kind \in Kinds \ {"other"}
  BY <1>1 DEF Listeners
<1>3. QED
  BY <1>2, TransIn

\* Going on to the next entry keeps what is made behind the index.
LEMMA OnwardPassed ==
  ASSUME Types, NEW s \in Servers, Passed(s),
         pc[s] \in {"loop"} \union Making, i[s] <= 5, Continue(s),
         \A t \in temp'[s] : t \in temp[s] \/ t = Cur(s),
         \A t \in Transports :
           at'[s][t] = "none" \/ at'[s][t] = at[s][t] \/ t = Cur(s)
  PROVE  Passed(s)'
<1>1. i[s] \in 1 .. 5 /\ i'[s] = i[s] + 1 /\ pc'[s] = "loop"
  BY DEF Types, ControlType, Continue, Goto
<1>2. Cur(s) \in Transports /\ Place(Cur(s)) = i[s]
  BY CurIn, <1>1, Table
<1>3. \A t \in temp[s] : Place(t) \in 1 .. 5 /\ Place(t) < i[s]
  BY Places DEF Types, ControlType, Passed, Walking
<1>4. \A t \in Transports : at[s][t] # "none" =>
        \/ Place(t) \in 1 .. 5 /\ Place(t) < i[s]
        \/ t = Cur(s)
  BY Places DEF Passed, Walking
<1>5. \A t \in temp'[s] : Place(t) < i'[s]
  BY <1>1, <1>2, <1>3
<1>6. \A t \in Transports : at'[s][t] # "none" => Place(t) < i'[s]
  BY <1>1, <1>2, <1>4
<1>7. QED
  BY <1>1, <1>5, <1>6 DEF Passed, Early

\* Four transports are no aliases.
LEMMA FiniteTransports ==
  IsFiniteSet(Transports) /\ Cardinality(Transports \ {"tcp"}) = 4
<1> DEFINE A == {"unix"}
           B == A \union {"local"}
           C == B \union {"inet"}
           D == C \union {"inet6"}
<1>1. IsFiniteSet(A) /\ Cardinality(A) = 1
  BY FS_Singleton
<1>2. IsFiniteSet(B) /\ Cardinality(B) = 2
  BY <1>1, FS_AddElement
<1>3. IsFiniteSet(C) /\ Cardinality(C) = 3
  BY <1>2, FS_AddElement
<1>4. IsFiniteSet(D) /\ Cardinality(D) = 4
  BY <1>3, FS_AddElement
<1>5. D = Transports \ {"tcp"} /\ Transports = D \union {"tcp"}
  BY DEF Transports
<1>6. QED
  BY <1>4, <1>5, FS_AddElement

\* A count of 0 means that there is no listener.
LEMMA NoListeners ==
  ASSUME Types, NEW s \in Servers, Count(s) = 0
  PROVE  recv[s] = <<>> /\ temp[s] = {}
<1>1. IsFiniteSet(temp[s])
  BY FiniteTransports, FS_Subset DEF Types, ControlType
<1>2. /\ Cardinality(temp[s]) \in Nat
      /\ Cardinality(temp[s]) = 0 => temp[s] = {}
  BY <1>1, FS_CardinalityType, FS_EmptySet
<1>3. recv[s] \in Seq(Listeners)
  BY DEF Types, ReceivedType
<1>4. QED
  BY <1>2, <1>3 DEF Count

\* What the transport structures are compiled with.
LEMMA InitialFlagsOk ==
  \A t \in Transports :
    /\ "ALIAS" \in InitialFlags[t] <=> t = "tcp"
    /\ "ABSTRACT" \in InitialFlags[t] <=> t = "local"
    /\ {"NOLISTEN", "RECEIVED"} \intersect InitialFlags[t] = {}
  BY DEF InitialFlags

\* Every element of a is one of q.
From(a, q) == \A j \in 1 .. Len(a) : \E n \in 1 .. Len(q) : a[j] = q[n]

\* A concatenation has the elements of its parts.
LEMMA ConcatFrom ==
  ASSUME NEW S, NEW q, NEW a \in Seq(S), NEW b \in Seq(S),
         From(a, q), From(b, q)
  PROVE  a \o b \in Seq(S) /\ From(a \o b, q)
<1>1. /\ a \o b \in Seq(S) /\ Len(a \o b) = Len(a) + Len(b)
      /\ \A j \in 1 .. Len(a) + Len(b) :
           (a \o b)[j] = IF j <= Len(a) THEN a[j] ELSE b[j - Len(a)]
  BY ConcatProperties, Zenon
<1>2. ASSUME NEW j \in 1 .. Len(a) + Len(b)
      PROVE  \E n \in 1 .. Len(q) : (a \o b)[j] = q[n]
  <2>1. CASE j <= Len(a)
    <3>1. j \in 1 .. Len(a) /\ (a \o b)[j] = a[j]
      BY <1>1, <2>1
    <3>2. QED
      BY <3>1 DEF From
  <2>2. CASE ~(j <= Len(a))
    <3>1. j - Len(a) \in 1 .. Len(b) /\ (a \o b)[j] = b[j - Len(a)]
      BY <1>1, <2>2
    <3>3. QED
      BY <3>1 DEF From
  <2>3. QED
    BY <2>1, <2>2
<1>3. QED
  BY <1>1, <1>2 DEF From

\* Leaving an element out of a sequence leaves elements of it.
LEMMA DropNth ==
  ASSUME NEW S, NEW q \in Seq(S), NEW k \in 1 .. Len(q)
  PROVE  LET r == SubSeq(q, 1, k - 1) \o SubSeq(q, k + 1, Len(q))
         IN  r \in Seq(S) /\ From(r, q)
<1> DEFINE a == SubSeq(q, 1, k - 1)
           b == SubSeq(q, k + 1, Len(q))
<1>1. a \in Seq(S) /\ b \in Seq(S)
  OBVIOUS
<1>2. From(a, q)
  BY DEF From
<1>3. From(b, q)
  <2>1. \A j \in 1 .. Len(b) : b[j] = q[j + k] /\ j + k \in 1 .. Len(q)
    OBVIOUS
  <2>2. QED
    BY <2>1, Zenon DEF From
<1> HIDE DEF a, b
<1>4. a \o b \in Seq(S) /\ From(a \o b, q)
  BY <1>1, <1>2, <1>3, ConcatFrom, Zenon
<1>5. QED
  BY <1>4 DEF a, b

\* DropReceived leaves listeners that were there.
LEMMA DropReceivedFrom ==
  ASSUME Types, NEW s \in Servers, NEW k \in 1 .. Len(recv[s]),
         DropReceived(s, k)
  PROVE  /\ recv' \in [Servers -> Seq(Listeners)] /\ From(recv'[s], recv[s])
         /\ \A o \in Servers \ {s} : recv'[o] = recv[o]
<1> DEFINE r == SubSeq(recv[s], 1, k - 1)
                  \o SubSeq(recv[s], k + 1, Len(recv[s]))
<1>1. recv[s] \in Seq(Listeners)
  BY DEF Types, ReceivedType
<1>2. r \in Seq(Listeners) /\ From(r, recv[s])
  BY <1>1, DropNth, Zenon
<1>3. recv' = [recv EXCEPT ![s] = r]
  BY DEF DropReceived
<1> HIDE DEF r
<1>4. QED
  BY <1>2, <1>3 DEF Types, ReceivedType

\* A listener stays one when an accept cuts its address down.
LEMMA ClippedIn ==
  ASSUME NEW r \in Listeners
  PROVE  [r EXCEPT !.clipped = TRUE] \in Listeners
  BY Zenon DEF Listeners

\* A listener stays one when a reset gives it another name.
LEMMA NameAtIn ==
  ASSUME NEW r \in Listeners, NEW name \in {"passed", "auto", "cwd"}
  PROVE  [r EXCEPT !.at = name] \in Listeners
  BY DEF Listeners

\* Without a client in the process the local transport stays abstract.
LEMMA LocalAbstract ==
  ASSUME NEW s \in Servers, FlagsOk(s), LocalWorks
  PROVE  Abstract(s, "local")
  BY DEF FlagsOk, LocalWorks, Abstract

\* The listeners made and those received are of different transports.
LEMMA Apart ==
  ASSUME Types, NEW s \in Servers, Local(s)
  PROVE  /\ temp[s] \subseteq Transports \ {"tcp"}
         /\ ReceivedTrans(s) \subseteq Transports \ {"tcp"}
         /\ temp[s] \intersect ReceivedTrans(s) = {}
         /\ IsFiniteSet(temp[s]) /\ IsFiniteSet(ReceivedTrans(s))
         /\ IsFiniteSet(temp[s] \union ReceivedTrans(s))
         /\ Cardinality(temp[s]) \in Nat
         /\ Cardinality(ReceivedTrans(s)) \in Nat
         /\ Cardinality(temp[s] \union ReceivedTrans(s))
              = Cardinality(temp[s]) + Cardinality(ReceivedTrans(s))
<1>1. \A t \in ReceivedTrans(s) :
        t \in Transports \ {"tcp"} /\ "RECEIVED" \in flags[s][t]
  BY RecvIn DEF ReceivedTrans, ReceivedKinds, Local, ReceivedOk
<1>2. \A t \in temp[s] :
        t \in Transports \ {"tcp"} /\ "RECEIVED" \notin flags[s][t]
  BY DEF Types, ControlType, Local, Chosen, FlagsOk, Skipped
<1>3. /\ IsFiniteSet(temp[s]) /\ IsFiniteSet(ReceivedTrans(s))
      /\ temp[s] \intersect ReceivedTrans(s) = {}
  <2>1. temp[s] \in SUBSET Transports /\ ReceivedTrans(s) \in SUBSET Transports
    BY <1>1, <1>2
  <2>2. QED
    BY <1>1, <1>2, <2>1, FiniteTransports, FS_Subset
<1>4. Cardinality(temp[s]) \in Nat /\ Cardinality(ReceivedTrans(s)) \in Nat
  BY <1>3, FS_CardinalityType
<1>5. /\ IsFiniteSet(temp[s] \union ReceivedTrans(s))
      /\ Cardinality(temp[s] \union ReceivedTrans(s))
              = Cardinality(temp[s]) + Cardinality(ReceivedTrans(s))
  <2>1. Cardinality(temp[s] \union ReceivedTrans(s))
          = Cardinality(temp[s]) + Cardinality(ReceivedTrans(s))
              - Cardinality({})
    BY <1>3, FS_Union
  <2>2. QED
    BY <1>3, <1>4, <2>1, FS_Union, FS_EmptySet
<1>6. QED
  BY <1>1, <1>2, <1>3, <1>4, <1>5

\* A count that is not too low leaves no transport out, if no transport was
\* received twice and none that is switched off.
LEMMA Truthful ==
  ASSUME Types, NEW s \in Servers, Local(s),
         Len(recv[s]) = Cardinality(ReceivedTrans(s)),
         \A t \in ReceivedTrans(s) : Enabled(s, t),
         ~(Count(s) < complete_network_count(flags[s]))
  PROVE  \A t \in Transports : Enabled(s, t) /\ "ALIAS" \notin flags[s][t] =>
            t \in temp[s] \union ReceivedTrans(s)
<1> DEFINE E == {t \in Transports :
                   {"ALIAS", "NOLISTEN"} \intersect flags[s][t] = {}}
           M == temp[s] \union ReceivedTrans(s)
<1>1. IsFiniteSet(E) /\ Cardinality(E) \in Nat
  BY FiniteTransports, FS_Subset, FS_CardinalityType
<1>2. M \in SUBSET E
  BY Apart DEF Enabled, Local, Chosen, Skipped, FlagsOk
<1>3. Cardinality(M) = Count(s) /\ Cardinality(M) \in Nat
  <2>1. /\ Cardinality(M)
             = Cardinality(temp[s]) + Cardinality(ReceivedTrans(s))
        /\ Cardinality(temp[s]) \in Nat
        /\ Cardinality(ReceivedTrans(s)) \in Nat
    BY Apart, Zenon
  <2> HIDE DEF M
  <2>2. QED
    BY <2>1 DEF Count
<1>4. Cardinality(E) <= Cardinality(M)
  BY <1>1, <1>3 DEF complete_network_count
<1>5. /\ Cardinality(M) <= Cardinality(E)
      /\ Cardinality(E) = Cardinality(M) => E = M
  BY <1>1, <1>2, FS_Subset
<1>6. E = M
  BY <1>1, <1>3, <1>4, <1>5
<1>7. QED
  BY <1>6 DEF Enabled

\* With plain units the received listeners are of different transports,
\* which are switched on.
LEMMA PlainCount ==
  ASSUME Types, NEW s \in Servers, Local(s), pc[s] = "loop", PlainUnits
  PROVE  /\ Len(recv[s]) = Cardinality(ReceivedTrans(s))
         /\ \A t \in ReceivedTrans(s) : Enabled(s, t) /\ t \in UnitTrans(s)
<1>1. /\ Len(recv[s]) \in Nat /\ Len(units[s]) \in Nat
      /\ Len(recv[s]) <= Len(units[s])
      /\ \A k \in 1 .. Len(recv[s]) :
           recv[s][k].kind = units[s][k] /\ k \in 1 .. Len(units[s])
  BY UnitsAssumption DEF Types, ReceivedType, Local, ReceivedOk
<1>2. units[s] \in Units
  BY DEF Types, ReceivedType
<1> DEFINE f == [k \in 1 .. Len(recv[s]) |-> TransOf(recv[s][k].kind)]
<1>3. f \in Surjection(1 .. Len(recv[s]), ReceivedTrans(s))
  BY DEF Surjection, ReceivedTrans, ReceivedKinds
<1>4. \A j, k \in 1 .. Len(recv[s]) : f[j] = f[k] => j = k
  BY <1>1, <1>2 DEF PlainUnits
<1>5. f \in Injection(1 .. Len(recv[s]), ReceivedTrans(s))
  BY <1>3, <1>4 DEF Injection, Surjection, IsInjective
<1>6. /\ IsFiniteSet(1 .. Len(recv[s]))
      /\ Cardinality(1 .. Len(recv[s])) = Len(recv[s])
  <2>1. /\ 1 \in Int /\ Len(recv[s]) \in Int
        /\ 1 > Len(recv[s]) <=> Len(recv[s]) = 0
    BY <1>1
  <2>2. /\ IsFiniteSet(1 .. Len(recv[s]))
        /\ Cardinality(1 .. Len(recv[s]))
             = IF 1 > Len(recv[s]) THEN 0 ELSE Len(recv[s]) - 1 + 1
    BY <2>1, FS_Interval, Zenon
  <2>3. QED
    BY <1>1, <2>1, <2>2
<1>7. Len(recv[s]) = Cardinality(ReceivedTrans(s))
  BY <1>3, <1>5, <1>6, FS_Surjection
<1>8. ASSUME NEW t \in ReceivedTrans(s)
      PROVE  Enabled(s, t) /\ t \in UnitTrans(s)
  <2>1. PICK k \in 1 .. Len(recv[s]) :
          t = TransOf(units[s][k]) /\ k \in 1 .. Len(units[s])
    BY <1>1 DEF ReceivedTrans, ReceivedKinds
  <2>2. \A p \in Configurable : t \notin {p} \union NolistenOf(p)
    BY <1>2, <2>1 DEF PlainUnits
  <2>3. t \in Transports
    BY Apart
  <2>4. QED
    BY <2>1, <2>2, <2>3 DEF UnitTrans, Enabled, Local, FlagsOk
<1>9. QED
  BY <1>7, <1>8

\* The end of the walk: *partial false means one listener per transport.
LEMMA FinishComplete ==
  ASSUME Types, NEW s \in Servers, Local(s), Finish(s)
  PROVE  Complete(s)'
<1>1. SUFFICES ASSUME PlainUnits, ~partial'[s],
                      NEW t \in {"inet6", "local"}, Enabled(s, t)
               PROVE  t \in temp[s] \/ t \in UnitTrans(s)
  BY DEF Complete, Finish, Enabled, UnitTrans, Abstract, walk, received
<1>2. pc[s] = "loop" /\ ~(Count(s) < complete_network_count(flags[s]))
  BY <1>1 DEF Finish, Types, FlagType
<1>3. t \in Transports /\ "ALIAS" \notin flags[s][t]
  BY DEF Transports, Local, FlagsOk
<1>4. QED
  BY <1>1, <1>2, <1>3, PlainCount, Truthful

\* temp_ciptrs overruns only when two sockets too many were received: the
\* listeners made and the transport that comes next are different ones of the
\* four that are no aliases.
LEMMA ListenOkFits ==
  ASSUME Types, NEW s \in Servers, Local(s), ListenOk(s)
  PROVE  Fits(s)'
<1>1. SUFFICES ASSUME pc'[s] = "overrun" PROVE Surplus(s) >= 2
  BY DEF Fits, Surplus, ReceivedTrans, ReceivedKinds, ListenOk, received
<1>2. pc[s] = "listen" /\ ~(Count(s) < 5)
  BY <1>1, Table DEF ListenOk, Keep, Continue, Goto, Types, ControlType
<1>3. /\ Cur(s) \in Transports \ {"tcp"} /\ Cur(s) \notin temp[s]
      /\ ~Skipped(flags[s], Cur(s))
  <2>1. Cur(s) \in Transports /\ Place(Cur(s)) = i[s] /\ i[s] \in 1 .. 5
    BY <1>2, CurIn, Table DEF Types, ControlType, Making
  <2>2. ~Skipped(flags[s], Cur(s)) /\ Cur(s) \notin temp[s]
    BY <1>2, <2>1 DEF Local, Chosen, Passed, Making, Walking
  <2>3. QED
    BY <2>1, <2>2 DEF Skipped, Local, FlagsOk
<1>4. Cur(s) \notin ReceivedTrans(s)
  BY <1>3, RecvIn DEF ReceivedTrans, ReceivedKinds, Local, ReceivedOk, Skipped
<1> DEFINE M == temp[s] \union ReceivedTrans(s)
<1>5. /\ Cardinality(M) = Cardinality(temp[s]) + Cardinality(ReceivedTrans(s))
      /\ Cardinality(temp[s]) \in Nat /\ Cardinality(ReceivedTrans(s)) \in Nat
      /\ IsFiniteSet(M)
  BY Apart, Zenon
<1>6. Cardinality(M \union {Cur(s)}) = Cardinality(M) + 1
  <2>1. Cur(s) \notin M
    BY <1>3, <1>4
  <2> HIDE DEF M
  <2>2. QED
    BY <1>5, <2>1, FS_AddElement
<1>7. Cardinality(M \union {Cur(s)}) <= 4
  <2>1. M \union {Cur(s)} \in SUBSET (Transports \ {"tcp"})
    BY <1>3, Apart
  <2>2. IsFiniteSet(Transports \ {"tcp"})
    BY FiniteTransports, FS_Subset
  <2>3. QED
    BY <2>1, <2>2, FiniteTransports, FS_Subset
<1> HIDE DEF M
<1>8. Cardinality(temp[s]) + Cardinality(ReceivedTrans(s)) <= 3
  BY <1>5, <1>6, <1>7
<1>9. Len(recv[s]) \in Nat
  BY DEF Types, ReceivedType
<1>10. QED
  BY <1>2, <1>5, <1>8, <1>9 DEF Count, Surplus

\* A reset of a received listener leaves listeners of kinds that were there.
LEMMA ResetReceivedKinds ==
  ASSUME Types, NEW s \in Servers, NEW k \in 1 .. Len(recv[s]),
         NEW outcome \in ResetOutcomes, ResetReceived(s, k, outcome)
  PROVE  /\ recv' \in [Servers -> Seq(Listeners)]
         /\ \A j \in 1 .. Len(recv'[s]) : \E n \in 1 .. Len(recv[s]) :
              recv'[s][j].kind = recv[s][n].kind
<1>1. recv[s] \in Seq(Listeners) /\ recv[s][k] \in Listeners
  BY DEF Types, ReceivedType
<1>2. CASE outcome = "ok"
  <2> DEFINE name == IF recv[s][k].clipped THEN "auto" ELSE "cwd"
             q == [recv[s] EXCEPT ![k].at = name]
  <2>1. recv' = [recv EXCEPT ![s] = q]
    BY <1>2 DEF ResetReceived, Types, ReceivedType
  <2>2. [recv[s][k] EXCEPT !.at = name] \in Listeners
    BY <1>1, NameAtIn
  <2>3. /\ q \in Seq(Listeners) /\ Len(q) = Len(recv[s])
        /\ \A j \in 1 .. Len(recv[s]) : j # k => q[j] = recv[s][j]
    BY <1>1, <2>2
  <2>4. q[k] = [recv[s][k] EXCEPT !.at = name]
    BY <1>1
  <2>5. q[k].kind = recv[s][k].kind
    BY <1>1, <2>4 DEF Listeners
  <2> HIDE DEF q
  <2>6. recv' \in [Servers -> Seq(Listeners)] /\ recv'[s] = q
    BY <2>1, <2>3 DEF Types, ReceivedType
  <2>7. QED
    BY <2>3, <2>5, <2>6
<1>3. CASE outcome # "ok"
  BY <1>3, DropReceivedFrom DEF ResetReceived, From
<1>4. QED
  BY <1>2, <1>3

\* A step of a process touches no other process.
LEMMA StepOthers ==
  ASSUME Types, NEW s \in Servers, Step(s)
  PROVE  Others(s)
<1>1. CASE MakeListeners(s)
  BY <1>1
     DEF Receive, ReceiveFails, ReceiveEnd, Skip, OpenFails, OpenCOTSServer,
         MkdirFails, PathTooLong, Unlink, Bind, BindAllowed, BindInUse,
         BindFails, ListenOk, ListenNoMem, ListenFails, AbortCloseReceived,
         AbortClose, AbortUnlink, AbortEnd, Finish, FinishNoMem, walk,
         sockets, masks, Goto, received, Continue, SetSock, ZeroMask,
         RestoreMask, Keep, CloseSocket, UnlinkAddr, MakeListeners, Types,
         ControlType, SocketType, FlagType, ReceivedType, Others, Same
<1>2. CASE Serve(s)
  BY <1>2
     DEF Close, CloseUnlink, CloseForCloning, Accept, ResetListener,
         ResetUnlink, ResetOpenFails, ResetBind, ResetBindFails, ResetListen,
         ResetListenFails, CloseReceived, AcceptReceived, ResetReceived,
         ConnectFallback, CloseSocket, Goto, masks, received, SetSock,
         UnlinkAddr, walk, sockets, ZeroMask, Forget, RestoreMask,
         DropReceived, Serve, Types, ControlType, SocketType, FlagType,
         ReceivedType, Others, Same
<1>3. CASE ~MakeListeners(s) /\ ~Serve(s)
  BY <1>3
     DEF NoListen, Listen, Start, Exit, walk, sockets, masks, received, Goto,
         Step, Types, ControlType, SocketType, FlagType, ReceivedType, Others,
         Same
<1>4. QED
  BY <1>1, <1>2, <1>3

\* Going on to the next entry keeps the control state in its types.
LEMMA OnwardControl ==
  ASSUME Types, NEW s \in Servers, i[s] <= 5, Continue(s),
         temp' \in [Servers -> SUBSET Transports],
         victim' = victim, oom' \in [Servers -> BOOLEAN]
  PROVE  ControlType'
<1>1. i' = [i EXCEPT ![s] = @ + 1] /\ i[s] + 1 \in 1 .. 6
  BY DEF Types, ControlType, Continue
<1>2. QED
  BY <1>1 DEF Types, ControlType, Continue, Goto, Labels, Making, Aborting

\* Every step keeps the control state in its types.
LEMMA StepControl ==
  ASSUME Types, NEW s \in Servers, Step(s)
  PROVE  ControlType'
<1>1. CASE \/ Skip(s) \/ OpenFails(s) \/ MkdirFails(s) \/ PathTooLong(s)
           \/ BindFails(s) \/ ListenFails(s)
  BY <1>1, OnwardControl, Table
     DEF Types, ControlType, Making, Skip, OpenFails, MkdirFails, PathTooLong,
         BindFails, ListenFails
<1>2. CASE ListenNoMem(s)
  <2>1. oom' \in [Servers -> BOOLEAN] /\ i[s] <= 5
    BY <1>2 DEF Types, ControlType, Making, ListenNoMem
  <2>2. QED
    BY <1>2, <2>1, OnwardControl DEF Types, ControlType, ListenNoMem
<1>3. CASE ListenOk(s)
  <2>1. i[s] <= 5 /\ temp' \in [Servers -> SUBSET Transports]
    BY <1>3, CurIn, Table DEF Types, ControlType, Making, ListenOk, Keep
  <2>2. CASE Continue(s)
    BY <1>3, <2>1, <2>2, OnwardControl DEF Types, ControlType, ListenOk
  <2>3. CASE Goto(s, "overrun") /\ UNCHANGED i
    BY <1>3, <2>1, <2>3
       DEF Types, ControlType, ListenOk, Goto, Labels, Making, Aborting
  <2>4. QED
    BY <1>3, <2>2, <2>3 DEF ListenOk, Keep
<1>4. CASE Exit(s)
  <2>1. oom' \in [Servers -> BOOLEAN]
    BY <1>4 DEF Types, ControlType, Exit
  <2>2. i' \in [Servers -> 1 .. 6] /\ temp' \in [Servers -> SUBSET Transports]
    BY <1>4 DEF Types, ControlType, Exit
  <2>3. pc' \in [Servers -> Labels] /\ victim' \in [Servers -> Transports]
    BY <1>4 DEF Types, ControlType, Exit, Goto, Labels, Transports
  <2>4. \A o \in Servers : pc'[o] \in Making \union Aborting => i'[o] <= 5
    BY <1>4 DEF Types, ControlType, Exit, Goto, Making, Aborting
  <2>5. QED
    BY <2>1, <2>2, <2>3, <2>4 DEF ControlType
<1>5. CASE Serve(s)
  BY <1>5
     DEF Close, CloseUnlink, CloseForCloning, Accept, ResetListener,
         ResetUnlink, ResetOpenFails, ResetBind, ResetBindFails, ResetListen,
         ResetListenFails, CloseReceived, AcceptReceived, ResetReceived,
         ConnectFallback, CloseSocket, Goto, masks, received, SetSock,
         UnlinkAddr, walk, sockets, ZeroMask, Forget, RestoreMask,
         DropReceived, Serve, Types, ControlType, Labels, Making, Aborting
<1>6. CASE MakeListeners(s)
  <2>1. CASE FinishNoMem(s)
    <3>1. oom' \in [Servers -> BOOLEAN]
      BY <2>1 DEF Types, ControlType, FinishNoMem
    <3>2. QED
      BY <2>1, <3>1
         DEF Types, ControlType, FinishNoMem, Goto, walk, Labels, Making,
             Aborting
  <2>2. ASSUME NEW t \in Transports, AbortClose(s, t)
        PROVE  ControlType'
    BY <2>2
       DEF AbortClose, CloseSocket, Goto, Types, ControlType, Labels, Making,
           Aborting
  <2>3. QED
    BY <1>1, <1>2, <1>3, <1>6, <2>1, <2>2, Table
       DEF Receive, ReceiveFails, ReceiveEnd, OpenCOTSServer, Unlink, Bind,
           BindAllowed, BindInUse, AbortCloseReceived, AbortUnlink, AbortEnd,
           Finish, walk, sockets, masks, Goto, received, SetSock, ZeroMask,
           RestoreMask, UnlinkAddr, MakeListeners, Types, ControlType, Labels,
           Making, Aborting
<1>7. CASE ~Serve(s) /\ ~MakeListeners(s) /\ ~Exit(s)
  BY <1>7
     DEF NoListen, Listen, Start, walk, sockets, masks, received, Goto, Step,
         Types, ControlType, Labels, Making, Aborting
<1>8. QED
  BY <1>4, <1>5, <1>6, <1>7

\* SetSock keeps the sockets in their types.
LEMMA SetSockIn ==
  ASSUME Types, NEW s \in Servers, NEW t \in Transports,
         NEW state \in {"none", "open", "bound", "listening"},
         NEW name \in {"none", "port", "abstract", "path", "any", "auto"},
         SetSock(s, t, state, name),
         addr' \in [Servers -> [Transports ->
                                  {"none", "port", "abstract", "path"}]],
         clipped' \in [Servers -> SUBSET Transports],
         path' \in {NoFile} \union (Servers \X (Transports \union {"passed"}))
  PROVE  SocketType'
  BY DEF Types, SocketType, SetSock

\* Every step keeps the sockets and their names in their types.
LEMMA StepSocket ==
  ASSUME Types, NEW s \in Servers, Step(s)
  PROVE  SocketType'
<1>1. CASE UNCHANGED <<sockets, addr, clipped, path>>
  BY <1>1 DEF Types, SocketType, sockets
<1>2. CASE \/ Unlink(s) \/ AbortUnlink(s) \/ CloseUnlink(s)
  BY <1>2
     DEF Types, SocketType, Unlink, AbortUnlink, CloseUnlink, UnlinkAddr,
         sockets
<1>3. CASE \/ OpenCOTSServer(s) \/ BindFails(s) \/ ListenFails(s)
  <2>1. Cur(s) \in Transports
    BY <1>3, CurIn, Table
       DEF Types, ControlType, Making, OpenCOTSServer, BindFails, ListenFails
  <2>2. QED
    BY <1>3, <2>1, SetSockIn
       DEF Types, SocketType, OpenCOTSServer, BindFails, ListenFails
<1>4. CASE Bind(s)
  <2>1. Cur(s) \in Transports
    BY <1>4, CurIn, Table DEF Types, ControlType, Making, Bind
  <2>2. path' \in {NoFile} \union (Servers \X (Transports \union {"passed"}))
    BY <1>4, <2>1 DEF Types, SocketType, Bind
  <2>3. QED
    BY <1>4, <2>1, <2>2, NameIn DEF Types, SocketType, Bind, SetSock
<1>5. CASE ListenOk(s) \/ ListenNoMem(s)
  <2>1. Cur(s) \in Transports
    BY <1>5, CurIn, Table
       DEF Types, ControlType, Making, ListenOk, ListenNoMem
  <2>2. ListenName(s, Cur(s)) \in
          {"none", "port", "abstract", "path", "any", "auto"}
    BY <2>1 DEF Types, SocketType, ListenName
  <2>3. NameOf(s, Cur(s)) \in {"none", "port", "abstract", "path"}
    BY NameIn
  <2>4. CASE ListenOk(s)
    BY <2>1, <2>2, <2>3, <2>4 DEF Types, SocketType, ListenOk, SetSock
  <2>5. CASE ListenNoMem(s)
    BY <2>1, <2>2, <2>5 DEF Types, SocketType, ListenNoMem, SetSock
  <2>6. QED
    BY <1>5, <2>4, <2>5
<1>6. ASSUME NEW t \in Transports,
             \/ AbortClose(s, t) \/ Close(s, t) \/ CloseForCloning(s, t)
             \/ Accept(s, t) \/ ResetListener(s, t)
      PROVE  SocketType'
  <2>1. clipped' \in [Servers -> SUBSET Transports]
    BY <1>6
       DEF Types, SocketType, AbortClose, Close, CloseForCloning, Accept,
           ResetListener, CloseSocket
  <2>2. CASE Accept(s, t)
    BY <2>1, <2>2 DEF Types, SocketType, Accept, sockets
  <2>3. CASE ~Accept(s, t)
    BY <1>6, <2>1, <2>3, SetSockIn
       DEF Types, SocketType, AbortClose, Close, CloseForCloning,
           ResetListener, CloseSocket
  <2>4. QED
    BY <2>2, <2>3
<1>7. CASE \/ ResetUnlink(s) \/ ResetOpenFails(s) \/ ResetBindFails(s)
           \/ ResetListen(s) \/ ResetListenFails(s)
  <2>1. /\ victim[s] \in Transports
        /\ at[s][victim[s]] \in
             {"none", "port", "abstract", "path", "any", "auto"}
    BY DEF Types, ControlType, SocketType
  <2>2. clipped' \in [Servers -> SUBSET Transports]
    BY <1>7
       DEF Types, SocketType, ResetUnlink, ResetOpenFails, ResetBindFails,
           ResetListen, ResetListenFails, Forget
  <2>3. path' \in {path, NoFile}
    BY <1>7
       DEF ResetUnlink, ResetOpenFails, ResetBindFails, ResetListen,
           ResetListenFails, UnlinkAddr
  <2>4. path' \in {NoFile} \union (Servers \X (Transports \union {"passed"}))
        /\ addr' = addr
    BY <1>7, <2>3
       DEF Types, SocketType, ResetUnlink, ResetOpenFails, ResetBindFails,
           ResetListen, ResetListenFails
  <2>5. CASE ResetUnlink(s)
    BY <2>1, <2>2, <2>4, <2>5 DEF Types, SocketType, ResetUnlink, SetSock
  <2>6. CASE ResetListen(s)
    BY <2>1, <2>2, <2>4, <2>6 DEF Types, SocketType, ResetListen, SetSock
  <2>7. CASE Forget(s, victim[s])
    BY <2>1, <2>2, <2>4, <2>7 DEF Types, SocketType, Forget, SetSock
  <2>8. QED
    BY <1>7, <2>5, <2>6, <2>7
       DEF ResetOpenFails, ResetBindFails, ResetListenFails
<1>8. CASE ResetBind(s)
  <2>1. path' \in {NoFile} \union (Servers \X (Transports \union {"passed"}))
    BY <1>8 DEF Types, ControlType, SocketType, ResetBind
  <2>2. QED
    BY <1>8, <2>1
       DEF Types, ControlType, SocketType, ResetBind, ResetName, SetSock
<1>9. CASE Exit(s)
  BY <1>9 DEF Types, SocketType, Exit
<1>10. QED
  BY <1>1, <1>2, <1>3, <1>4, <1>5, <1>6, <1>7, <1>8, <1>9
     DEF Step, MakeListeners, Serve, NoListen, Listen, Start, Receive,
         ReceiveFails, ReceiveEnd, Skip, OpenFails, MkdirFails, PathTooLong,
         BindAllowed, BindInUse, AbortCloseReceived, AbortEnd, Finish,
         FinishNoMem, CloseReceived, AcceptReceived, ResetReceived,
         ConnectFallback

\* Every step keeps flags and masks in their types.
LEMMA StepFlag ==
  ASSUME Types, NEW s \in Servers, Step(s)
  PROVE  FlagType'
<1>1. CASE UNCHANGED <<flags, partial, masks>>
  BY <1>1 DEF Types, FlagType, masks
<1>2. ASSUME NEW p \in Configurable, NoListen(s, p) \/ Listen(s, p)
      PROVE  FlagType'
  <2>1. CASE NoListen(s, p)
    BY <2>1 DEF Types, FlagType, NoListen, masks, FlagNames
  <2>2. CASE Listen(s, p)
    BY <2>2 DEF Types, FlagType, Listen, masks, FlagNames
  <2>3. QED
    BY <1>2, <2>1, <2>2
<1>3. CASE Receive(s)
  <2>1. TransOf(NextUnit(s)) \in Transports
    BY <1>3, UnitIn, TransIn DEF Receive
  <2>2. QED
    BY <1>3, <2>1 DEF Types, FlagType, Receive, Received, masks, FlagNames
<1>4. CASE ConnectFallback(s)
  BY <1>4 DEF Types, FlagType, ConnectFallback, masks, FlagNames
<1>5. CASE Finish(s) \/ FinishNoMem(s) \/ AbortEnd(s)
  <2>1. partial' \in [Servers -> BOOLEAN]
    <3>1. CASE Finish(s)
      BY <3>1 DEF Types, FlagType, Finish
    <3>2. CASE FinishNoMem(s)
      BY <3>2 DEF Types, FlagType, FinishNoMem
    <3>3. CASE AbortEnd(s)
      BY <3>3 DEF Types, FlagType, AbortEnd
    <3>4. QED
      BY <1>5, <3>1, <3>2, <3>3
  <2>2. QED
    BY <1>5, <2>1 DEF Types, FlagType, masks, Finish, FinishNoMem, AbortEnd
<1>6. CASE /\ UNCHANGED <<flags, partial>>
           /\ ZeroMask(s) \/ \E t \in Transports : RestoreMask(s, t)
  BY <1>6 DEF Types, FlagType, ZeroMask, RestoreMask
<1>7. ASSUME NEW k \in 1 .. Len(recv[s]), NEW outcome \in ResetOutcomes,
             ResetReceived(s, k, outcome)
      PROVE  FlagType'
  BY <1>7 DEF Types, FlagType, ResetReceived
<1>8. CASE Exit(s)
  <2>1. partial' \in [Servers -> BOOLEAN]
    BY <1>8 DEF Types, FlagType, Exit
  <2>2. QED
    BY <1>8, <2>1, InitialFlagsIn DEF Types, FlagType, Exit
<1>9. CASE \/ MkdirFails(s) \/ BindInUse(s) \/ BindFails(s) \/ ListenOk(s)
           \/ ListenNoMem(s) \/ ListenFails(s)
  <2>1. Cur(s) \in Transports
    BY <1>9, CurIn, Table
       DEF Types, ControlType, Making, MkdirFails, BindInUse, BindFails,
           ListenOk, ListenNoMem, ListenFails
  <2>2. QED
    BY <1>6, <1>9, <2>1
       DEF MkdirFails, BindInUse, BindFails, ListenOk, ListenNoMem,
           ListenFails
<1>10. CASE \/ ResetOpenFails(s) \/ ResetListen(s) \/ ResetListenFails(s)
  BY <1>6, <1>10
     DEF Types, ControlType, ResetOpenFails, ResetListen, ResetListenFails
<1>11. QED
  BY <1>1, <1>2, <1>3, <1>4, <1>5, <1>6, <1>7, <1>8, <1>9, <1>10
     DEF Step, MakeListeners, Serve, Start, ReceiveFails, ReceiveEnd, Skip,
         OpenFails, OpenCOTSServer, PathTooLong, Unlink, Bind, BindAllowed,
         AbortCloseReceived, AbortClose, AbortUnlink, AbortEnd, Finish,
         FinishNoMem, Close, CloseUnlink, CloseForCloning, Accept,
         ResetListener, ResetUnlink, ResetBind, ResetBindFails, CloseReceived,
         AcceptReceived

\* Every step keeps what was received in its types.
LEMMA StepReceived ==
  ASSUME Types, NEW s \in Servers, Step(s)
  PROVE  ReceivedType'
<1>1. CASE UNCHANGED received
  BY <1>1 DEF Types, ReceivedType, received
<1>2. CASE Receive(s)
  <2>1. Reopened(NextUnit(s)) \in Listeners
    BY <1>2, UnitIn DEF Receive, Reopened, Listeners
  <2>2. QED
    BY <1>2, <2>1 DEF Types, ReceivedType, Receive
<1>3. CASE AbortCloseReceived(s) \/ Exit(s)
  <2>1. recv' = [recv EXCEPT ![s] = <<>>] /\ UNCHANGED <<units, inCwd>>
    BY <1>3 DEF AbortCloseReceived, Exit
  <2>2. QED
    BY <2>1 DEF Types, ReceivedType
<1>4. ASSUME NEW k \in 1 .. Len(recv[s]), CloseReceived(s, k)
      PROVE  ReceivedType'
  BY <1>4, DropReceivedFrom DEF Types, ReceivedType, CloseReceived
<1>5. ASSUME NEW k \in 1 .. Len(recv[s]), AcceptReceived(s, k)
      PROVE  ReceivedType'
  <2>1. /\ recv[s] \in Seq(Listeners)
        /\ [recv[s][k] EXCEPT !.clipped = TRUE] \in Listeners
    BY ClippedIn DEF Types, ReceivedType
  <2>2. [recv[s] EXCEPT ![k].clipped = TRUE] \in Seq(Listeners)
    BY <2>1
  <2>3. recv' = [recv EXCEPT ![s] = [@ EXCEPT ![k].clipped = TRUE]]
    BY <1>5 DEF Types, ReceivedType, AcceptReceived
  <2>4. QED
    BY <1>5, <2>2, <2>3 DEF Types, ReceivedType, AcceptReceived
<1>6. ASSUME NEW k \in 1 .. Len(recv[s]), NEW outcome \in ResetOutcomes,
             ResetReceived(s, k, outcome)
      PROVE  ReceivedType'
  <2>1. inCwd' \in [Servers -> BOOLEAN]
    BY <1>6 DEF Types, ReceivedType, ResetReceived
  <2>2. recv' \in [Servers -> Seq(Listeners)]
    BY <1>6, ResetReceivedKinds
  <2>3. QED
    BY <1>6, <2>1, <2>2 DEF Types, ReceivedType, ResetReceived
<1>7. QED
  BY <1>1, <1>2, <1>3, <1>4, <1>5, <1>6
     DEF Step, MakeListeners, Serve, NoListen, Listen, Start, ReceiveFails,
         ReceiveEnd, Skip, OpenFails, OpenCOTSServer, MkdirFails, PathTooLong,
         Unlink, Bind, BindAllowed, BindInUse, BindFails, ListenOk,
         ListenNoMem, ListenFails, AbortClose, AbortUnlink, AbortEnd, Finish,
         FinishNoMem, Close, CloseUnlink, CloseForCloning, Accept,
         ResetListener, ResetUnlink, ResetOpenFails, ResetBind,
         ResetBindFails, ResetListen, ResetListenFails, ConnectFallback

\* Every step of a process keeps the types.
LEMMA StepTypes ==
  ASSUME Types, NEW s \in Servers, Step(s)
  PROVE  Types'
  BY StepControl, StepSocket, StepFlag, StepReceived DEF Types

\* FlagsOk: only NoListen, Listen, Receive, ConnectFallback and a new process
\* change flags.
LEMMA StepFlagsOk ==
  ASSUME Types, NEW s \in Servers, Local(s), Step(s)
  PROVE  FlagsOk(s)'
<1>1. CASE UNCHANGED <<flags, units>>
  BY <1>1 DEF Local, FlagsOk, UnitTrans
<1>2. ASSUME NEW p \in Configurable, NoListen(s, p)
      PROVE  FlagsOk(s)'
  <2>1. \A t \in Transports : flags'[s][t] =
          IF t \in Reach(flags[s], p) THEN flags[s][t] \union {"NOLISTEN"}
                                      ELSE flags[s][t]
    BY <1>2 DEF Types, FlagType, NoListen
  <2>2. \A t \in Reach(flags[s], p) : t \in {p} \union NolistenOf(p)
    BY DEF Reach
  <2>3. QED
    BY <1>2, <2>1, <2>2
       DEF Local, FlagsOk, UnitTrans, NoListen, received, Transports
<1>3. ASSUME NEW p \in Configurable, Listen(s, p)
      PROVE  FlagsOk(s)'
  <2>1. \A t \in Transports : flags'[s][t] =
          IF t \in Reach(flags[s], p) THEN flags[s][t] \ {"NOLISTEN"}
                                      ELSE flags[s][t]
    BY <1>3 DEF Types, FlagType, Listen
  <2>2. QED
    BY <1>3, <2>1 DEF Local, FlagsOk, UnitTrans, Listen, received, Transports
<1>4. CASE Receive(s)
  <2>1. TransOf(NextUnit(s)) \in (Transports \ {"tcp"}) \intersect UnitTrans(s)
    BY <1>4, UnitIn, TransIn DEF UnitTrans, NextUnit, Receive
  <2>2. \A t \in Transports : flags'[s][t] =
          IF t = TransOf(NextUnit(s)) THEN flags[s][t] \union {"RECEIVED"}
                                      ELSE flags[s][t]
    BY <1>4, <2>1 DEF Types, FlagType, Receive, Received
  <2>3. QED
    BY <1>4, <2>1, <2>2 DEF Local, FlagsOk, UnitTrans, Receive, Transports
<1>5. CASE ConnectFallback(s)
  BY <1>5
     DEF Types, FlagType, Local, FlagsOk, UnitTrans, ConnectFallback, received
<1>6. CASE Exit(s)
  <2>1. flags'[s] = InitialFlags
    BY <1>6 DEF Types, FlagType, Exit
  <2>2. QED
    BY <2>1, InitialFlagsOk DEF FlagsOk, Transports
<1>7. QED
  BY <1>1, <1>2, <1>3, <1>4, <1>5, <1>6
     DEF Step, MakeListeners, Serve, received, Start, ReceiveFails,
         ReceiveEnd, Skip, OpenFails, OpenCOTSServer, MkdirFails, PathTooLong,
         Unlink, Bind, BindAllowed, BindInUse, BindFails, ListenOk,
         ListenNoMem, ListenFails, AbortCloseReceived, AbortClose,
         AbortUnlink, AbortEnd, Finish, FinishNoMem, Close, CloseUnlink,
         CloseForCloning, Accept, ResetListener, ResetUnlink, ResetOpenFails,
         ResetBind, ResetBindFails, ResetListen, ResetListenFails,
         CloseReceived, AcceptReceived, ResetReceived

\* Chosen: the walk opens no transport that is skipped, and flags change only
\* before it.
LEMMA StepChosen ==
  ASSUME Types, NEW s \in Servers, Local(s), Step(s)
  PROVE  Chosen(s)'
<1>1. CASE flags' = flags /\ temp'[s] \subseteq temp[s] /\ pc'[s] \notin Making
  BY <1>1 DEF Local, Chosen
<1>2. CASE OpenCOTSServer(s) \/ Unlink(s) \/ Bind(s) \/ BindAllowed(s)
  BY <1>2
     DEF Types, ControlType, Local, Chosen, OpenCOTSServer, Unlink, Bind,
         BindAllowed, walk, Cur, Making
<1>3. CASE ListenOk(s)
  BY <1>3
     DEF Types, ControlType, Local, Chosen, ListenOk, Keep, Continue, Goto,
         Making
<1>4. CASE Bare(s) /\ temp' = temp /\ pc'[s] \notin Making
  BY <1>4 DEF Bare, Chosen
<1>5. CASE ConnectFallback(s)
  <2>1. \A t \in Transports : \A f \in {"ALIAS", "NOLISTEN", "RECEIVED"} :
          f \in flags'[s][t] <=> f \in flags[s][t]
    BY <1>5 DEF Types, FlagType, ConnectFallback
  <2>2. QED
    BY <1>5, <2>1
       DEF Types, ControlType, Local, Chosen, Skipped, ConnectFallback, walk,
           Making
<1>6. CASE Exit(s)
  BY <1>6 DEF Types, ControlType, Exit, Goto, Chosen, Making
<1>7. CASE \/ Receive(s)
           \/ \E p \in Configurable : NoListen(s, p) \/ Listen(s, p)
  BY <1>4, <1>7
     DEF Receive, NoListen, Listen, walk, Making, Local, Passed, Early
<1>8. CASE MakeListeners(s)
  BY <1>1, <1>2, <1>3, <1>7, <1>8
     DEF MakeListeners, Making, Types, ControlType, ReceiveFails, ReceiveEnd,
         Skip, OpenFails, MkdirFails, PathTooLong, BindInUse, BindFails,
         ListenNoMem, ListenFails, AbortCloseReceived, AbortClose,
         AbortUnlink, AbortEnd, Finish, FinishNoMem, Goto, walk, sockets,
         masks, received, Continue, RestoreMask, SetSock, CloseSocket,
         UnlinkAddr
<1>9. CASE Serve(s)
  BY <1>1, <1>5, <1>9
     DEF Serve, Making, Types, ControlType, Close, CloseUnlink,
         CloseForCloning, Accept, ResetListener, ResetUnlink, ResetOpenFails,
         ResetBind, ResetBindFails, ResetListen, ResetListenFails,
         CloseReceived, AcceptReceived, ResetReceived, CloseSocket, Goto,
         masks, received, SetSock, UnlinkAddr, walk, sockets, ZeroMask,
         Forget, RestoreMask, DropReceived
<1>10. QED
  BY <1>1, <1>6, <1>7, <1>8, <1>9
     DEF Step, Start, walk, Goto, Making, Types, ControlType

\* ReceivedOk: receiving goes through what was handed over in its order.
LEMMA StepReceivedOk ==
  ASSUME Types, NEW s \in Servers, Local(s), Step(s)
  PROVE  ReceivedOk(s)'
<1>1. CASE /\ UNCHANGED <<flags, received>>
           /\ \/ pc'[s] \notin
                   {"idle", "gone", "receive", "loop"} \union Making
              \/ /\ pc[s] \in {"loop"} \union Making
                 /\ pc'[s] \notin {"idle", "gone"}
  BY <1>1 DEF Local, ReceivedOk, received, HasUnit, Making
<1>2. CASE /\ pc[s] = "idle" /\ pc'[s] \in {"idle", "receive"}
           /\ UNCHANGED received
  BY <1>2 DEF Types, ReceivedType, Local, ReceivedOk, received, Making
<1>3. CASE Start(s) \/ ReceiveEnd(s)
  <2>1. CASE Start(s)
    BY <1>2, <2>1 DEF Start, Goto, Types, ControlType
  <2>2. CASE ReceiveEnd(s)
    BY <2>2
       DEF ReceiveEnd, Goto, Types, ControlType, Local, ReceivedOk, received,
           HasUnit, Making
  <2>3. QED
    BY <1>3, <2>1, <2>2
<1>4. CASE Receive(s)
  <2>1. TransOf(NextUnit(s)) \in Transports
    BY <1>4, UnitIn, TransIn DEF Receive
  <2>2. \A t \in Transports : flags'[s][t] =
          IF t = TransOf(NextUnit(s)) THEN flags[s][t] \union {"RECEIVED"}
                                      ELSE flags[s][t]
    BY <1>4, <2>1 DEF Types, FlagType, Receive, Received
  <2>3. /\ recv[s] \in Seq(Listeners)
        /\ recv'[s] = Append(recv[s], Reopened(NextUnit(s)))
    BY <1>4 DEF Types, ReceivedType, Receive
  <2>4. /\ Len(recv'[s]) = Len(recv[s]) + 1
        /\ \A k \in 1 .. Len(recv[s]) : recv'[s][k] = recv[s][k]
        /\ recv'[s][Len(recv[s]) + 1].kind = NextUnit(s)
    BY <2>3 DEF Reopened
  <2>5. /\ Len(recv[s]) \in Nat /\ Len(units[s]) \in Nat
        /\ Len(recv[s]) + 1 \in 1 .. Len(units[s])
    BY <1>4, <2>3, UnitIn, UnitsAssumption DEF Receive, Types, ReceivedType
  <2>6. \A k \in 1 .. Len(recv'[s]) : recv'[s][k].kind = units[s][k]
    BY <1>4, <2>4, <2>5 DEF Local, ReceivedOk, Receive, NextUnit
  <2>7. \A k \in 1 .. Len(recv[s]) :
          "RECEIVED" \in flags'[s][TransOf(recv'[s][k].kind)]
    BY <2>2, <2>4, RecvIn DEF Local, ReceivedOk
  <2>8. "RECEIVED" \in flags'[s][TransOf(recv'[s][Len(recv[s]) + 1].kind)]
    BY <2>1, <2>2, <2>4
  <2>9. \A k \in 1 .. Len(recv'[s]) :
          "RECEIVED" \in flags'[s][TransOf(recv'[s][k].kind)]
    BY <2>4, <2>5, <2>7, <2>8
  <2>10. QED
    BY <1>4, <2>4, <2>5, <2>6, <2>9 DEF Receive, ReceivedOk, Making
<1>5. CASE recv'[s] = <<>> /\ pc'[s] \in {"abort", "idle", "gone"}
  BY <1>5 DEF ReceivedOk, Making
<1>6. ASSUME pc'[s] \in {"up", "down"}, flags' = flags,
             \A j \in 1 .. Len(recv'[s]) : \E n \in 1 .. Len(recv[s]) :
               recv'[s][j].kind = recv[s][n].kind
      PROVE  ReceivedOk(s)'
  BY <1>6 DEF Local, ReceivedOk, Making
<1>7. ASSUME NEW k \in 1 .. Len(recv[s]),
             \/ CloseReceived(s, k)
             \/ \E outcome \in ResetOutcomes : ResetReceived(s, k, outcome)
      PROVE  ReceivedOk(s)'
  <2>1. \A j \in 1 .. Len(recv'[s]) : \E n \in 1 .. Len(recv[s]) :
          recv'[s][j].kind = recv[s][n].kind
    BY <1>7, DropReceivedFrom, ResetReceivedKinds DEF CloseReceived, From
  <2>2. QED
    BY <1>6, <1>7, <2>1
       DEF CloseReceived, ResetReceived, Goto, Types, ControlType
<1>8. ASSUME NEW k \in 1 .. Len(recv[s]), AcceptReceived(s, k)
      PROVE  ReceivedOk(s)'
  <2>1. recv[s] \in Seq(Listeners)
    BY DEF Types, ReceivedType
  <2>2. recv'[s] = [recv[s] EXCEPT ![k].clipped = TRUE]
    BY <1>8 DEF AcceptReceived, Types, ReceivedType
  <2>3. Len(recv'[s]) = Len(recv[s])
        /\ \A j \in 1 .. Len(recv[s]) : recv'[s][j].kind = recv[s][j].kind
    BY <2>1, <2>2 DEF Listeners
  <2>4. QED
    BY <1>6, <1>8, <2>3 DEF AcceptReceived
<1>9. CASE ConnectFallback(s)
  <2>1. \A t \in Transports : "RECEIVED" \in flags[s][t] =>
          "RECEIVED" \in flags'[s][t]
    BY <1>9 DEF Types, FlagType, ConnectFallback
  <2>2. QED
    BY <1>9, <2>1, RecvIn
       DEF Local, ReceivedOk, ConnectFallback, received, Making
<1>10. CASE AbortCloseReceived(s) \/ Exit(s)
  BY <1>5, <1>10
     DEF AbortCloseReceived, Exit, Goto, Types, ControlType, ReceivedType
<1>11. CASE MakeListeners(s)
  BY <1>1, <1>3, <1>4, <1>10, <1>11
     DEF MakeListeners, Making, Types, ControlType, ReceiveFails, Skip,
         OpenFails, OpenCOTSServer, MkdirFails, PathTooLong, Unlink, Bind,
         BindAllowed, BindInUse, BindFails, ListenOk, ListenNoMem,
         ListenFails, AbortClose, AbortUnlink, AbortEnd, Finish, FinishNoMem,
         Goto, walk, sockets, masks, received, Continue, SetSock, ZeroMask,
         RestoreMask, Keep, CloseSocket, UnlinkAddr
<1>12. CASE Serve(s)
  BY <1>1, <1>7, <1>8, <1>9, <1>12
     DEF Serve, Making, Types, ControlType, Close, CloseUnlink,
         CloseForCloning, Accept, ResetListener, ResetUnlink, ResetOpenFails,
         ResetBind, ResetBindFails, ResetListen, ResetListenFails,
         CloseSocket, Goto, masks, received, SetSock, UnlinkAddr, walk,
         sockets, ZeroMask, Forget, RestoreMask
<1>13. QED
  BY <1>2, <1>3, <1>10, <1>11, <1>12 DEF Step, NoListen, Listen

\* Passed: what is made is behind the index.
LEMMA StepPassed ==
  ASSUME Types, NEW s \in Servers, Local(s), Step(s)
  PROVE  Passed(s)'
<1>1. CASE pc'[s] \notin Early \union Walking \union {"failed"}
  BY <1>1 DEF Passed
<1>2. CASE pc[s] \in Early /\ UNCHANGED <<i, temp, at>>
  BY <1>2 DEF Local, Passed, Bare
<1>3. CASE Exit(s)
  BY <1>3
     DEF Types, ControlType, SocketType, Exit, Goto, Passed, Bare, Early,
         Walking, Making, Aborting
<1>4. CASE \/ Skip(s) \/ OpenFails(s) \/ MkdirFails(s) \/ PathTooLong(s)
           \/ BindFails(s) \/ ListenFails(s) \/ ListenNoMem(s)
  <2>1. /\ i[s] <= 5 /\ pc[s] \in {"loop"} \union Making
        /\ Continue(s) /\ temp' = temp
    BY <1>4, Table
       DEF Types, ControlType, Making, Skip, OpenFails, MkdirFails,
           PathTooLong, BindFails, ListenFails, ListenNoMem
  <2>2. \A t \in Transports : at'[s][t] = at[s][t] \/ t = Cur(s)
    BY <1>4, CurIn, Table, <2>1
       DEF Types, SocketType, Skip, OpenFails, MkdirFails, PathTooLong,
           BindFails, ListenFails, ListenNoMem, sockets, SetSock
  <2>3. QED
    BY <2>1, <2>2, OnwardPassed DEF Local
<1>5. CASE ListenOk(s)
  <2>1. /\ i[s] <= 5 /\ pc[s] \in Making /\ temp'[s] = temp[s] \union {Cur(s)}
        /\ \A t \in Transports : at'[s][t] = at[s][t] \/ t = Cur(s)
    BY <1>5, CurIn, Table
       DEF Types, ControlType, SocketType, Making, ListenOk, Keep, SetSock
  <2>2. CASE Continue(s)
    BY <2>1, <2>2, OnwardPassed DEF Local
  <2>3. CASE Goto(s, "overrun")
    BY <1>1, <2>3
       DEF Types, ControlType, Goto, Walking, Early, Making, Aborting
  <2>4. QED
    BY <1>5, <2>2, <2>3 DEF ListenOk, Keep
<1>6. CASE /\ pc[s] \in Walking \ {"listen"} /\ i' = i
           /\ pc'[s] \in Walking \union {"failed"}
           /\ temp'[s] \subseteq temp[s]
           /\ \A t \in Transports : at'[s][t] \in {"none", at[s][t]}
  BY <1>6 DEF Local, Passed, Walking, Early, Making, Aborting
<1>7. CASE OpenCOTSServer(s)
  <2>1. \A t \in Transports : at'[s][t] \in {"none", at[s][t]}
    BY <1>7, CurIn, Table DEF Types, SocketType, OpenCOTSServer, SetSock
  <2>2. QED
    BY <1>6, <1>7, <2>1
       DEF OpenCOTSServer, Goto, walk, Types, ControlType, Walking, Making
<1>8. CASE Bind(s)
  <2>1. \A t \in Transports : at'[s][t] = at[s][t] \/ t = Cur(s)
    BY <1>8, CurIn, Table
       DEF Types, ControlType, Making, SocketType, Bind, SetSock
  <2>2. QED
    BY <1>8, <2>1
       DEF Types, ControlType, Local, Passed, Bind, Goto, walk, Cur, Walking,
           Early, Making
<1>9. CASE BindAllowed(s)
  BY <1>9
     DEF Types, ControlType, Local, Passed, BindAllowed, Goto, walk, sockets,
         Walking, Early, Making
<1>10. ASSUME NEW t \in Transports, AbortClose(s, t)
       PROVE  Passed(s)'
  BY <1>6, <1>10
     DEF AbortClose, CloseSocket, SetSock, Goto, Types, ControlType,
         SocketType, Walking, Aborting
<1>11. CASE Serve(s)
  BY <1>1, <1>2, <1>11
     DEF Serve, Types, ControlType, Early, Walking, Making, Aborting, Close,
         CloseUnlink, CloseForCloning, Accept, ResetListener, ResetUnlink,
         ResetOpenFails, ResetBind, ResetBindFails, ResetListen,
         ResetListenFails, CloseReceived, AcceptReceived, ResetReceived,
         ConnectFallback, CloseSocket, Goto, masks, received, SetSock,
         UnlinkAddr, walk, sockets, ZeroMask, Forget, RestoreMask,
         DropReceived
<1>12. CASE MakeListeners(s)
  BY <1>1, <1>2, <1>4, <1>5, <1>6, <1>7, <1>8, <1>9, <1>10, <1>12
     DEF MakeListeners, Types, ControlType, SocketType, Early, Walking,
         Making, Aborting, Receive, ReceiveFails, ReceiveEnd, Unlink,
         BindInUse, AbortCloseReceived, AbortUnlink, AbortEnd, Finish,
         FinishNoMem, walk, sockets, masks, Goto, received, RestoreMask,
         UnlinkAddr
<1>13. QED
  BY <1>2, <1>3, <1>11, <1>12
     DEF Step, NoListen, Listen, Start, walk, sockets, Early

\* Holds: a listener that is not in temp_ciptrs costs an allocation, and the
\* abort closes what is in it.
LEMMA StepHolds ==
  ASSUME Types, NEW s \in Servers, Local(s), Step(s)
  PROVE  Holds(s)'
<1>1. CASE pc'[s] \notin Walking \union {"failed"} \/ oom'[s]
  BY <1>1 DEF Holds
<1>2. CASE pc[s] \in Early /\ UNCHANGED <<i, temp, at>> /\ pc'[s] # "failed"
  BY <1>2 DEF Local, Passed, Bare, Holds
<1>3. CASE /\ pc[s] \in Walking /\ pc'[s] \in Walking /\ oom' = oom
           /\ \A t \in Transports :
                \/ at'[s][t] = "none"
                \/ t \in temp'[s]
                \/ pc'[s] = "listen" /\ t = Cur(s)'
                \/ /\ at'[s][t] = at[s][t]
                   /\ t \notin temp[s]
                   /\ pc[s] = "listen" => t # Cur(s)
  BY <1>3 DEF Local, Holds, Walking, Making, Aborting
<1>4. CASE AbortEnd(s)
  BY <1>4, NoListeners
     DEF AbortEnd, Types, ControlType, Local, Holds, Goto, walk, sockets,
         received, Walking, Making, Aborting
<1>5. CASE Exit(s)
  BY <1>5
     DEF Types, ControlType, SocketType, Exit, Goto, Holds, Walking, Making,
         Aborting
<1>6. CASE ListenNoMem(s) \/ FinishNoMem(s)
  BY <1>6 DEF Types, ControlType, ListenNoMem, FinishNoMem, Holds
<1>7. CASE \/ OpenCOTSServer(s) \/ Bind(s) \/ BindFails(s)
           \/ ListenFails(s) \/ ListenOk(s)
  <2>1. Cur(s) \in Transports
    BY <1>7, CurIn, Table
       DEF Types, ControlType, Making, OpenCOTSServer, Bind, BindFails,
           ListenFails, ListenOk
  <2>2. CASE ListenOk(s)
    <3>1. /\ pc[s] = "listen" /\ pc'[s] \in {"loop", "overrun"} /\ oom' = oom
          /\ temp'[s] = temp[s] \union {Cur(s)}
      BY <2>2 DEF Types, ControlType, ListenOk, Keep, Continue, Goto
    <3>2. \A t \in Transports : t = Cur(s) \/ at'[s][t] = at[s][t]
      BY <2>1, <2>2 DEF Types, SocketType, ListenOk, SetSock
    <3>3. QED
      BY <1>1, <1>3, <3>1, <3>2 DEF Walking, Making, Aborting
  <2>3. CASE Bind(s)
    BY <1>3, <2>1, <2>3
       DEF Types, ControlType, SocketType, Bind, Goto, SetSock, walk, Cur,
           Walking, Making, Aborting
  <2>4. CASE OpenCOTSServer(s) \/ BindFails(s) \/ ListenFails(s)
    <3>1. /\ pc[s] \in Walking /\ pc'[s] \in Walking
          /\ temp' = temp /\ oom' = oom
      BY <2>4
         DEF Types, ControlType, OpenCOTSServer, BindFails, ListenFails,
             Continue, Goto, walk, Walking, Making
    <3>2. \A t \in Transports : IF t = Cur(s) THEN at'[s][t] = "none"
                                              ELSE at'[s][t] = at[s][t]
      BY <2>1, <2>4
         DEF Types, SocketType, OpenCOTSServer, BindFails, ListenFails,
             SetSock
    <3>3. QED
      BY <1>3, <3>1, <3>2
  <2>5. QED
    BY <1>7, <2>2, <2>3, <2>4
<1>8. ASSUME NEW t \in Transports, AbortClose(s, t)
      PROVE  Holds(s)'
  <2>1. /\ pc[s] = "abort" /\ pc'[s] \in Aborting /\ oom' = oom
        /\ temp'[s] = temp[s] \ {t}
    BY <1>8 DEF Types, ControlType, AbortClose, CloseSocket, Goto, Aborting
  <2>2. \A u \in Transports : at'[s][u] = IF u = t THEN "none" ELSE at[s][u]
    BY <1>8 DEF Types, SocketType, AbortClose, CloseSocket, SetSock
  <2>3. QED
    BY <1>3, <2>1, <2>2 DEF Walking, Aborting
<1>9. CASE Serve(s)
  BY <1>1, <1>9
     DEF Serve, Types, ControlType, Walking, Making, Aborting, Close,
         CloseUnlink, CloseForCloning, Accept, ResetListener, ResetUnlink,
         ResetOpenFails, ResetBind, ResetBindFails, ResetListen,
         ResetListenFails, CloseReceived, AcceptReceived, ResetReceived,
         ConnectFallback, CloseSocket, Goto, masks, received, SetSock,
         UnlinkAddr, walk, sockets, ZeroMask, Forget, RestoreMask,
         DropReceived
<1>10. CASE Receive(s) \/ ReceiveFails(s) \/ ReceiveEnd(s) \/ Start(s)
  BY <1>2, <1>10
     DEF Receive, ReceiveFails, ReceiveEnd, Start, Goto, Types, ControlType,
         walk, sockets, Early
<1>11. CASE MakeListeners(s)
  BY <1>1, <1>3, <1>4, <1>6, <1>7, <1>8, <1>10, <1>11
     DEF MakeListeners, Types, ControlType, Walking, Making, Aborting, Skip,
         OpenFails, MkdirFails, PathTooLong, Unlink, BindAllowed, BindInUse,
         AbortCloseReceived, AbortUnlink, Finish, Continue, sockets, masks,
         received, Goto, RestoreMask, walk, UnlinkAddr
<1>12. QED
  BY <1>1, <1>5, <1>9, <1>10, <1>11
     DEF Step, NoListen, Listen, Walking, Making, Aborting

\* Bound: a socket is bound to the name of its transport.
LEMMA StepBound ==
  ASSUME Types, NEW s \in Servers, Local(s), Step(s)
  PROVE  Bound(s)'
<1>1. CASE /\ pc'[s] \notin Making
           /\ \A t \in Transports :
                at'[s][t] \in {"none", "any", "path", "auto", at[s][t]}
  BY <1>1 DEF Local, Bound, Making
<1>2. CASE OpenCOTSServer(s)
  <2>1. Cur(s) \in Transports
    BY <1>2, CurIn DEF OpenCOTSServer
  <2>2. \A t \in Transports :
          at'[s][t] = IF t = Cur(s) THEN "none" ELSE at[s][t]
    BY <1>2, <2>1 DEF Types, SocketType, OpenCOTSServer, SetSock
  <2>3. pc'[s] = IF NameOf(s, Cur(s)) = "path" THEN "unlink" ELSE "bind"
    BY <1>2 DEF Types, ControlType, OpenCOTSServer, Goto
  <2>4. Cur(s)' = Cur(s) /\ NameOf(s, Cur(s))' = NameOf(s, Cur(s))
    BY <1>2 DEF OpenCOTSServer, walk, Cur, NameOf, Abstract
  <2>5. QED
    BY <2>1, <2>2, <2>3, <2>4 DEF Local, Bound
<1>3. CASE Unlink(s)
  <2>1. pc[s] = "unlink" /\ pc'[s] = "bind" /\ at' = at
    BY <1>3 DEF Unlink, Goto, Types, ControlType, sockets
  <2>2. Cur(s)' = Cur(s)
    BY <1>3 DEF Unlink, walk, Cur
  <2>3. QED
    BY <2>1, <2>2 DEF Local, Bound, Making
<1>4. CASE Bind(s)
  <2>1. /\ Cur(s) \in Transports /\ Cur(s)' = Cur(s)
        /\ NameOf(s, Cur(s))' = NameOf(s, Cur(s))
    BY <1>4, CurIn, Table
       DEF Types, ControlType, Making, Bind, Cur, walk, NameOf, Abstract
  <2>2. /\ pc'[s] = "listen"
        /\ \A t \in Transports : at'[s][t] =
             IF t = Cur(s) THEN NameOf(s, Cur(s)) ELSE at[s][t]
    BY <1>4, <2>1 DEF Types, SocketType, ControlType, Bind, SetSock, Goto
  <2>3. \A t \in Transports : at'[s][t] = "port" => ~IsUnix(t)
    BY <2>2 DEF Local, Bound, NameOf
  <2>4. \A t \in Transports : at'[s][t] = "abstract" => t = "local"
    BY <2>2 DEF Local, Bound, NameOf, FlagsOk, Abstract
  <2>5. Cur(s)' = "inet6" => at'[s]["inet6"] = "port"
    BY <2>1, <2>2 DEF NameOf, IsUnix
  <2>6. QED
    BY <2>1, <2>2, <2>3, <2>4, <2>5 DEF Bound
<1>5. CASE BindAllowed(s)
  <2>1. pc'[s] = "listen" /\ at' = at /\ Cur(s) = "inet" /\ Cur(s)' = "inet"
    BY <1>5
       DEF BindAllowed, InUseAllowed, Goto, Types, ControlType, sockets, walk,
           Cur
  <2>2. QED
    BY <2>1 DEF Local, Bound, IsUnix
<1>6. CASE \/ BindFails(s) \/ ListenFails(s) \/ ListenOk(s) \/ ListenNoMem(s)
  <2>1. pc'[s] \notin Making
    BY <1>6
       DEF Types, ControlType, BindFails, ListenFails, ListenOk, ListenNoMem,
           Keep, Continue, Goto, Making
  <2>2. Cur(s) \in Transports
    BY <1>6, CurIn, Table
       DEF Types, ControlType, Making, BindFails, ListenFails, ListenOk,
           ListenNoMem
  <2>3. \A t \in Transports : at'[s][t] \in {"none", "any", at[s][t]}
    BY <1>6, <2>2
       DEF Types, SocketType, BindFails, ListenFails, ListenOk, ListenNoMem,
           SetSock, ListenName
  <2>4. QED
    BY <1>1, <2>1, <2>3
<1>7. CASE ResetBind(s)
  <2>1. \A t \in Transports : at'[s][t] \in {"auto", "path", at[s][t]}
    BY <1>7 DEF Types, ControlType, SocketType, ResetBind, SetSock
  <2>2. QED
    BY <1>1, <1>7, <2>1 DEF Types, ControlType, ResetBind, Goto, Making
<1>8. CASE Serve(s) /\ ~ResetBind(s)
  BY <1>1, <1>8
     DEF Serve, Types, ControlType, SocketType, Making, Close, CloseUnlink,
         CloseForCloning, Accept, ResetListener, ResetUnlink, ResetOpenFails,
         ResetBindFails, ResetListen, ResetListenFails, CloseReceived,
         AcceptReceived, ResetReceived, ConnectFallback, CloseSocket, Goto,
         masks, received, SetSock, UnlinkAddr, walk, sockets, ZeroMask,
         Forget, RestoreMask, DropReceived
<1>9. CASE \E t \in Transports : AbortClose(s, t)
  BY <1>1, <1>9
     DEF Types, ControlType, SocketType, AbortClose, CloseSocket, SetSock,
         Goto, Making
<1>10. CASE MakeListeners(s)
  BY <1>1, <1>2, <1>3, <1>4, <1>5, <1>6, <1>9, <1>10
     DEF MakeListeners, Types, ControlType, Making, Receive, ReceiveFails,
         ReceiveEnd, Skip, OpenFails, MkdirFails, PathTooLong, BindInUse,
         AbortCloseReceived, AbortUnlink, AbortEnd, Finish, FinishNoMem, walk,
         sockets, masks, Goto, received, Continue, RestoreMask, UnlinkAddr
<1>11. QED
  BY <1>1, <1>7, <1>8, <1>10
     DEF Step, Types, ControlType, SocketType, Making, NoListen, Listen,
         Start, Exit, walk, sockets, masks, received, Goto

\* Kept: the listeners in temp_ciptrs have the names they were made with.
LEMMA StepKept ==
  ASSUME Types, NEW s \in Servers, Local(s), Step(s)
  PROVE  Kept(s)'
<1>1. CASE /\ UNCHANGED <<sockets, addr>> /\ temp'[s] \subseteq temp[s]
           /\ Abstract(s, "local")' => Abstract(s, "local")
  BY <1>1 DEF Local, Kept, sockets
<1>2. CASE Bare(s) /\ temp' = temp
  BY <1>2 DEF Bare, Kept
<1>3. ASSUME NEW u, u \notin temp'[s], temp'[s] \subseteq temp[s],
             UNCHANGED <<addr, flags>>,
             \A t \in Transports \ {u} :
               at'[s][t] = at[s][t] /\ sock'[s][t] = sock[s][t]
      PROVE  Kept(s)'
  BY <1>3 DEF Types, ControlType, Local, Kept, Abstract, Transports
<1>4. CASE \/ OpenCOTSServer(s) \/ Bind(s) \/ BindFails(s) \/ ListenFails(s)
           \/ ListenNoMem(s)
  <2>1. /\ Cur(s) \in Transports /\ Place(Cur(s)) = i[s]
        /\ pc[s] \in {"loop"} \union Making
    BY <1>4, CurIn, Table
       DEF Types, ControlType, Making, OpenCOTSServer, Bind, BindFails,
           ListenFails, ListenNoMem
  <2>2. Cur(s) \notin temp[s]
    BY <2>1, Places DEF Types, ControlType, Local, Passed, Walking
  <2>3. \A t \in Transports \ {Cur(s)} :
          at'[s][t] = at[s][t] /\ sock'[s][t] = sock[s][t]
    BY <1>4, <2>1
       DEF Types, SocketType, OpenCOTSServer, Bind, BindFails, ListenFails,
           ListenNoMem, SetSock
  <2>4. QED
    BY <1>3, <1>4, <2>2, <2>3
       DEF OpenCOTSServer, Bind, BindFails, ListenFails, ListenNoMem, walk
<1>5. ASSUME NEW t \in Transports,
             \/ AbortClose(s, t) \/ Close(s, t) \/ CloseForCloning(s, t)
      PROVE  Kept(s)'
  <2>1. temp'[s] = temp[s] \ {t} /\ addr' = addr /\ flags' = flags
    BY <1>5
       DEF Types, ControlType, AbortClose, Close, CloseForCloning, CloseSocket
  <2>2. \A u \in Transports \ {t} :
          at'[s][u] = at[s][u] /\ sock'[s][u] = sock[s][u]
    BY <1>5
       DEF Types, SocketType, AbortClose, Close, CloseForCloning, CloseSocket,
           SetSock
  <2>3. QED
    BY <1>3, <2>1, <2>2
<1>6. CASE ResetOpenFails(s) \/ ResetBindFails(s) \/ ResetListenFails(s)
  <2>1. /\ temp'[s] = temp[s] \ {victim[s]} /\ addr' = addr /\ flags' = flags
        /\ victim[s] \in Transports
    BY <1>6
       DEF Types, ControlType, ResetOpenFails, ResetBindFails,
           ResetListenFails, Forget
  <2>2. \A u \in Transports \ {victim[s]} :
          at'[s][u] = at[s][u] /\ sock'[s][u] = sock[s][u]
    BY <1>6, <2>1
       DEF Types, SocketType, ResetOpenFails, ResetBindFails,
           ResetListenFails, Forget, SetSock
  <2>3. QED
    BY <1>3, <2>1, <2>2
<1>7. ASSUME NEW t \in Transports, NEW state, NEW name, IsUnix(t),
             ~Abstract(s, t), SetSock(s, t, state, name),
             UNCHANGED <<temp, flags, addr>>,
             name = "path" => addr[s][t] = "path",
             state = "listening" => name \in {"path", "auto"}
      PROVE  Kept(s)'
  <2>1. \A u \in Transports :
          /\ at'[s][u] = IF u = t THEN name ELSE at[s][u]
          /\ sock'[s][u] = IF u = t THEN state ELSE sock[s][u]
    BY <1>7 DEF Types, SocketType, SetSock
  <2>2. QED
    BY <1>7, <2>1
       DEF Types, ControlType, Local, Kept, Abstract, IsUnix, Transports
<1>8. ASSUME NEW t \in Transports, ResetListener(s, t)
      PROVE  Kept(s)'
  BY <1>7, <1>8 DEF ResetListener, walk
<1>9. CASE ResetUnlink(s) \/ ResetBind(s) \/ ResetListen(s)
  <2>1. /\ IsUnix(victim[s]) /\ ~Abstract(s, victim[s])
        /\ victim[s] \in Transports /\ victim[s] \in temp[s]
    BY <1>9
       DEF Types, ControlType, Local, Victim, Resetting, ResetUnlink,
           ResetBind, ResetListen
  <2>2. CASE ResetUnlink(s)
    BY <1>7, <2>1, <2>2 DEF ResetUnlink, walk
  <2>3. CASE ResetBind(s)
    BY <1>7, <2>1, <2>3 DEF ResetBind, ResetName, walk
  <2>4. CASE ResetListen(s)
    <3>1. /\ at[s][victim[s]] \in {"path", "auto"}
          /\ at[s][victim[s]] = "path" => addr[s][victim[s]] = "path"
      BY <2>1, <2>4 DEF Local, Victim, Kept, ResetListen
    <3>2. QED
      BY <1>7, <2>1, <2>4, <3>1 DEF ResetListen, walk
  <2>5. QED
    BY <1>9, <2>2, <2>3, <2>4
<1>10. CASE ListenOk(s)
  <2>1. Cur(s) \in Transports /\ pc[s] = "listen" /\ flags' = flags
    BY <1>10, CurIn, Table DEF Types, ControlType, Making, ListenOk
  <2>2. /\ temp'[s] = temp[s] \union {Cur(s)}
        /\ \A t \in Transports :
             /\ at'[s][t] = IF t = Cur(s) THEN ListenName(s, t) ELSE at[s][t]
             /\ sock'[s][t] = IF t = Cur(s) THEN "listening" ELSE sock[s][t]
             /\ addr'[s][t] = IF t = Cur(s) THEN NameOf(s, t) ELSE addr[s][t]
    BY <1>10, <2>1 DEF Types, ControlType, SocketType, ListenOk, SetSock, Keep
  <2>3. IsUnix(Cur(s)) => ListenName(s, Cur(s)) = NameOf(s, Cur(s))
    BY <2>1, NameIn DEF Local, Bound, Making, ListenName
  <2>4. \A t \in temp'[s] :
          IsUnix(t) /\ at'[s][t] = "path" => addr'[s][t] = "path"
    BY <2>1, <2>2, <2>3 DEF Local, Kept, Types, ControlType
  <2>5. \A t \in temp'[s] : IsUnix(t) /\ sock'[s][t] = "listening" =>
          at'[s][t] \in {"path", "abstract", "auto"}
    BY <2>1, <2>2, <2>3 DEF Local, Kept, Types, ControlType, NameOf
  <2>6. "inet6" \in temp'[s] =>
          sock'[s]["inet6"] = "listening" /\ at'[s]["inet6"] = "port"
    BY <2>1, <2>2 DEF Local, Kept, Bound, ListenName, Transports
  <2>7. "local" \in temp'[s] /\ Abstract(s, "local") =>
          at'[s]["local"] = "abstract"
    BY <2>1, <2>2, <2>3 DEF Local, Kept, NameOf, IsUnix, Transports
  <2>8. QED
    BY <2>1, <2>4, <2>5, <2>6, <2>7 DEF Kept, Abstract
<1>11. CASE ConnectFallback(s)
  <2>1. "ABSTRACT" \notin flags'[s]["local"]
    BY <1>11 DEF Types, FlagType, ConnectFallback, Transports
  <2>2. QED
    BY <1>1, <1>11, <2>1 DEF ConnectFallback, walk, Abstract
<1>12. CASE \/ Receive(s)
            \/ \E p \in Configurable : NoListen(s, p) \/ Listen(s, p)
  BY <1>2, <1>12 DEF Receive, NoListen, Listen, walk, Local, Passed, Early
<1>13. CASE Exit(s)
  BY <1>13 DEF Types, ControlType, Exit, Kept
<1>14. CASE MakeListeners(s)
  BY <1>1, <1>4, <1>5, <1>10, <1>12, <1>14
     DEF MakeListeners, Abstract, walk, ReceiveFails, ReceiveEnd, Skip,
         OpenFails, MkdirFails, PathTooLong, Unlink, BindAllowed, BindInUse,
         AbortCloseReceived, AbortUnlink, AbortEnd, Finish, FinishNoMem
<1>15. CASE Serve(s)
  BY <1>1, <1>5, <1>6, <1>8, <1>9, <1>11, <1>15
     DEF Serve, Abstract, walk, CloseUnlink, Accept, CloseReceived,
         AcceptReceived, ResetReceived
<1>16. QED
  BY <1>1, <1>12, <1>13, <1>14, <1>15 DEF Step, Start, walk, Abstract

\* Victim: resets and the unlink of an abort are of path transports.
LEMMA StepVictim ==
  ASSUME Types, NEW s \in Servers, Local(s), Step(s)
  PROVE  Victim(s)'
<1>1. CASE pc'[s] \notin Resetting \union {"abort_unlink"}
  BY <1>1 DEF Victim, Resetting
<1>2. ASSUME NEW t \in Transports, AbortClose(s, t)
      PROVE  Victim(s)'
  <2>1. Place(t) < i[s]
    BY <1>2 DEF AbortClose, First, Local, Passed, Walking, Aborting
  <2>2. QED
    BY <1>2, <2>1
       DEF AbortClose, CloseSocket, Goto, Unlinks, Types, ControlType, Victim,
           Resetting, Abstract
<1>3. ASSUME NEW t \in Transports, ResetListener(s, t)
      PROVE  Victim(s)'
  BY <1>3
     DEF ResetListener, Goto, walk, Types, ControlType, Victim, Resetting,
         Abstract
<1>4. CASE ResetUnlink(s)
  BY <1>4
     DEF ResetUnlink, Goto, walk, Types, ControlType, Local, Victim,
         Resetting, Abstract
<1>5. CASE ResetBind(s)
  BY <1>5
     DEF ResetBind, SetSock, Goto, walk, Types, ControlType, SocketType,
         Local, Victim, Resetting, Abstract
<1>6. CASE MakeListeners(s)
  BY <1>1, <1>2, <1>6
     DEF MakeListeners, Types, ControlType, Resetting, Receive, ReceiveFails,
         ReceiveEnd, Skip, OpenFails, OpenCOTSServer, MkdirFails, PathTooLong,
         Unlink, Bind, BindAllowed, BindInUse, BindFails, ListenOk,
         ListenNoMem, ListenFails, AbortCloseReceived, AbortUnlink, AbortEnd,
         Finish, FinishNoMem, walk, sockets, masks, Goto, received, Continue,
         SetSock, ZeroMask, RestoreMask, Keep, UnlinkAddr
<1>7. CASE Serve(s)
  BY <1>1, <1>3, <1>4, <1>5, <1>7
     DEF Serve, Types, ControlType, Resetting, Close, CloseUnlink,
         CloseForCloning, Accept, ResetOpenFails, ResetBindFails, ResetListen,
         ResetListenFails, CloseReceived, AcceptReceived, ResetReceived,
         ConnectFallback, CloseSocket, Goto, masks, received, SetSock,
         UnlinkAddr, walk, sockets, Forget, RestoreMask, DropReceived
<1>8. QED
  BY <1>1, <1>6, <1>7
     DEF Step, NoListen, Listen, Start, Exit, Goto, Types, ControlType,
         Resetting

\* HasLocal: the walk passes the local transport with the abstract name, or
\* received it, or ends the call.
LEMMA StepHasLocal ==
  ASSUME Types, NEW s \in Servers, Local(s), Step(s)
  PROVE  HasLocal(s)'
<1>1. CASE ~LocalWorks
  BY <1>1 DEF HasLocal, LocalWorks
<1>2. CASE ~PastLocal(s)'
  BY <1>2 DEF HasLocal
<1>3. CASE /\ flags' = flags /\ at'[s]["local"] = at[s]["local"]
           /\ PastLocal(s)
  BY <1>3 DEF Local, HasLocal, Enabled
<1>4. ASSUME LocalWorks
      PROVE  Abstract(s, "local")
  BY <1>4, LocalAbstract DEF Local
<1>5. CASE Skip(s) \/ MkdirFails(s) \/ ListenOk(s) \/ ListenFails(s)
  <2>1. /\ i[s] \in 1 .. 5 /\ pc[s] \in {"loop"} \union Making
        /\ Cur(s) \in Transports /\ (i[s] = 4 <=> Cur(s) = "local")
    BY <1>5, Table
       DEF Types, ControlType, Making, Cur, Xtransports, Skip, MkdirFails,
           ListenOk, ListenFails
  <2>2. /\ pc'[s] \in {"loop", "overrun"} /\ flags' = flags
        /\ pc'[s] = "loop" => i'[s] = i[s] + 1
    BY <1>5
       DEF Types, ControlType, Skip, MkdirFails, ListenOk, ListenFails, Keep,
           Continue, Goto
  <2>3. i[s] # 4 \/ pc[s] = "listen" => (PastLocal(s)' => PastLocal(s))
    BY <2>1, <2>2 DEF PastLocal, Making, Resetting
  <2>4. CASE Skip(s)
    BY <1>2, <1>3, <2>1, <2>3, <2>4
       DEF Skip, Skipped, sockets, Local, FlagsOk, HasLocal, Enabled,
           Transports
  <2>5. CASE MkdirFails(s)
    BY <1>1, <1>2, <1>3, <1>4, <2>1, <2>3, <2>5
       DEF MkdirFails, Making, Local, Bound, NameOf, sockets
  <2>6. CASE ListenOk(s)
    <3>1. at[s]["local"] = "abstract" => at'[s]["local"] = "abstract"
      BY <2>1, <2>6
         DEF ListenOk, SetSock, ListenName, Types, SocketType, Transports
    <3>2. QED
      BY <2>2, <2>3, <2>6, <3>1 DEF ListenOk, Local, HasLocal, Enabled
  <2>7. CASE ListenFails(s)
    <3>1. LocalWorks => at[s][Cur(s)] = "port" /\ Cur(s) # "local"
      BY <2>1, <2>7
         DEF ListenFails, PortTaken, LocalWorks, Local, Bound, IsUnix
    <3>2. LocalWorks => at'[s]["local"] = at[s]["local"]
      BY <2>1, <2>7, <3>1
         DEF ListenFails, SetSock, Types, SocketType, Transports
    <3>3. QED
      BY <1>1, <1>2, <1>3, <2>2, <2>3, <2>7, <3>2 DEF ListenFails
  <2>8. QED
    BY <1>5, <2>4, <2>5, <2>6, <2>7
<1>6. CASE OpenCOTSServer(s)
  <2>1. /\ i[s] \in 1 .. 5 /\ Cur(s) \in Transports
        /\ (i[s] = 4 <=> Cur(s) = "local")
    BY <1>6, Table DEF Types, ControlType, Cur, Xtransports, OpenCOTSServer
  <2>2. /\ pc[s] = "loop" /\ pc'[s] \in {"unlink", "bind"}
        /\ i' = i /\ flags' = flags
    BY <1>6 DEF Types, ControlType, OpenCOTSServer, Goto, walk
  <2>3. Cur(s) # "local" => at'[s]["local"] = at[s]["local"]
    BY <1>6, <2>1 DEF OpenCOTSServer, SetSock, Types, SocketType, Transports
  <2>4. QED
    BY <1>2, <1>3, <2>1, <2>2, <2>3 DEF PastLocal, Making, Resetting
<1>7. CASE Bind(s) \/ BindAllowed(s)
  <2>1. /\ i[s] \in 1 .. 5 /\ Cur(s) \in Transports
        /\ (i[s] = 4 <=> Cur(s) = "local")
    BY <1>7, Table
       DEF Types, ControlType, Making, Cur, Xtransports, Bind, BindAllowed
  <2>2. /\ pc[s] = "bind" /\ pc'[s] = "listen" /\ i' = i /\ flags' = flags
    BY <1>7 DEF Types, ControlType, Bind, BindAllowed, Goto, walk
  <2>3. CASE Bind(s) /\ Cur(s) = "local"
    BY <1>1, <1>4, <2>1, <2>3
       DEF Bind, SetSock, NameOf, IsUnix, Types, SocketType, Transports,
           HasLocal
  <2>4. CASE Cur(s) # "local"
    <3>1. at'[s]["local"] = at[s]["local"]
      BY <1>7, <2>1, <2>4
         DEF Bind, BindAllowed, sockets, SetSock, Types, SocketType,
             Transports
    <3>2. QED
      BY <1>2, <1>3, <2>1, <2>2, <2>4, <3>1 DEF PastLocal, Making, Resetting
  <2>5. QED
    BY <1>7, <2>3, <2>4 DEF BindAllowed, InUseAllowed
<1>8. ASSUME NEW t \in Transports, ResetListener(s, t)
      PROVE  HasLocal(s)'
  BY <1>1, <1>3, <1>4, <1>8
     DEF ResetListener, SetSock, Types, SocketType, Transports, PastLocal
<1>9. CASE \/ ResetUnlink(s) \/ ResetBind(s) \/ ResetBindFails(s)
           \/ ResetListen(s)
  <2>1. /\ pc[s] \in Resetting /\ victim[s] \in Transports
        /\ LocalWorks => victim[s] # "local"
    BY <1>4, <1>9
       DEF Types, ControlType, Local, Victim, Resetting, ResetUnlink,
           ResetBind, ResetBindFails, ResetListen
  <2>2. LocalWorks => at'[s]["local"] = at[s]["local"]
    BY <1>9, <2>1
       DEF ResetUnlink, ResetBind, ResetBindFails, ResetListen, Forget,
           SetSock, Types, SocketType, Transports
  <2>3. QED
    BY <1>1, <1>3, <1>9, <2>1, <2>2
       DEF ResetUnlink, ResetBind, ResetBindFails, ResetListen, PastLocal
<1>10. CASE Finish(s) \/ Unlink(s) \/ AbortUnlink(s)
  BY <1>2, <1>3, <1>10, Table
     DEF Finish, Unlink, AbortUnlink, Goto, walk, sockets, Types, ControlType,
         PastLocal, Making, Resetting
<1>11. CASE MakeListeners(s)
  BY <1>1, <1>2, <1>5, <1>6, <1>7, <1>10, <1>11, Table
     DEF MakeListeners, Types, ControlType, Resetting, Making, PastLocal,
         LocalWorks, Local, Passed, Bare, Early, Receive, ReceiveFails,
         ReceiveEnd, OpenFails, PathTooLong, BindInUse, BindFails,
         ListenNoMem, AbortCloseReceived, AbortClose, AbortEnd, FinishNoMem,
         walk, sockets, masks, Goto, received, Continue, RestoreMask, SetSock,
         CloseSocket
<1>12. CASE Serve(s)
  BY <1>1, <1>2, <1>3, <1>8, <1>9, <1>12
     DEF Serve, Types, ControlType, Resetting, Making, PastLocal, LocalWorks,
         Close, CloseUnlink, CloseForCloning, Accept, ResetOpenFails,
         ResetListenFails, CloseReceived, AcceptReceived, ResetReceived,
         ConnectFallback, CloseSocket, Goto, masks, received, SetSock,
         UnlinkAddr, walk, sockets, Forget, RestoreMask, DropReceived
<1>13. CASE Start(s)
  BY <1>2, <1>13
     DEF Start, Goto, walk, Types, ControlType, Local, Passed, Bare, Early,
         PastLocal, Making, Resetting
<1>14. QED
  BY <1>2, <1>11, <1>12, <1>13
     DEF Step, NoListen, Listen, Exit, Goto, Types, ControlType, PastLocal,
         Making, Resetting

\* Complete: a listener is lost after the call only in a reset, which an
\* abstract transport does not go through.
LEMMA StepComplete ==
  ASSUME Types, NEW s \in Servers, Local(s), Step(s)
  PROVE  Complete(s)'
<1>1. CASE pc'[s] \notin {"up"} \union Resetting
  BY <1>1 DEF Complete
<1>2. CASE Finish(s)
  BY <1>2, FinishComplete
<1>3. CASE /\ pc[s] \in {"up"} \union Resetting
           /\ UNCHANGED <<partial, flags, units>>
           /\ temp[s] \intersect {"inet6", "local"} \subseteq temp'[s]
  BY <1>3 DEF Local, Complete, Enabled, UnitTrans, Abstract
<1>4. CASE ResetOpenFails(s) \/ ResetBindFails(s) \/ ResetListenFails(s)
  <2>1. /\ IsUnix(victim[s]) /\ ~Abstract(s, victim[s])
        /\ pc[s] \in Resetting
    BY <1>4
       DEF Local, Victim, Resetting, ResetOpenFails, ResetBindFails,
           ResetListenFails
  <2>2. /\ temp'[s] = temp[s] \ {victim[s]}
        /\ UNCHANGED <<partial, flags, units>>
    BY <1>4
       DEF Types, ControlType, ResetOpenFails, ResetBindFails,
           ResetListenFails, Forget, received
  <2>3. QED
    BY <2>1, <2>2 DEF Local, Complete, Enabled, UnitTrans, Abstract, IsUnix
<1>5. CASE ConnectFallback(s)
  <2>1. /\ "ABSTRACT" \notin flags'[s]["local"]
        /\ flags'[s]["inet6"] = flags[s]["inet6"]
    BY <1>5 DEF Types, FlagType, ConnectFallback, Transports
  <2>2. QED
    BY <1>1, <1>5, <2>1
       DEF ConnectFallback, walk, received, Resetting, Local, Complete,
           Enabled, UnitTrans, Abstract
<1>6. CASE MakeListeners(s)
  BY <1>1, <1>2, <1>6
     DEF MakeListeners, Types, ControlType, Resetting, Receive, ReceiveFails,
         ReceiveEnd, Skip, OpenFails, OpenCOTSServer, MkdirFails, PathTooLong,
         Unlink, Bind, BindAllowed, BindInUse, BindFails, ListenOk,
         ListenNoMem, ListenFails, AbortCloseReceived, AbortClose,
         AbortUnlink, AbortEnd, FinishNoMem, walk, sockets, masks, Goto,
         received, Continue, SetSock, ZeroMask, RestoreMask, Keep,
         CloseSocket, UnlinkAddr
<1>7. CASE Serve(s)
  BY <1>1, <1>3, <1>4, <1>5, <1>7
     DEF Serve, Types, ControlType, Resetting, Close, CloseUnlink,
         CloseForCloning, Accept, ResetListener, ResetUnlink, ResetBind,
         ResetListen, CloseReceived, AcceptReceived, ResetReceived,
         CloseSocket, Goto, masks, received, SetSock, UnlinkAddr, walk,
         sockets, ZeroMask, RestoreMask, DropReceived
<1>8. QED
  BY <1>1, <1>6, <1>7
     DEF Step, NoListen, Listen, Start, Exit, Goto, Types, ControlType,
         Resetting

\* Fits: an overrun happens in ListenOk only.
LEMMA StepFits ==
  ASSUME Types, NEW s \in Servers, Local(s), Step(s)
  PROVE  Fits(s)'
<1>1. CASE pc'[s] # "overrun"
  BY <1>1 DEF Fits
<1>2. CASE ListenOk(s)
  BY <1>2, ListenOkFits
<1>3. CASE MakeListeners(s)
  BY <1>1, <1>2, <1>3
     DEF MakeListeners, Types, ControlType, Receive, ReceiveFails, ReceiveEnd,
         Skip, OpenFails, OpenCOTSServer, MkdirFails, PathTooLong, Unlink,
         Bind, BindAllowed, BindInUse, BindFails, ListenNoMem, ListenFails,
         AbortCloseReceived, AbortClose, AbortUnlink, AbortEnd, Finish,
         FinishNoMem, walk, sockets, masks, Goto, received, Continue, SetSock,
         ZeroMask, RestoreMask, CloseSocket, UnlinkAddr
<1>4. CASE Serve(s)
  BY <1>1, <1>4
     DEF Serve, Types, ControlType, Close, CloseUnlink, CloseForCloning,
         Accept, ResetListener, ResetUnlink, ResetOpenFails, ResetBind,
         ResetBindFails, ResetListen, ResetListenFails, CloseReceived,
         AcceptReceived, ResetReceived, ConnectFallback, CloseSocket, Goto,
         masks, received, SetSock, UnlinkAddr, walk, sockets, ZeroMask,
         Forget, RestoreMask, DropReceived
<1>5. QED
  BY <1>1, <1>3, <1>4
     DEF Step, NoListen, Listen, Start, Exit, Goto, Types, ControlType

-----------------------------------------------------------------------------
(* The invariant of all the processes.                                     *)

\* A process that nothing changes for keeps its invariant.
LEMMA SameLocal ==
  ASSUME NEW o \in Servers, Same(o), units' = units, Local(o)
  PROVE  Local(o)'
<1>1. FlagsOk(o)' /\ Chosen(o)' /\ ReceivedOk(o)'
  BY DEF Same, Local, FlagsOk, Chosen, ReceivedOk, UnitTrans, Cur, HasUnit
<1>2. Passed(o)' /\ Holds(o)' /\ Bound(o)'
  BY DEF Same, Local, Passed, Holds, Bound, Bare, Cur, NameOf, Abstract
<1>3. Kept(o)' /\ Victim(o)'
  BY DEF Same, Local, Kept, Victim, Abstract
<1>4. HasLocal(o)' /\ Complete(o)' /\ Fits(o)'
  BY DEF Same, Local, HasLocal, Complete, Fits, PastLocal, Enabled, UnitTrans,
         Abstract, Surplus, ReceivedTrans, ReceivedKinds
<1>5. QED
  BY <1>1, <1>2, <1>3, <1>4 DEF Local

\* A step of a process keeps its invariant.
LEMMA StepLocal ==
  ASSUME Types, NEW s \in Servers, Local(s), Step(s)
  PROVE  Local(s)'
  BY StepFlagsOk, StepChosen, StepReceivedOk, StepPassed, StepHolds, StepBound,
     StepKept, StepVictim, StepHasLocal, StepComplete, StepFits DEF Local

\* The invariant holds when the processes begin.
LEMMA InitLocals == Init => Locals
<1> SUFFICES ASSUME Init PROVE Locals
  OBVIOUS
<1>1. Types
  <2>1. ControlType
    BY DEF Init, ControlType, Labels, Transports, Making, Aborting
  <2>2. SocketType
    BY DEF Init, SocketType, Transports
  <2>3. FlagType
    BY InitialFlagsIn DEF Init, FlagType
  <2>4. ReceivedType
    BY DEF Init, ReceivedType
  <2>5. QED
    BY <2>1, <2>2, <2>3, <2>4 DEF Types
<1>2. ASSUME NEW s \in Servers
      PROVE  Local(s)
  <2>1. /\ pc[s] = "idle" /\ Bare(s) /\ flags[s] = InitialFlags
        /\ recv[s] = <<>>
    BY DEF Init, Bare
  <2>2. FlagsOk(s)
    BY <2>1, InitialFlagsOk DEF FlagsOk, Transports
  <2>3. Chosen(s) /\ ReceivedOk(s) /\ Passed(s) /\ Holds(s)
    BY <2>1 DEF Chosen, ReceivedOk, Passed, Holds, Bare, Making, Walking,
                Aborting
  <2>4. Bound(s) /\ Kept(s) /\ Victim(s)
    BY <2>1 DEF Bound, Kept, Victim, Bare, Making, Resetting
  <2>5. HasLocal(s) /\ Complete(s) /\ Fits(s)
    BY <2>1 DEF HasLocal, Complete, Fits, PastLocal, Making, Resetting
  <2>6. QED
    BY <2>2, <2>3, <2>4, <2>5 DEF Local
<1>3. QED
  BY <1>1, <1>2 DEF Locals

\* A step of the system is one of a process or of the cleaner.
LEMMA NextStep == Next => (\E s \in Servers : Step(s)) \/ Clean
  BY DEF Next, Step

\* A cleaner touches no process.
LEMMA CleanSame ==
  ASSUME Clean
  PROVE  units' = units /\ \A o \in Servers : Same(o)
  BY DEF Clean, Same, walk, sockets, masks, received

\* The invariant is inductive.
LEMMA NextLocals == Locals /\ [Next]_vars => Locals'
<1> SUFFICES ASSUME Locals, [Next]_vars PROVE Locals'
  OBVIOUS
<1>1. ASSUME NEW s \in Servers, Step(s)
      PROVE  Locals'
  <2>1. Types' /\ Local(s)' /\ Others(s)
    BY <1>1, StepTypes, StepLocal, StepOthers DEF Locals
  <2>2. QED
    BY <2>1, SameLocal DEF Locals, Others
<1>2. CASE Clean
  <2>1. Types'
    BY <1>2 DEF Locals, Types, ControlType, SocketType, FlagType, ReceivedType,
                Clean, walk, sockets, masks, received
  <2>2. QED
    BY <1>2, <2>1, CleanSame, SameLocal DEF Locals
<1>3. CASE UNCHANGED vars
  <2>1. Types'
    BY <1>3 DEF Locals, Types, ControlType, SocketType, FlagType, ReceivedType,
                vars, walk, sockets, masks, received
  <2>2. units' = units /\ \A o \in Servers : Same(o)
    BY <1>3 DEF vars, walk, sockets, masks, received, Same
  <2>3. QED
    BY <2>1, <2>2, SameLocal DEF Locals
<1>4. QED
  BY <1>1, <1>2, <1>3, NextStep

\* The types, and for every process the invariant of its table walk, hold in
\* every behaviour, for any number of processes, whatever systemd hands over,
\* whatever transports are configured and whatever may fail.
THEOREM LocalsHold == Spec => []Locals
<1>1. Init => Locals
  BY InitLocals
<1>2. Locals /\ [Next]_vars => Locals'
  BY NextLocals
<1>3. QED
  BY <1>1, <1>2, PTL DEF Spec

=============================================================================
