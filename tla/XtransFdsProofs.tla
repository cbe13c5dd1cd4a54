-------------------------- MODULE XtransFdsProofs --------------------------
(***************************************************************************)
(* Proofs about descriptor passing, for any set of files and any bounds.   *)
(***************************************************************************)
EXTENDS XtransFds, SequenceTheorems, TLAPS

-----------------------------------------------------------------------------
(* Sequences.                                                              *)

\* The elements of a concatenation are those of its parts.
LEMMA ToSetConcat ==
  ASSUME NEW S, NEW s \in Seq(S), NEW t \in Seq(S)
  PROVE  ToSet(s \o t) = ToSet(s) \union ToSet(t)
<1>1. ASSUME NEW x \in ToSet(s \o t) PROVE x \in ToSet(s) \union ToSet(t)
  <2>1. PICK j \in 1 .. Len(s) + Len(t) : x = (s \o t)[j]
    BY <1>1 DEF ToSet
  <2>2. CASE j <= Len(s)
    BY <2>1, <2>2 DEF ToSet
  <2>3. CASE j > Len(s)
    <3>1. x = t[j - Len(s)] /\ j - Len(s) \in DOMAIN t
      BY <2>1, <2>3
    <3> QED BY <3>1 DEF ToSet
  <2> QED BY <2>1, <2>2, <2>3
<1>2. ASSUME NEW x \in ToSet(s) PROVE x \in ToSet(s \o t)
  <2>1. PICK j \in 1 .. Len(s) : x = s[j]
    BY <1>2 DEF ToSet
  <2>2. j \in DOMAIN (s \o t) /\ x = (s \o t)[j]
    BY <2>1
  <2> QED BY <2>2 DEF ToSet
<1>3. ASSUME NEW x \in ToSet(t) PROVE x \in ToSet(s \o t)
  <2>1. PICK j \in 1 .. Len(t) : x = t[j]
    BY <1>3 DEF ToSet
  <2>2. Len(s) + j \in DOMAIN (s \o t) /\ x = (s \o t)[Len(s) + j]
    BY <2>1
  <2> QED BY <2>2 DEF ToSet
<1> QED BY <1>1, <1>2, <1>3

\* The elements of a sequence with one more at the end.
LEMMA ToSetAppend ==
  ASSUME NEW S, NEW s \in Seq(S), NEW e \in S
  PROVE  ToSet(Append(s, e)) = ToSet(s) \union {e}
<1>1. ToSet(<<e>>) = {e}
  BY DEF ToSet
<1>2. Append(s, e) = s \o <<e>>
  BY AppendIsConcat
<1>3. <<e>> \in Seq(S)
  OBVIOUS
<1>4. ToSet(s \o <<e>>) = ToSet(s) \union ToSet(<<e>>)
  BY <1>3, ToSetConcat
<1> QED BY <1>1, <1>2, <1>4

\* A sequence is a prefix of what starts with it.
LEMMA PrefixConcat ==
  ASSUME NEW S, NEW s \in Seq(S), NEW t \in Seq(S)
  PROVE  IsPrefix(s, s \o t)
<1>1. SubSeq(s \o t, 1, Len(s)) = s
  BY SubSeqOfConcat1, SubSeqFull, LenProperties
<1>2. SubSeq(s, 1, Len(s)) = s
  BY SubSeqFull
<1>3. Len(s) <= Len(s \o t)
  BY ConcatProperties, LenProperties
<1> QED BY <1>1, <1>2, <1>3 DEF IsPrefix

\* It stays one when the longer sequence grows at its end.
LEMMA PrefixAppend ==
  ASSUME NEW S, NEW s \in Seq(S), NEW t \in Seq(S), NEW e \in S,
         IsPrefix(s, t)
  PROVE  IsPrefix(s, Append(t, e))
<1>1. Len(s) \in Nat /\ Len(t) \in Nat /\ Len(s) <= Len(t)
  BY LenProperties DEF IsPrefix
<1>2. Append(t, e) = t \o <<e>> /\ <<e>> \in Seq(S)
  BY AppendIsConcat
<1>3. SubSeq(t \o <<e>>, 1, Len(s)) = SubSeq(t, 1, Len(s))
  BY <1>1, <1>2, SubSeqOfConcat1
<1>4. Len(Append(t, e)) = Len(t) + 1
  BY AppendProperties
<1> QED BY <1>1, <1>2, <1>3, <1>4 DEF IsPrefix

-----------------------------------------------------------------------------
(* Descriptors do not fall behind the bytes.                               *)

\* The byte a descriptor is attached to is the next one to be written while
\* it is queued, and one not yet read while it is in flight.
Ahead ==
  /\ send_fds \in Seq(Files) /\ wire \in Seq(Files) /\ sent \in Seq(Files)
  /\ off \in [Files -> Nat] /\ wr \in Nat /\ rd \in Nat /\ rd <= wr
  /\ ToSet(send_fds) \subseteq ToSet(sent)
  /\ ToSet(wire) \subseteq ToSet(sent)
  /\ \A f \in ToSet(send_fds) : off[f] = wr
  /\ \A f \in ToSet(wire) : rd <= off[f]

\* The elements of the end of a sequence are among its elements.
LEMMA ToSetRest ==
  ASSUME NEW S, NEW s \in Seq(S), NEW n \in 0 .. Len(s)
  PROVE  /\ SubSeq(s, n + 1, Len(s)) \in Seq(S)
         /\ \A x \in ToSet(SubSeq(s, n + 1, Len(s))) :
              \E j \in n + 1 .. Len(s) : x = s[j]
<1>1. /\ SubSeq(s, n + 1, Len(s)) \in Seq(S)
      /\ DOMAIN SubSeq(s, n + 1, Len(s)) = 1 .. Len(s) - n
      /\ \A j \in 1 .. Len(s) - n : SubSeq(s, n + 1, Len(s))[j] = s[n + j]
  OBVIOUS
<1> QED BY <1>1 DEF ToSet

\* A read leaves in flight only descriptors of bytes it did not read.
LEMMA RecvMsgAhead ==
  ASSUME Ahead, NEW k \in 1 .. MaxChunk, NEW n \in 0 .. Len(wire),
         RecvMsg(k, n), send_fds' = send_fds, sent' = sent, off' = off, wr' = wr
  PROVE  Ahead'
<1>1. /\ rd' = rd + k /\ k \in Nat /\ rd' \in Nat /\ rd' <= wr
      /\ wire' = SubSeq(wire, n + 1, Len(wire))
      /\ Touched(rd + k) = 1 .. n
  BY FdsAssumption DEF RecvMsg, Ahead
<1>2. wire' \in Seq(Files)
  BY <1>1, ToSetRest DEF Ahead
<1>3. ASSUME NEW f \in ToSet(wire') PROVE f \in ToSet(wire) /\ rd' <= off[f]
  <2>1. PICK j \in n + 1 .. Len(wire) : f = wire[j]
    BY <1>1, <1>3, ToSetRest DEF Ahead
  <2>2. j \in DOMAIN wire /\ wire[j] \in Files
    BY <2>1 DEF Ahead
  <2>3. ~(off[wire[j]] < rd + k)
    BY <1>1, <2>1, <2>2 DEF Touched
  <2>4. off[wire[j]] \in Nat
    BY <2>2 DEF Ahead
  <2> QED BY <1>1, <2>1, <2>2, <2>3, <2>4 DEF ToSet
<1> QED BY <1>1, <1>2, <1>3 DEF Ahead

\* The invariant behind FdBeforeByte holds in every behaviour.
LEMMA AheadInvariant == Spec => []Ahead
<1>1. Init => Ahead
  BY DEF Init, Ahead, ToSet
<1>2. Ahead /\ [Next]_vars => Ahead'
  <2> SUFFICES ASSUME Ahead, [Next]_vars PROVE Ahead'
    OBVIOUS
  <2>1. CASE UNCHANGED vars
    BY <2>1 DEF vars, sendSide, Ahead
  <2>2. ASSUME NEW f \in Files, NEW c \in BOOLEAN, SendFd(f, c) PROVE Ahead'
    <3>1. /\ send_fds' = Append(send_fds, f) /\ sent' = Append(sent, f)
          /\ off' = [off EXCEPT ![f] = wr]
          /\ UNCHANGED <<wire, wr, rd>> /\ f \notin ToSet(sent)
      BY <2>2 DEF SendFd, AppendFd
    <3>2. /\ ToSet(send_fds') = ToSet(send_fds) \union {f}
          /\ ToSet(sent') = ToSet(sent) \union {f}
          /\ send_fds' \in Seq(Files) /\ sent' \in Seq(Files)
      BY <3>1, ToSetAppend, AppendProperties DEF Ahead
    <3>3. off' \in [Files -> Nat] /\ off'[f] = wr
      BY <3>1 DEF Ahead
    <3>4. \A g : g # f /\ g \in Files => off'[g] = off[g]
      BY <3>1 DEF Ahead
    <3>5. ToSet(send_fds) \subseteq Files /\ ToSet(wire) \subseteq Files
      BY DEF Ahead, ToSet
    <3> QED BY <3>1, <3>2, <3>3, <3>4, <3>5 DEF Ahead
  <2>3. ASSUME NEW f \in Files, NEW c \in BOOLEAN, SendFdNoMem(f, c)
        PROVE Ahead'
    <3>1. sent' = Append(sent, f) /\ UNCHANGED <<send_fds, wire, off, wr, rd>>
      BY <2>3 DEF SendFdNoMem, recvSide
    <3>2. ToSet(sent') = ToSet(sent) \union {f} /\ sent' \in Seq(Files)
      BY <3>1, ToSetAppend, AppendProperties DEF Ahead
    <3> QED BY <3>1, <3>2 DEF Ahead
  <2>4. ASSUME NEW k \in 1 .. MaxChunk, Writev(k) PROVE Ahead'
    <3>1. /\ wr' = wr + k /\ k \in Nat /\ wire' = wire \o send_fds
          /\ send_fds' = SubSeq(send_fds, Len(send_fds) + 1, Len(send_fds))
          /\ UNCHANGED <<sent, off, rd>>
      BY <2>4, FdsAssumption DEF Writev, Carried
    <3>2. send_fds' = <<>>
      BY <3>1, SubSeqEmpty, LenProperties DEF Ahead
    <3>3. ToSet(wire') = ToSet(wire) \union ToSet(send_fds)
          /\ wire' \in Seq(Files)
      BY <3>1, ToSetConcat, ConcatProperties DEF Ahead
    <3>4. ToSet(send_fds') = {}
      BY <3>2 DEF ToSet
    <3> QED BY <3>1, <3>2, <3>3, <3>4 DEF Ahead
  <2>5. CASE CloseSender
    <3>1. send_fds' = <<>> /\ UNCHANGED <<wire, sent, off, wr, rd>>
      BY <2>5 DEF CloseSender
    <3>2. ToSet(send_fds') = {}
      BY <3>1 DEF ToSet
    <3> QED BY <3>1, <3>2 DEF Ahead
  <2>6. ASSUME NEW k \in 1 .. MaxChunk, NEW n \in 0 .. Len(wire), Read(k, n)
        PROVE Ahead'
    BY <2>6, RecvMsgAhead DEF Read, sendSide
  <2>7. ASSUME NEW k \in 1 .. MaxChunk, NEW n \in 0 .. Len(wire),
               NEW at \in Spared(n), ReadNoMem(k, n, at)
        PROVE Ahead'
    BY <2>7, RecvMsgAhead DEF ReadNoMem, sendSide
  <2>8. CASE CloseReceiver
    <3>1. wire' = <<>> /\ UNCHANGED <<send_fds, sent, off, wr, rd>>
      BY <2>8 DEF CloseReceiver, sendSide
    <3>2. ToSet(wire') = {}
      BY <3>1 DEF ToSet
    <3> QED BY <3>1, <3>2 DEF Ahead
  <2>9. ASSUME UNCHANGED <<send_fds, wire, sent, off, wr, rd>> PROVE Ahead'
    BY <2>9 DEF Ahead
  <2>10. CASE \E f \in Files : OpenFile(f) \/ CloseOwned(f)
    BY <2>9, <2>10 DEF OpenFile, CloseOwned, recvSide
  <2>11. CASE Disconnect \/ RecvFd
    BY <2>9, <2>11 DEF Disconnect, RecvFd, sendSide
  <2> QED BY <2>1, <2>2, <2>3, <2>4, <2>5, <2>6, <2>7, <2>8, <2>10, <2>11
          DEF Next
<1> QED BY <1>1, <1>2, PTL DEF Spec

\* For any files, bounds and allocation failures, a descriptor is handed to
\* recv_fds no later than the first byte written after it was queued.
THEOREM FdBeforeByteHolds == Spec => []FdBeforeByte
<1>1. Ahead => FdBeforeByte
  BY DEF Ahead, FdBeforeByte, InSend, InWire
<1> QED BY <1>1, AheadInvariant, PTL

\* Facts on sequences of files that the steps below use: they are closed
\* under concatenation;
LEMMA FileConcat == \A a, b \in Seq(Files) : a \o b \in Seq(Files)
BY ConcatProperties

\* Concatenation is associative;
LEMMA FileAssoc ==
  \A a, b, c \in Seq(Files) : (a \o b) \o c = a \o (b \o c)
BY ConcatAssociative

\* appending to a concatenation appends to its second part;
LEMMA FileAppend ==
  \A a, b \in Seq(Files) : \A e \in Files : Append(a \o b, e) = a \o Append(b, e)
<1> TAKE a, b \in Seq(Files)
<1> TAKE e \in Files
<1> DEFINE u == <<e>>
<1>1. u \in Seq(Files)
  OBVIOUS
<1>2. Append(a \o b, e) = (a \o b) \o u /\ Append(b, e) = b \o u
  BY FileConcat, AppendIsConcat
<1> HIDE DEF u
<1> QED BY <1>1, <1>2, FileAssoc

\* four parts may be grouped around the two in the middle.
LEMMA FileShift ==
  \A a, b, c, d \in Seq(Files) : (a \o b) \o (c \o d) = a \o ((b \o c) \o d)
<1> TAKE a, b, c, d \in Seq(Files)
<1>1. c \o d \in Seq(Files)
  BY FileConcat
<1>2. (a \o b) \o (c \o d) = a \o (b \o (c \o d))
  BY <1>1, FileAssoc
<1>3. b \o (c \o d) = (b \o c) \o d
  BY FileAssoc
<1> QED BY <1>2, <1>3

-----------------------------------------------------------------------------
(* Nothing is lost, repeated or overtaken while allocations succeed.       *)

\* The sequences a descriptor passes through.
Lists ==
  /\ send_fds \in Seq(Files) /\ wire \in Seq(Files) /\ recv_fds \in Seq(Files)
  /\ got \in Seq(Files) /\ sent \in Seq(Files) /\ lost \in Seq(Files)

\* Before the sender's close nothing is lost; the pipeline is what was sent;
\* after the receiver's close got is still a prefix of it.
Orderly ==
  /\ Lists
  /\ sconn # "closed" => lost = <<>>
  /\ rconn = "open" => sent = Pipeline
  /\ IsPrefix(got, sent)

\* Once an allocation has failed nothing is claimed.
OrderInv == ~broken => Orderly

\* While the receiver is open, the prefix follows from the pipeline.
LEMMA PipelinePrefix ==
  ASSUME Lists, sent = Pipeline
  PROVE  IsPrefix(got, sent)
<1>1. recv_fds \o (wire \o (send_fds \o lost)) \in Seq(Files)
  BY FileConcat DEF Lists
<1> QED BY <1>1, PrefixConcat DEF Lists, Pipeline

\* Steps that keep Orderly, one lemma for each action that moves a descriptor:
\* SendFd puts it at the end of the pipeline;
LEMMA OrderlySendFd ==
  ASSUME Orderly, NEW f \in Files, NEW c \in BOOLEAN, SendFd(f, c)
  PROVE  Orderly'
<1>0. /\ send_fds \in Seq(Files) /\ wire \in Seq(Files) /\ recv_fds \in Seq(Files)
      /\ got \in Seq(Files) /\ sent \in Seq(Files) /\ lost \in Seq(Files)
  BY DEF Orderly, Lists
<1>1. /\ send_fds' = Append(send_fds, f) /\ sent' = Append(sent, f)
      /\ lost = <<>> /\ UNCHANGED <<sconn, lost, wire, recv_fds, rconn, got>>
  BY DEF SendFd, AppendFd, recvSide, Orderly
<1>2. Lists'
  BY <1>0, <1>1, AppendProperties DEF Lists
<1>3. ASSUME rconn' = "open" PROVE sent' = Pipeline'
  <2>1. sent = got \o (recv_fds \o (wire \o send_fds))
    BY <1>0, <1>1, <1>3, ConcatEmptySeq DEF Orderly, Pipeline, Lists
  <2>2. /\ wire \o send_fds \in Seq(Files)
        /\ recv_fds \o (wire \o send_fds) \in Seq(Files)
    BY <1>0, FileConcat
  <2>3. Append(got \o (recv_fds \o (wire \o send_fds)), f)
          = got \o Append(recv_fds \o (wire \o send_fds), f)
    BY <1>0, <2>2, FileAppend
  <2>4. Append(recv_fds \o (wire \o send_fds), f)
          = recv_fds \o Append(wire \o send_fds, f)
    BY <1>0, <2>2, FileAppend
  <2>5. Append(wire \o send_fds, f) = wire \o Append(send_fds, f)
    BY <1>0, FileAppend
  <2>6. Pipeline' = got \o (recv_fds \o (wire \o Append(send_fds, f)))
    <3>1. send_fds' \o lost' = Append(send_fds, f)
      BY <1>0, <1>1, <1>2, ConcatEmptySeq DEF Lists
    <3> QED BY <1>1, <3>1 DEF Pipeline
  <2> QED BY <1>1, <2>1, <2>3, <2>4, <2>5, <2>6
<1>4. IsPrefix(got', sent')
  <2>1. IsPrefix(got, sent)
    BY DEF Orderly
  <2> QED BY <1>0, <1>1, <2>1, PrefixAppend
<1> QED BY <1>1, <1>2, <1>3, <1>4 DEF Orderly

\* a write moves all of send_fds to the end of what is in flight;
LEMMA OrderlyWritev ==
  ASSUME Orderly, NEW k \in 1 .. MaxChunk, Writev(k)
  PROVE  Orderly'
<1>0. /\ send_fds \in Seq(Files) /\ wire \in Seq(Files) /\ recv_fds \in Seq(Files)
      /\ got \in Seq(Files) /\ sent \in Seq(Files) /\ lost \in Seq(Files)
  BY DEF Orderly, Lists
<1>1. /\ wire' = wire \o send_fds
      /\ send_fds' = SubSeq(send_fds, Len(send_fds) + 1, Len(send_fds))
      /\ UNCHANGED <<sconn, lost, recv_fds, rconn, got, sent>>
  BY DEF Writev, Carried, recvSide
<1>2. send_fds' = <<>>
  BY <1>0, <1>1, SubSeqEmpty, LenProperties
<1>3. Lists'
  BY <1>0, <1>1, <1>2, FileConcat, EmptySeq DEF Lists
<1>4. Pipeline' = Pipeline
  <2>1. wire \o (send_fds \o lost) = (wire \o send_fds) \o lost
    BY <1>0, FileAssoc
  <2>2. <<>> \o lost = lost
    BY <1>0, ConcatEmptySeq
  <2> QED BY <1>1, <1>2, <2>1, <2>2 DEF Pipeline
<1> QED BY <1>1, <1>3, <1>4 DEF Orderly

\* the sender's close turns what is queued into what is lost;
LEMMA OrderlyCloseSender ==
  ASSUME Orderly, CloseSender
  PROVE  Orderly'
<1>0. /\ send_fds \in Seq(Files) /\ wire \in Seq(Files) /\ recv_fds \in Seq(Files)
      /\ got \in Seq(Files) /\ sent \in Seq(Files) /\ lost \in Seq(Files)
  BY DEF Orderly, Lists
<1>1. /\ lost = <<>> /\ lost' = send_fds /\ send_fds' = <<>>
      /\ sconn' = "closed" /\ UNCHANGED <<wire, recv_fds, rconn, got, sent>>
  BY DEF CloseSender, recvSide, Orderly
<1>2. Lists'
  BY <1>1, EmptySeq DEF Orderly, Lists
<1>3. send_fds \o lost = send_fds /\ send_fds' \o lost' = send_fds
  BY <1>0, <1>1, ConcatEmptySeq
<1> QED BY <1>1, <1>2, <1>3 DEF Orderly, Pipeline

\* The two lists a read works on.
Arriving == wire \in Seq(Files) /\ recv_fds \in Seq(Files)

\* A read moves the head of what is in flight to recv_fds.
LEMMA OrderlyReadSplit ==
  ASSUME Arriving, NEW k \in 1 .. MaxChunk, NEW n \in 0 .. Len(wire), Read(k, n)
  PROVE  \E a, r \in Seq(Files) :
           recv_fds' = recv_fds \o a /\ wire' = r /\ wire = a \o r
<1> DEFINE x == SubSeq(wire, 1, n)
           y == SubSeq(wire, n + 1, Len(wire))
<1>0. wire \in Seq(Files)
  BY DEF Arriving
<1>1. /\ Len(wire) \in Nat /\ 1 \in 1 .. Len(wire) + 1
      /\ n \in 1 - 1 .. Len(wire) /\ Len(wire) \in n .. Len(wire)
  BY <1>0, LenProperties
<1>2. x \in Seq(Files) /\ y \in Seq(Files)
  BY <1>0, <1>1
<1>3. x \o y = wire
  BY <1>0, <1>1, ConcatAdjacentSubSeq, SubSeqFull
<1>4. recv_fds' = recv_fds \o x /\ wire' = y
  BY DEF Read, RecvMsg, Arrived
<1> QED BY <1>2, <1>3, <1>4

\* so the two lists together stay the same;
LEMMA OrderlyReadKeeps ==
  ASSUME Arriving, NEW k \in 1 .. MaxChunk, NEW n \in 0 .. Len(wire), Read(k, n)
  PROVE  /\ recv_fds' \in Seq(Files) /\ wire' \in Seq(Files)
         /\ \A x \in Seq(Files) : recv_fds' \o (wire' \o x) = recv_fds \o (wire \o x)
<1>1. PICK a, r \in Seq(Files) :
        recv_fds' = recv_fds \o a /\ wire' = r /\ wire = a \o r
  BY OrderlyReadSplit
<1>2. a \in Seq(Files) /\ r \in Seq(Files) /\ recv_fds \in Seq(Files)
  BY <1>1 DEF Arriving
<1>3. \A x \in Seq(Files) :
        (recv_fds \o a) \o (r \o x) = recv_fds \o ((a \o r) \o x)
  BY <1>2, FileShift
<1>4. recv_fds \o a \in Seq(Files)
  BY <1>2, FileConcat
<1> QED BY <1>1, <1>2, <1>3, <1>4

\* and a read keeps the pipeline as it is;
LEMMA OrderlyRead ==
  ASSUME Orderly, NEW k \in 1 .. MaxChunk, NEW n \in 0 .. Len(wire), Read(k, n)
  PROVE  Orderly'
<1>0. /\ send_fds \in Seq(Files) /\ got \in Seq(Files) /\ sent \in Seq(Files)
      /\ lost \in Seq(Files)
  BY DEF Orderly, Lists
<1>1. /\ recv_fds' \in Seq(Files) /\ wire' \in Seq(Files)
      /\ \A x \in Seq(Files) : recv_fds' \o (wire' \o x) = recv_fds \o (wire \o x)
  BY OrderlyReadKeeps DEF Arriving, Orderly, Lists
<1>2. UNCHANGED <<send_fds, sconn, lost, rconn, got, sent>>
  BY DEF Read, sendSide
<1>3. Lists'
  BY <1>0, <1>1, <1>2 DEF Lists
<1>4. Pipeline' = Pipeline
  <2>1. send_fds \o lost \in Seq(Files)
    BY <1>0, FileConcat
  <2> QED BY <1>1, <1>2, <2>1 DEF Pipeline
<1> QED BY <1>2, <1>3, <1>4 DEF Orderly

\* RecvFd moves the head of recv_fds to the program.
LEMMA OrderlyRecvFd ==
  ASSUME Orderly, RecvFd
  PROVE  Orderly'
<1>0. /\ send_fds \in Seq(Files) /\ wire \in Seq(Files) /\ recv_fds \in Seq(Files)
      /\ got \in Seq(Files) /\ sent \in Seq(Files) /\ lost \in Seq(Files)
  BY DEF Orderly, Lists
<1>1. /\ recv_fds # <<>> /\ rconn = "open"
      /\ got' = Append(got, Head(recv_fds)) /\ recv_fds' = Tail(recv_fds)
      /\ UNCHANGED <<send_fds, sconn, lost, rconn, wire, sent>>
  BY DEF RecvFd, sendSide
<1>2. PICK h, t \in Seq(Files) :
        got' = got \o h /\ recv_fds' = t /\ recv_fds = h \o t
  <2>1. Head(recv_fds) \in Files /\ Tail(recv_fds) \in Seq(Files)
    BY <1>0, <1>1
  <2>2. got' = got \o <<Head(recv_fds)>>
    BY <1>0, <1>1, <2>1, AppendIsConcat
  <2>3. recv_fds = <<Head(recv_fds)>> \o Tail(recv_fds)
    BY <1>0, <1>1
  <2>4. <<Head(recv_fds)>> \in Seq(Files)
    BY <2>1
  <2> QED BY <1>1, <2>1, <2>2, <2>3, <2>4
<1>4. Lists'
  BY <1>0, <1>1, <1>2, FileConcat DEF Lists
<1>5. Pipeline' = Pipeline
  <2>1. wire \o (send_fds \o lost) \in Seq(Files)
    BY <1>0, FileConcat
  <2>2. h \in Seq(Files) /\ t \in Seq(Files) /\ got \in Seq(Files)
    BY <1>0, <1>2
  <2>3. \A x \in Seq(Files) : (got \o h) \o (t \o x) = got \o ((h \o t) \o x)
    BY <2>2, FileShift
  <2>4. (got \o h) \o (t \o (wire \o (send_fds \o lost)))
          = got \o ((h \o t) \o (wire \o (send_fds \o lost)))
    BY <2>1, <2>3, Zenon
  <2> QED BY <1>1, <1>2, <2>4 DEF Pipeline
<1>6. IsPrefix(got', sent')
  <2>1. sent' = Pipeline'
    BY <1>1, <1>5 DEF Orderly
  <2>2. (Lists /\ sent = Pipeline => IsPrefix(got, sent))'
    BY <2>1, <1>4, PipelinePrefix, PTL
  <2> QED BY <1>4, <2>1, <2>2
<1> QED BY <1>1, <1>4, <1>5, <1>6 DEF Orderly

\* Orderly holds as long as no allocation has failed.
LEMMA OrderInvariant == Spec => []OrderInv
<1>1. Init => OrderInv
  <2> SUFFICES ASSUME Init PROVE Orderly
    BY DEF OrderInv
  <2>1. Lists /\ lost = <<>> /\ sent = <<>> /\ Pipeline = <<>> /\ got = <<>>
    BY DEF Init, Lists, Pipeline
  <2>2. IsPrefix(got, sent)
    BY <2>1, PipelinePrefix
  <2> QED BY <2>1, <2>2 DEF Orderly
<1>2. OrderInv /\ [Next]_vars => OrderInv'
  <2> SUFFICES ASSUME OrderInv, [Next]_vars, ~broken' PROVE Orderly'
    BY DEF OrderInv
  <2>1. ASSUME NEW f \in Files, NEW c \in BOOLEAN, SendFd(f, c) PROVE Orderly'
    BY <2>1, OrderlySendFd DEF SendFd, OrderInv
  <2>2. ASSUME NEW k \in 1 .. MaxChunk, Writev(k) PROVE Orderly'
    BY <2>2, OrderlyWritev DEF Writev, OrderInv
  <2>3. CASE CloseSender
    BY <2>3, OrderlyCloseSender DEF CloseSender, OrderInv
  <2>4. ASSUME NEW k \in 1 .. MaxChunk, NEW n \in 0 .. Len(wire), Read(k, n)
        PROVE Orderly'
    BY <2>4, OrderlyRead DEF Read, OrderInv
  <2>5. CASE RecvFd
    BY <2>5, OrderlyRecvFd DEF RecvFd, OrderInv
  <2>6. CASE CloseReceiver
    <3>1. /\ recv_fds' = <<>> /\ wire' = <<>> /\ rconn' = "closed" /\ Orderly
          /\ UNCHANGED <<send_fds, sconn, lost, got, sent>>
      BY <2>6 DEF CloseReceiver, sendSide, OrderInv
    <3>2. Lists'
      BY <3>1, EmptySeq DEF Orderly, Lists
    <3> QED BY <3>1, <3>2 DEF Orderly
  <2>7. ASSUME NEW f \in Files, NEW c \in BOOLEAN, SendFdNoMem(f, c)
        PROVE FALSE
    BY <2>7 DEF SendFdNoMem
  <2>8. ASSUME NEW k \in 1 .. MaxChunk, NEW n \in 0 .. Len(wire),
               NEW at \in Spared(n), ReadNoMem(k, n, at)
        PROVE FALSE
    BY <2>8 DEF ReadNoMem
  <2>9. ASSUME Orderly, sconn' # "closed" => sconn # "closed",
               UNCHANGED <<send_fds, lost, sent, recv_fds, rconn, got, wire>>
        PROVE Orderly'
    BY <2>9 DEF Orderly, Lists, Pipeline
  <2>10. CASE Disconnect \/ \E f \in Files : OpenFile(f) \/ CloseOwned(f)
    BY <2>9, <2>10 DEF Disconnect, OpenFile, CloseOwned, recvSide, OrderInv
  <2>11. CASE UNCHANGED vars
    BY <2>9, <2>11 DEF vars, sendSide, recvSide, OrderInv
  <2> QED BY <2>1, <2>2, <2>3, <2>4, <2>5, <2>6, <2>7, <2>8, <2>10, <2>11
          DEF Next
<1> QED BY <1>1, <1>2, PTL DEF Spec

\* For any files and bounds: until an allocation fails, what SendFd accepted
\* is, in order, with the receiver, on its way, or was dropped by the close.
THEOREM ConservationHolds == Spec => []Conservation
<1>1. OrderInv => Conservation
  BY DEF OrderInv, Orderly, Conservation
<1> QED BY <1>1, OrderInvariant, PTL

\* For any files and bounds: until an allocation fails, the receiving program
\* has a prefix of what the sending program passed.
THEOREM InOrderHolds == Spec => []InOrder
<1>1. OrderInv => InOrder
  BY DEF OrderInv, Orderly, InOrder
<1> QED BY <1>1, OrderInvariant, PTL

-----------------------------------------------------------------------------
(* Who closes a descriptor of the sender.                                  *)

\* A descriptor is closed by the library or by the program, never by both:
\* do_close takes it out of sowned.  One that the library must close and
\* that is still open is on send_fds.
Duties ==
  /\ fresh \intersect (closing \union sowned) = {}
  /\ closing \intersect sowned = {}
  /\ closing \intersect sopen \subseteq ToSet(send_fds)
  /\ sconn = "closed" => ToSet(send_fds) = {}
  /\ ~broken => sowned \subseteq sopen

\* The duties are kept by every step.
LEMMA DutiesInvariant == Spec => []Duties
<1>1. Init => Duties
  BY DEF Init, Duties, ToSet
<1>2. Ahead /\ Duties /\ [Next]_vars => Duties'
  <2> SUFFICES ASSUME Ahead, Duties, [Next]_vars PROVE Duties'
    OBVIOUS
  <2>1. CASE UNCHANGED vars
    BY <2>1 DEF vars, sendSide, Duties
  <2>2. ASSUME NEW f \in Files, OpenFile(f) PROVE Duties'
    BY <2>2 DEF OpenFile, Duties
  <2>3. ASSUME NEW f \in Files, CloseOwned(f) PROVE Duties'
    BY <2>3 DEF CloseOwned, Duties
  <2>4. ASSUME NEW f \in Files, NEW c \in BOOLEAN, SendFd(f, c) PROVE Duties'
    <3>1. ToSet(send_fds') = ToSet(send_fds) \union {f}
      BY <2>4, ToSetAppend DEF SendFd, AppendFd, Ahead
    <3>2. /\ f \in sowned /\ sconn # "closed"
          /\ UNCHANGED <<sconn, sopen, fresh, broken>>
          /\ closing' = IF c THEN closing \union {f} ELSE closing
          /\ sowned' = IF c THEN sowned \ {f} ELSE sowned
      BY <2>4 DEF SendFd
    <3>3. CASE c
      BY <3>1, <3>2, <3>3 DEF Duties
    <3>4. CASE ~c
      BY <3>1, <3>2, <3>4 DEF Duties
    <3> QED BY <3>3, <3>4
  <2>5. ASSUME NEW f \in Files, NEW c \in BOOLEAN, SendFdNoMem(f, c)
        PROVE Duties'
    BY <2>5 DEF SendFdNoMem, Duties
  <2>6. ASSUME NEW k \in 1 .. MaxChunk, Writev(k) PROVE Duties'
    BY <2>6 DEF Writev, DiscardSend, Duties
  <2>7. CASE CloseSender
    <3>1. ToSet(send_fds') = {}
      BY <2>7 DEF CloseSender, ToSet
    <3> QED BY <2>7, <3>1 DEF CloseSender, DiscardSend, Duties
  <2>8. CASE Disconnect
    BY <2>8 DEF Disconnect, Duties
  <2>9. CASE \/ \E k \in 1 .. MaxChunk, n \in 0 .. Len(wire) : Read(k, n)
             \/ \E k \in 1 .. MaxChunk, n \in 0 .. Len(wire) :
                  \E at \in Spared(n) : ReadNoMem(k, n, at)
             \/ RecvFd \/ CloseReceiver
    BY <2>9 DEF Read, ReadNoMem, RecvFd, CloseReceiver, sendSide, Duties
  <2> QED BY <2>1, <2>2, <2>3, <2>4, <2>5, <2>6, <2>7, <2>8, <2>9 DEF Next
<1> QED BY <1>1, <1>2, AheadInvariant, PTL DEF Spec

\* For any files, bounds and allocation failures, the sender's close leaves
\* no descriptor open that the library had been told to close.
THEOREM NoSenderLeakHolds == Spec => []NoSenderLeak
<1>1. Duties => NoSenderLeak
  BY DEF Duties, NoSenderLeak
<1> QED BY <1>1, DutiesInvariant, PTL

\* For any files and bounds, until an allocation fails the library closes
\* nothing that the sending program still owns.
THEOREM OwnedStaysOpenHolds == Spec => []OwnedStaysOpen
<1>1. Duties => OwnedStaysOpen
  BY DEF Duties, OwnedStaysOpen
<1> QED BY <1>1, DutiesInvariant, PTL

-----------------------------------------------------------------------------
(* Who closes a descriptor of the receiver.                                *)

\* A sequence has no element twice.
Once(s) == \A i, j \in 1 .. Len(s) : s[i] = s[j] => i = j

\* A descriptor is at one place on its way: with the receiving process, in
\* flight or on send_fds, and there once.
Apart ==
  /\ Once(recv_fds) /\ Once(wire) /\ Once(send_fds)
  /\ ropen \subseteq ToSet(sent)
  /\ ropen \intersect ToSet(wire) = {}
  /\ (ropen \union ToSet(wire)) \intersect ToSet(send_fds) = {}

\* The receiving process has what was handed over and what is on recv_fds,
\* which no descriptor is both of.
Held ==
  /\ got \in Seq(Files) /\ recv_fds \in Seq(Files)
  /\ ropen = ToSet(got) \union ToSet(recv_fds)
  /\ ToSet(got) \intersect ToSet(recv_fds) = {}
  /\ rconn = "closed" => recv_fds = <<>>

\* Two sequences that have nothing in common, one after the other.
LEMMA OnceConcat ==
  ASSUME NEW S, NEW s \in Seq(S), NEW t \in Seq(S), Once(s), Once(t),
         ToSet(s) \intersect ToSet(t) = {}
  PROVE  Once(s \o t)
<1> SUFFICES ASSUME NEW i \in 1 .. Len(s \o t), NEW j \in 1 .. Len(s \o t),
                    (s \o t)[i] = (s \o t)[j]
             PROVE  i = j
  BY DEF Once
<1>1. /\ Len(s) \in Nat /\ Len(t) \in Nat /\ Len(s \o t) = Len(s) + Len(t)
      /\ i \in Nat /\ j \in Nat
  OBVIOUS
<1>2. ASSUME NEW k \in 1 .. Len(s \o t)
      PROVE  /\ k <= Len(s) => k \in 1 .. Len(s) /\ (s \o t)[k] = s[k]
                               /\ s[k] \in ToSet(s)
             /\ k > Len(s) => /\ k - Len(s) \in 1 .. Len(t)
                              /\ (s \o t)[k] = t[k - Len(s)]
                              /\ t[k - Len(s)] \in ToSet(t)
  BY <1>1 DEF ToSet
<1>3. CASE i <= Len(s) /\ j <= Len(s)
  BY <1>2, <1>3 DEF Once
<1>4. CASE i > Len(s) /\ j > Len(s)
  <2>1. i - Len(s) = j - Len(s)
    BY <1>2, <1>4 DEF Once
  <2> QED BY <1>1, <2>1
<1>5. CASE (i <= Len(s) /\ j > Len(s)) \/ (i > Len(s) /\ j <= Len(s))
  BY <1>2, <1>5
<1> QED BY <1>1, <1>3, <1>4, <1>5

\* A sequence without doubles, cut in two.
LEMMA OnceCut ==
  ASSUME NEW S, NEW s \in Seq(S), NEW n \in 0 .. Len(s), Once(s)
  PROVE  LET a == SubSeq(s, 1, n)
             b == SubSeq(s, n + 1, Len(s))
         IN /\ a \in Seq(S) /\ b \in Seq(S) /\ Once(a) /\ Once(b)
            /\ ToSet(a) \subseteq ToSet(s) /\ ToSet(b) \subseteq ToSet(s)
            /\ ToSet(a) \intersect ToSet(b) = {}
<1> DEFINE a == SubSeq(s, 1, n)
           b == SubSeq(s, n + 1, Len(s))
<1>1. /\ Len(s) \in Nat /\ n \in Nat /\ n <= Len(s)
      /\ a \in Seq(S) /\ Len(a) = n /\ \A j \in 1 .. n : a[j] = s[j]
  OBVIOUS
<1>2. /\ b \in Seq(S) /\ Len(b) = Len(s) - n
      /\ \A j \in 1 .. Len(s) - n : b[j] = s[n + j]
  OBVIOUS
<1> HIDE DEF a, b
<1>3. \A x \in ToSet(a) : \E j \in 1 .. n : x = s[j]
  BY <1>1 DEF ToSet
<1>4. \A x \in ToSet(b) : \E j \in 1 .. Len(s) : j > n /\ x = s[j]
  <2> SUFFICES ASSUME NEW x \in ToSet(b)
               PROVE  \E j \in 1 .. Len(s) : j > n /\ x = s[j]
    OBVIOUS
  <2>1. PICK k \in 1 .. Len(s) - n : x = b[k]
    BY <1>2 DEF ToSet
  <2>2. n + k \in 1 .. Len(s) /\ n + k > n /\ x = s[n + k]
    BY <1>1, <1>2, <2>1
  <2> QED BY <2>2
<1>5. Once(a)
  BY <1>1 DEF Once
<1>6. Once(b)
  <2> SUFFICES ASSUME NEW i \in 1 .. Len(b), NEW j \in 1 .. Len(b), b[i] = b[j]
               PROVE  i = j
    BY DEF Once
  <2>1. n + i \in 1 .. Len(s) /\ n + j \in 1 .. Len(s) /\ s[n + i] = s[n + j]
    BY <1>1, <1>2
  <2>2. n + i = n + j
    BY <2>1 DEF Once
  <2> QED BY <1>1, <2>2
<1>7. ToSet(a) \subseteq ToSet(s) /\ ToSet(b) \subseteq ToSet(s)
  <2>1. \A j \in 1 .. Len(s) : s[j] \in ToSet(s)
    BY DEF ToSet
  <2>2. \A j \in 1 .. n : j \in 1 .. Len(s)
    BY <1>1
  <2> QED BY <1>3, <1>4, <2>1, <2>2
<1>8. ToSet(a) \intersect ToSet(b) = {}
  <2> SUFFICES ASSUME NEW x \in ToSet(a), x \in ToSet(b) PROVE FALSE
    OBVIOUS
  <2>1. PICK i \in 1 .. n : x = s[i]
    BY <1>3
  <2>2. PICK j \in 1 .. Len(s) : j > n /\ x = s[j]
    BY <1>4
  <2>3. i \in 1 .. Len(s) /\ i # j
    BY <1>1, <2>1, <2>2
  <2> QED BY <2>1, <2>2, <2>3 DEF Once
<1> QED BY <1>1, <1>2, <1>5, <1>6, <1>7, <1>8 DEF a, b

\* The descriptors that appendFd finds memory for are some of those that
\* arrived, in order.
LEMMA RestIs ==
  ASSUME wire \in Seq(Files), Once(wire), NEW n \in 0 .. Len(wire),
         NEW at \in Spared(n)
  PROVE  /\ Rest(at) \in Seq(Files) /\ Once(Rest(at))
         /\ ToSet(Rest(at)) \subseteq ToSet(SubSeq(wire, 1, n))
<1>1. PICK m \in 0 .. n - 1 :
        /\ at \in [1 .. m -> 1 .. n]
        /\ \A i, j \in 1 .. m : i < j => at[i] < at[j]
  BY DEF Spared
<1>2. /\ Len(wire) \in Nat /\ n \in Nat /\ m \in Nat /\ n <= Len(wire)
      /\ \A i \in 1 .. m : at[i] \in 1 .. n /\ at[i] \in 1 .. Len(wire)
  BY <1>1
<1>3. Rest(at) = [i \in 1 .. m |-> wire[at[i]]]
  BY <1>1 DEF Rest
<1>4. /\ Rest(at) \in Seq(Files) /\ Len(Rest(at)) = m
      /\ \A i \in 1 .. m : Rest(at)[i] = wire[at[i]]
  BY <1>2, <1>3
<1>5. Once(Rest(at))
  <2> SUFFICES ASSUME NEW i \in 1 .. m, NEW j \in 1 .. m,
                      wire[at[i]] = wire[at[j]]
               PROVE  i = j
    BY <1>4 DEF Once
  <2>1. at[i] = at[j]
    BY <1>2 DEF Once
  <2>2. ~(i < j) /\ ~(j < i)
    BY <1>1, <1>2, <2>1
  <2> QED BY <1>2, <2>2
<1>6. ToSet(Rest(at)) \subseteq ToSet(SubSeq(wire, 1, n))
  <2> DEFINE a == SubSeq(wire, 1, n)
  <2>1. a \in Seq(Files) /\ Len(a) = n /\ \A j \in 1 .. n : a[j] = wire[j]
    BY <1>2
  <2> HIDE DEF a
  <2>2. \A j \in 1 .. n : wire[j] \in ToSet(a)
    BY <2>1 DEF ToSet
  <2>3. \A x \in ToSet(Rest(at)) : \E i \in 1 .. m : x = wire[at[i]]
    BY <1>4 DEF ToSet
  <2> QED BY <1>2, <2>2, <2>3 DEF a
<1> QED BY <1>4, <1>5, <1>6

\* The list of the receiver without its head.
LEMMA OnceTail ==
  ASSUME NEW s \in Seq(Files), s # <<>>, Once(s)
  PROVE  /\ Head(s) \in Files /\ Tail(s) \in Seq(Files) /\ Once(Tail(s))
         /\ ToSet(s) = {Head(s)} \union ToSet(Tail(s))
         /\ Head(s) \notin ToSet(Tail(s))
<1>1. /\ Head(s) \in Files /\ Tail(s) \in Seq(Files)
      /\ s = <<Head(s)>> \o Tail(s)
  BY HeadTailProperties
<1>2. /\ Len(s) \in Nat /\ Len(s) >= 1 /\ Head(s) = s[1]
      /\ Len(Tail(s)) = Len(s) - 1
      /\ \A j \in 1 .. Len(Tail(s)) : Tail(s)[j] = s[j + 1]
  OBVIOUS
<1> DEFINE h == <<Head(s)>>
           t == Tail(s)
<1>3. h \in Seq(Files) /\ ToSet(h) = {Head(s)}
  BY <1>1 DEF ToSet
<1>4. ToSet(s) = ToSet(h) \union ToSet(t)
  <2>1. t \in Seq(Files) /\ s = h \o t
    BY <1>1
  <2> HIDE DEF h, t
  <2>2. ToSet(h \o t) = ToSet(h) \union ToSet(t)
    BY <1>3, <2>1, ToSetConcat
  <2> QED BY <2>1, <2>2
<1>5. Once(t)
  <2> SUFFICES ASSUME NEW i \in 1 .. Len(t), NEW j \in 1 .. Len(t), t[i] = t[j]
               PROVE  i = j
    BY DEF Once
  <2>1. i + 1 \in 1 .. Len(s) /\ j + 1 \in 1 .. Len(s) /\ s[i + 1] = s[j + 1]
    BY <1>2
  <2>2. i + 1 = j + 1
    BY <2>1 DEF Once
  <2> QED BY <2>2
<1>6. Head(s) \notin ToSet(t)
  <2> SUFFICES ASSUME Head(s) \in ToSet(t) PROVE FALSE
    OBVIOUS
  <2>1. PICK j \in 1 .. Len(t) : t[j] = Head(s)
    BY <1>1 DEF ToSet
  <2>2. j + 1 \in 1 .. Len(s) /\ 1 \in 1 .. Len(s) /\ s[j + 1] = s[1]
        /\ j + 1 # 1
    BY <1>2, <2>1
  <2> QED BY <2>2 DEF Once
<1> QED BY <1>1, <1>3, <1>4, <1>5, <1>6

\* A read moves descriptors from the wire to the list, all or some of them.
LEMMA ReadHeld ==
  ASSUME Ahead, Apart, Held, NEW n \in 0 .. Len(wire), NEW new,
         rconn = "open", rconn' = "open", new \in Seq(Files), Once(new),
         ToSet(new) \subseteq ToSet(SubSeq(wire, 1, n)),
         wire' = SubSeq(wire, n + 1, Len(wire)),
         recv_fds' = recv_fds \o new, ropen' = ropen \union ToSet(new),
         UNCHANGED <<send_fds, sent, got>>
  PROVE  Apart' /\ Held'
<1>1. /\ wire \in Seq(Files) /\ recv_fds \in Seq(Files) /\ Once(recv_fds)
      /\ ToSet(wire) \subseteq ToSet(sent) /\ Once(wire)
  BY DEF Ahead, Apart, Held
<1> DEFINE a == SubSeq(wire, 1, n)
           b == SubSeq(wire, n + 1, Len(wire))
<1>2. /\ Once(b) /\ ToSet(a) \subseteq ToSet(wire)
      /\ ToSet(b) \subseteq ToSet(wire) /\ ToSet(a) \intersect ToSet(b) = {}
  BY <1>1, OnceCut
<1>3. wire' = b /\ ToSet(new) \subseteq ToSet(a)
  OBVIOUS
<1> HIDE DEF a, b
<1>4. ToSet(new) \intersect ropen = {}
  BY <1>2, <1>3 DEF Apart
<1>5. /\ recv_fds' \in Seq(Files)
      /\ ToSet(recv_fds') = ToSet(recv_fds) \union ToSet(new)
  BY <1>1, ToSetConcat, ConcatProperties
<1>6. Once(recv_fds')
  <2>1. ToSet(recv_fds) \intersect ToSet(new) = {}
    BY <1>4 DEF Held
  <2> QED BY <1>1, <2>1, OnceConcat
<1>7. Apart'
  BY <1>1, <1>2, <1>3, <1>4, <1>6 DEF Apart
<1>8. Held'
  BY <1>4, <1>5 DEF Held
<1> QED BY <1>7, <1>8

\* Both are kept by every step.
LEMMA HeldInvariant == Spec => [](Apart /\ Held)
<1>1. Init => Apart /\ Held
  BY DEF Init, Apart, Held, Once, ToSet
<1>2. Ahead /\ (Apart /\ Held) /\ [Next]_vars => (Apart /\ Held)'
  <2> SUFFICES ASSUME Ahead, Apart, Held, [Next]_vars PROVE Apart' /\ Held'
    OBVIOUS
  <2>1. ASSUME UNCHANGED <<recvSide, wire, send_fds>>,
               ToSet(sent) \subseteq ToSet(sent')
        PROVE  Apart' /\ Held'
    BY <2>1 DEF recvSide, Apart, Held, Once
  <2>2. CASE UNCHANGED vars
    BY <2>1, <2>2 DEF vars, sendSide
  <2>3. CASE \/ \E f \in Files : OpenFile(f) \/ CloseOwned(f)
             \/ Disconnect
    BY <2>1, <2>3 DEF OpenFile, CloseOwned, Disconnect
  <2>4. ASSUME NEW f \in Files, NEW c \in BOOLEAN, SendFdNoMem(f, c)
        PROVE  Apart' /\ Held'
    <3>1. ToSet(sent') = ToSet(sent) \union {f}
      BY <2>4, ToSetAppend DEF SendFdNoMem, Ahead
    <3> QED BY <2>1, <2>4, <3>1 DEF SendFdNoMem
  <2>5. ASSUME NEW f \in Files, NEW c \in BOOLEAN, SendFd(f, c)
        PROVE  Apart' /\ Held'
    <3>1. /\ send_fds' = Append(send_fds, f) /\ sent' = Append(sent, f)
          /\ UNCHANGED <<recv_fds, rconn, ropen, got, wire>>
          /\ f \notin ToSet(sent)
      BY <2>5 DEF SendFd, AppendFd, recvSide
    <3>2. /\ ToSet(send_fds') = ToSet(send_fds) \union {f}
          /\ ToSet(sent') = ToSet(sent) \union {f}
      BY <3>1, ToSetAppend DEF Ahead
    <3>3. Once(send_fds')
      <4>1. /\ <<f>> \in Seq(Files) /\ ToSet(<<f>>) = {f} /\ Once(<<f>>)
            /\ send_fds' = send_fds \o <<f>>
        BY <3>1, AppendIsConcat DEF ToSet, Once, Ahead
      <4>2. ToSet(send_fds) \intersect ToSet(<<f>>) = {}
        BY <3>1, <4>1 DEF Ahead
      <4>3. Once(send_fds \o <<f>>)
        BY <4>1, <4>2, OnceConcat DEF Ahead, Apart
      <4> QED BY <4>1, <4>3
    <3>4. Apart'
      BY <3>1, <3>2, <3>3 DEF Apart, Ahead, Once
    <3>5. Held'
      BY <3>1 DEF Held
    <3> QED BY <3>4, <3>5
  <2>6. ASSUME NEW k \in 1 .. MaxChunk, Writev(k) PROVE Apart' /\ Held'
    <3>1. /\ wire' = wire \o send_fds
          /\ send_fds' = SubSeq(send_fds, Len(send_fds) + 1, Len(send_fds))
          /\ UNCHANGED <<sent, recv_fds, rconn, ropen, got>>
      BY <2>6 DEF Writev, Carried, recvSide
    <3>2. send_fds' = <<>> /\ ToSet(send_fds') = {} /\ Once(send_fds')
      BY <3>1, SubSeqEmpty, LenProperties DEF Ahead, ToSet, Once
    <3>3. ToSet(wire') = ToSet(wire) \union ToSet(send_fds)
      BY <3>1, ToSetConcat DEF Ahead
    <3>4. Once(wire')
      BY <3>1, OnceConcat DEF Ahead, Apart
    <3>5. Apart'
      BY <3>1, <3>2, <3>3, <3>4 DEF Apart, Once
    <3>6. Held'
      BY <3>1 DEF Held
    <3> QED BY <3>5, <3>6
  <2>7. CASE CloseSender
    <3>1. /\ send_fds' = <<>> /\ ToSet(send_fds') = {} /\ Once(send_fds')
          /\ UNCHANGED <<sent, wire, recv_fds, rconn, ropen, got>>
      BY <2>7 DEF CloseSender, recvSide, ToSet, Once
    <3>2. Apart'
      BY <3>1 DEF Apart, Once
    <3>3. Held'
      BY <3>1 DEF Held
    <3> QED BY <3>2, <3>3
  <2>8. ASSUME NEW k \in 1 .. MaxChunk, NEW n \in 0 .. Len(wire), Read(k, n)
        PROVE  Apart' /\ Held'
    <3>1. SubSeq(wire, 1, n) \in Seq(Files) /\ Once(SubSeq(wire, 1, n))
      BY OnceCut DEF Ahead, Apart
    <3> QED BY <2>8, <3>1, ReadHeld DEF Read, RecvMsg, Arrived, sendSide
  <2>9. ASSUME NEW k \in 1 .. MaxChunk, NEW n \in 0 .. Len(wire),
               NEW at \in Spared(n), ReadNoMem(k, n, at)
        PROVE  Apart' /\ Held'
    <3>1. /\ Rest(at) \in Seq(Files) /\ Once(Rest(at))
          /\ ToSet(Rest(at)) \subseteq ToSet(SubSeq(wire, 1, n))
      BY RestIs DEF Ahead, Apart
    <3> QED BY <2>9, <3>1, ReadHeld DEF ReadNoMem, RecvMsg, sendSide
  <2>10. CASE RecvFd
    <3>1. /\ recv_fds # <<>> /\ rconn = "open"
          /\ got' = Append(got, Head(recv_fds)) /\ recv_fds' = Tail(recv_fds)
          /\ UNCHANGED <<send_fds, sent, wire, rconn, ropen>>
      BY <2>10 DEF RecvFd, sendSide
    <3>2. /\ Head(recv_fds) \in Files /\ recv_fds' \in Seq(Files)
          /\ Once(recv_fds')
          /\ ToSet(recv_fds) = {Head(recv_fds)} \union ToSet(recv_fds')
          /\ Head(recv_fds) \notin ToSet(recv_fds')
      BY <3>1, OnceTail DEF Held, Apart
    <3>3. /\ got' \in Seq(Files)
          /\ ToSet(got') = ToSet(got) \union {Head(recv_fds)}
      BY <3>1, <3>2, ToSetAppend, AppendProperties DEF Held
    <3>4. Apart'
      BY <3>1, <3>2 DEF Apart, Once
    <3>5. Held'
      BY <3>1, <3>2, <3>3 DEF Held
    <3> QED BY <3>4, <3>5
  <2>11. CASE CloseReceiver
    <3>1. /\ rconn' = "closed" /\ ropen' = ropen \ ToSet(recv_fds)
          /\ recv_fds' = <<>> /\ wire' = <<>>
          /\ UNCHANGED <<send_fds, sent, got>>
      BY <2>11 DEF CloseReceiver, DiscardRecv, sendSide
    <3>2. /\ ToSet(recv_fds') = {} /\ ToSet(wire') = {}
          /\ Once(recv_fds') /\ Once(wire')
      BY <3>1 DEF ToSet, Once
    <3>3. Apart'
      BY <3>1, <3>2 DEF Apart, Once
    <3>4. Held'
      BY <3>1, <3>2 DEF Held
    <3> QED BY <3>3, <3>4
  <2> QED BY <2>2, <2>3, <2>4, <2>5, <2>6, <2>7, <2>8, <2>9, <2>10, <2>11
          DEF Next
<1> QED BY <1>1, <1>2, AheadInvariant, PTL DEF Spec

\* For any files, bounds and allocation failures in SocketRead and
\* SocketReadv, the receiver's close leaves open what the program took with
\* RecvFd and nothing else: nothing leaks, and nothing the program has is
\* closed under it.
THEOREM NoReceiverLeakHolds == Spec => []NoReceiverLeak
<1>1. Held => NoReceiverLeak
  <2> SUFFICES ASSUME Held, rconn = "closed" PROVE ropen = ToSet(got)
    BY DEF NoReceiverLeak
  <2>1. ToSet(recv_fds) = {}
    BY DEF Held, ToSet
  <2> QED BY <2>1 DEF Held
<1> QED BY <1>1, HeldInvariant, PTL

-----------------------------------------------------------------------------
(* A connection is a FIFO channel of descriptors, which may lose some when *)
(* an allocation fails.                                                    *)

\* Cutting off the second part of a concatenation leaves the first.
LEMMA FileCut ==
  \A a, b \in Seq(Files) :
    Len(a) \in 0 .. Len(a \o b) /\ SubSeq(a \o b, 1, Len(a)) = a
<1> TAKE a, b \in Seq(Files)
<1>1. SubSeq(a \o b, 1, Len(a)) = a
  BY SubSeqOfConcat1, SubSeqFull, LenProperties
<1>2. Len(a) \in 0 .. Len(a \o b)
  BY ConcatProperties, LenProperties
<1> QED BY <1>1, <1>2

\* The head and tail of a concatenation are those of its first part.
LEMMA FileHead ==
  \A a, b \in Seq(Files) : a # <<>> =>
    a \o b # <<>> /\ Head(a \o b) = Head(a) /\ Tail(a \o b) = Tail(a) \o b
<1> SUFFICES ASSUME NEW a \in Seq(Files), NEW b \in Seq(Files), a # <<>>
             PROVE  a \o b # <<>> /\ Head(a \o b) = Head(a)
                    /\ Tail(a \o b) = Tail(a) \o b
  OBVIOUS
<1>1. Len(a) >= 1 /\ Len(a) \in Nat /\ Len(b) \in Nat
  OBVIOUS
<1>2. a \o b \in Seq(Files) /\ Len(a \o b) = Len(a) + Len(b)
  OBVIOUS
<1>3. a \o b # <<>> /\ Head(a \o b) = Head(a)
  BY <1>1, <1>2
<1>4. Tail(a \o b) \in Seq(Files) /\ Tail(a) \o b \in Seq(Files)
  BY <1>1, <1>2, <1>3
<1>5. /\ Len(Tail(a \o b)) = Len(Tail(a) \o b)
      /\ \A j \in 1 .. Len(Tail(a \o b)) : Tail(a \o b)[j] = (Tail(a) \o b)[j]
  BY <1>1, <1>2, <1>3
<1> QED BY <1>3, <1>4, <1>5, SeqEqual

\* The queue of the abstract channel.
queueBar == IF rconn = "open" THEN recv_fds \o (wire \o send_fds) ELSE <<>>

\* The elements of a concatenation.
LEMMA FileAt ==
  \A a, b \in Seq(Files) :
    /\ a \o b \in Seq(Files) /\ Len(a \o b) = Len(a) + Len(b)
    /\ Len(a) \in Nat /\ Len(b) \in Nat
    /\ \A j \in 1 .. Len(a) : (a \o b)[j] = a[j]
    /\ \A j \in Len(a) + 1 .. Len(a) + Len(b) : (a \o b)[j] = b[j - Len(a)]
OBVIOUS

\* What is left of q when some of its descriptors are lost.
Left(q, left) ==
  \E k \in 0 .. Len(q) : \E to \in [1 .. k -> 1 .. Len(q)] :
    Chan!Increasing(k, to) /\ left = Chan!Chosen(q, k, to)

\* Descriptors lost from the first n of the middle part of a concatenation
\* are lost from the whole: those before and behind keep their order.
LEMMA FileLose ==
  ASSUME NEW r \in Seq(Files), NEW w \in Seq(Files), NEW s \in Seq(Files),
         NEW n \in 0 .. Len(w), NEW m \in 0 .. n,
         NEW at \in [1 .. m -> 1 .. n],
         Chan!Increasing(m, at)
  PROVE  Left(r \o (w \o s), (r \o Chan!Chosen(w, m, at))
                                 \o (SubSeq(w, n + 1, Len(w)) \o s))
<1> DEFINE q == r \o (w \o s)
           c == Chan!Chosen(w, m, at)
           e == SubSeq(w, n + 1, Len(w))
           left == (r \o c) \o (e \o s)
           R == Len(r)
           W == Len(w)
           S == Len(s)
           k == R + m + (W - n) + S
           to == [i \in 1 .. k |-> IF i <= R THEN i
                                  ELSE IF i <= R + m THEN R + at[i - R]
                                  ELSE i - m + n]
<1>1. R \in Nat /\ W \in Nat /\ S \in Nat /\ n \in Nat /\ m \in Nat
      /\ n <= W /\ m <= n
  OBVIOUS
<1>2. /\ q \in Seq(Files) /\ Len(q) = R + W + S
      /\ \A j \in 1 .. R : q[j] = r[j]
      /\ \A j \in R + 1 .. R + W : q[j] = w[j - R]
      /\ \A j \in R + W + 1 .. R + W + S : q[j] = s[j - R - W]
  OBVIOUS
<1>3. \A i \in 1 .. m : at[i] \in 1 .. n /\ at[i] \in 1 .. W /\ w[at[i]] \in Files
  BY <1>1
<1>4. c \in Seq(Files) /\ Len(c) = m /\ \A j \in 1 .. m : c[j] = w[at[j]]
  BY <1>1, <1>3 DEF Chan!Chosen
<1>5. e \in Seq(Files) /\ Len(e) = W - n /\ \A j \in 1 .. W - n : e[j] = w[n + j]
  BY <1>1
<1> HIDE DEF c, e
<1> DEFINE x == r \o c
           y == e \o s
<1>x. /\ x \in Seq(Files) /\ Len(x) = R + m
      /\ \A j \in 1 .. R : x[j] = r[j]
      /\ \A j \in R + 1 .. R + m : x[j] = c[j - R]
  BY <1>4, FileAt
<1>y. /\ y \in Seq(Files) /\ Len(y) = (W - n) + S
      /\ \A j \in 1 .. W - n : y[j] = e[j]
      /\ \A j \in W - n + 1 .. (W - n) + S : y[j] = s[j - (W - n)]
  <2>1. /\ e \o s \in Seq(Files) /\ Len(e \o s) = Len(e) + Len(s)
        /\ \A j \in 1 .. Len(e) : (e \o s)[j] = e[j]
        /\ \A j \in Len(e) + 1 .. Len(e) + Len(s) : (e \o s)[j] = s[j - Len(e)]
    BY <1>5, FileAt
  <2> QED BY <1>5, <2>1
<1> HIDE DEF x, y
<1>xy. /\ x \o y \in Seq(Files) /\ Len(x \o y) = Len(x) + Len(y)
       /\ Len(x) \in Nat /\ Len(y) \in Nat
       /\ \A j \in 1 .. Len(x) : (x \o y)[j] = x[j]
       /\ \A j \in Len(x) + 1 .. Len(x) + Len(y) : (x \o y)[j] = y[j - Len(x)]
  BY <1>x, <1>y, FileAt
<1>z. left = x \o y
  BY DEF x, y
<1> HIDE DEF q, left, R, W, S
<1>6. /\ left \in Seq(Files) /\ Len(left) = R + m + (W - n) + S
      /\ \A j \in 1 .. R : left[j] = r[j]
      /\ \A j \in R + 1 .. R + m : left[j] = c[j - R]
      /\ \A j \in R + m + 1 .. R + m + (W - n) : left[j] = e[j - R - m]
      /\ \A j \in R + m + (W - n) + 1 .. R + m + (W - n) + S :
           left[j] = s[j - R - m - (W - n)]
  <2>1. left \in Seq(Files) /\ Len(left) = R + m + (W - n) + S
    BY <1>1, <1>x, <1>y, <1>xy, <1>z
  <2>2. ASSUME NEW j \in 1 .. R PROVE left[j] = r[j]
    <3>1. j \in 1 .. Len(x)
      BY <1>1, <1>x
    <3> QED BY <1>x, <1>xy, <1>z, <3>1
  <2>3. ASSUME NEW j \in R + 1 .. R + m PROVE left[j] = c[j - R]
    BY <1>1, <1>x, <1>xy, <1>z
  <2>4. ASSUME NEW j \in R + m + 1 .. R + m + (W - n)
        PROVE  left[j] = e[j - R - m]
    <3>1. /\ j - (R + m) \in 1 .. W - n /\ j - (R + m) = j - R - m
          /\ j \in Len(x) + 1 .. Len(x) + Len(y)
      BY <1>1, <1>x, <1>y
    <3> QED BY <1>x, <1>y, <1>xy, <1>z, <3>1
  <2>5. ASSUME NEW j \in R + m + (W - n) + 1 .. R + m + (W - n) + S
        PROVE  left[j] = s[j - R - m - (W - n)]
    <3>1. /\ j - (R + m) \in W - n + 1 .. (W - n) + S
          /\ j - (R + m) - (W - n) = j - R - m - (W - n)
          /\ j \in Len(x) + 1 .. Len(x) + Len(y)
      BY <1>1, <1>x, <1>y
    <3> QED BY <1>x, <1>y, <1>xy, <1>z, <3>1
  <2> QED BY <2>1, <2>2, <2>3, <2>4, <2>5
<1>7. /\ k \in 0 .. Len(q) /\ k \in Nat
      /\ k = R + m + (W - n) + S
  BY <1>1, <1>2
<1>8. \A i \in 1 .. m : at[i] \in Nat /\ 1 <= at[i] /\ at[i] <= n
  BY <1>1, <1>3
<1>9. ASSUME NEW i \in 1 .. k
      PROVE  /\ i <= R => to[i] = i
             /\ i > R /\ i <= R + m => to[i] = R + at[i - R] /\ i - R \in 1 .. m
             /\ i > R + m => to[i] = i - m + n
  BY <1>1, <1>7
<1>10. to \in [1 .. k -> 1 .. Len(q)]
  <2>1. ASSUME NEW i \in 1 .. k PROVE to[i] \in 1 .. Len(q)
    <3> HIDE DEF to, k
    <3>1. CASE i <= R
      BY <1>1, <1>2, <1>7, <1>9, <3>1
    <3>2. CASE i > R /\ i <= R + m
      BY <1>1, <1>2, <1>7, <1>8, <1>9, <3>2
    <3>3. CASE i > R + m
      BY <1>1, <1>2, <1>7, <1>9, <3>3
    <3> QED BY <1>1, <1>7, <3>1, <3>2, <3>3
  <2> QED BY <2>1
<1>11. Chan!Increasing(k, to)
  <2> SUFFICES ASSUME NEW i \in 1 .. k, NEW j \in 1 .. k, i < j
               PROVE  to[i] < to[j]
    BY DEF Chan!Increasing
  <2> HIDE DEF to, k
  <2>1. CASE i <= R
    <3>1. to[i] = i
      BY <1>9, <2>1
    <3>2. CASE j <= R
      BY <1>9, <3>1, <3>2
    <3>3. CASE j > R /\ j <= R + m
      BY <1>1, <1>7, <1>8, <1>9, <2>1, <3>1, <3>3
    <3>4. CASE j > R + m
      BY <1>1, <1>7, <1>9, <2>1, <3>1, <3>4
    <3> QED BY <1>1, <1>7, <3>2, <3>3, <3>4
  <2>2. CASE i > R /\ i <= R + m /\ j <= R + m
    <3>1. /\ to[i] = R + at[i - R] /\ i - R \in 1 .. m
          /\ to[j] = R + at[j - R] /\ j - R \in 1 .. m /\ i - R < j - R
      BY <1>1, <1>7, <1>9, <2>2
    <3> QED BY <1>1, <1>8, <3>1 DEF Chan!Increasing
  <2>3. CASE i > R /\ i <= R + m /\ j > R + m
    <3>1. /\ to[i] = R + at[i - R] /\ i - R \in 1 .. m /\ to[j] = j - m + n
      BY <1>9, <2>3
    <3> QED BY <1>1, <1>7, <1>8, <2>3, <3>1
  <2>4. CASE i > R + m
    BY <1>1, <1>7, <1>9, <2>4
  <2> QED BY <1>1, <1>7, <2>1, <2>2, <2>3, <2>4
<1>12. left = Chan!Chosen(q, k, to)
  <2>1. ASSUME NEW i \in 1 .. k PROVE left[i] = q[to[i]]
    <3> HIDE DEF to, k
    <3>1. CASE i <= R
      BY <1>1, <1>2, <1>6, <1>9, <3>1
    <3>2. CASE i > R /\ i <= R + m
      <4>1. i \in R + 1 .. R + m /\ i - R \in 1 .. m
        BY <1>1, <1>7, <3>2
      <4>2. left[i] = w[at[i - R]]
        BY <1>4, <1>6, <4>1
      <4>3. to[i] \in R + 1 .. R + W /\ to[i] - R = at[i - R]
        BY <1>1, <1>8, <1>9, <3>2, <4>1
      <4> QED BY <1>2, <4>2, <4>3
    <3>3. CASE i > R + m /\ i <= R + m + (W - n)
      <4>1. left[i] = e[i - R - m] /\ i - R - m \in 1 .. W - n
        BY <1>1, <1>6, <1>7, <3>3
      <4>2. left[i] = w[n + (i - R - m)]
        BY <1>5, <4>1
      <4>3. to[i] \in R + 1 .. R + W /\ to[i] - R = n + (i - R - m)
        BY <1>1, <1>7, <1>9, <3>3
      <4> QED BY <1>2, <4>2, <4>3
    <3>4. CASE i > R + m + (W - n)
      <4>1. left[i] = s[i - R - m - (W - n)]
        BY <1>1, <1>6, <1>7, <3>4
      <4>2. /\ to[i] \in R + W + 1 .. R + W + S
            /\ to[i] - R - W = i - R - m - (W - n)
        BY <1>1, <1>7, <1>9, <3>4
      <4> QED BY <1>2, <4>1, <4>2
    <3> QED BY <1>1, <1>7, <3>1, <3>2, <3>3, <3>4
  <2>2. left = [i \in 1 .. k |-> left[i]]
    BY <1>6
  <2> QED BY <2>1, <2>2 DEF Chan!Chosen
<1> HIDE DEF k, to
<1> QED BY <1>7, <1>10, <1>11, <1>12 DEF Left, q, left, c, e

\* A sequence with nothing lost.
LEMMA FileKeep ==
  ASSUME NEW q \in Seq(Files)
  PROVE  Left(q, q)
<1> DEFINE k == Len(q)
           to == [i \in 1 .. k |-> i]
<1>1. k \in 0 .. Len(q) /\ to \in [1 .. k -> 1 .. Len(q)]
  OBVIOUS
<1>2. Chan!Increasing(k, to)
  BY DEF Chan!Increasing
<1>3. q = Chan!Chosen(q, k, to)
  BY DEF Chan!Chosen
<1> QED BY <1>1, <1>2, <1>3 DEF Left

\* Every step of a connection is a step of the channel, or none.
LEMMA StepRefines ==
  ASSUME Ahead, Held, [Next]_vars
  PROVE  [Chan!ChanNext]_(Chan!chanVars)
<1>0. /\ send_fds \in Seq(Files) /\ wire \in Seq(Files) /\ recv_fds \in Seq(Files)
      /\ got \in Seq(Files)
  BY DEF Ahead, Held
<1>1. wire \o send_fds \in Seq(Files) /\ queueBar \in Seq(Files)
  BY <1>0, FileConcat, EmptySeq DEF queueBar
<1>stut. ASSUME queueBar' = queueBar, got' = got, broken' = broken
         PROVE  [Chan!ChanNext]_(Chan!chanVars)
  BY <1>stut DEF Chan!chanVars, queueBar
<1>cut. ASSUME NEW n \in 0 .. Len(queueBar), queueBar' = SubSeq(queueBar, 1, n),
               got' = got, broken' = broken
        PROVE  [Chan!ChanNext]_(Chan!chanVars)
  BY <1>cut DEF Chan!ChanNext, Chan!Cut, queueBar
<1>lose. ASSUME NEW q, NEW left, q = queueBar, left = queueBar', Left(q, left),
                broken' = TRUE, got' = got
         PROVE  [Chan!ChanNext]_(Chan!chanVars)
  BY <1>lose DEF Chan!ChanNext, Chan!Lose, Left, queueBar
<1>2. ASSUME NEW f \in Files, NEW c \in BOOLEAN, SendFd(f, c)
      PROVE  [Chan!ChanNext]_(Chan!chanVars)
  <2>1. /\ send_fds' = Append(send_fds, f)
        /\ UNCHANGED <<wire, recv_fds, rconn, got, broken>>
    BY <1>2 DEF SendFd, AppendFd, recvSide
  <2>2. CASE rconn = "open"
    <3>1. Append(wire \o send_fds, f) = wire \o Append(send_fds, f)
      BY <1>0, FileAppend
    <3>2. Append(recv_fds \o (wire \o send_fds), f)
            = recv_fds \o Append(wire \o send_fds, f)
      BY <1>0, <1>1, FileAppend
    <3>3. queueBar' = Append(queueBar, f)
      BY <2>1, <2>2, <3>1, <3>2 DEF queueBar
    <3>4. Chan!Put(f)
      BY <2>1, <3>3 DEF Chan!Put, queueBar
    <3> QED BY <3>4 DEF Chan!ChanNext
  <2>3. CASE rconn # "open"
    BY <2>1, <2>3, <1>stut DEF queueBar
  <2> QED BY <2>2, <2>3
<1>3. ASSUME NEW k \in 1 .. MaxChunk, Writev(k)
      PROVE  [Chan!ChanNext]_(Chan!chanVars)
  <2>1. /\ wire' = wire \o send_fds
        /\ send_fds' = SubSeq(send_fds, Len(send_fds) + 1, Len(send_fds))
        /\ UNCHANGED <<recv_fds, rconn, got, broken>>
    BY <1>3 DEF Writev, Carried, recvSide
  <2>2. send_fds' = <<>>
    BY <1>0, <2>1, SubSeqEmpty, LenProperties
  <2>3. (wire \o send_fds) \o <<>> = wire \o send_fds
    BY <1>1, ConcatEmptySeq
  <2> QED BY <2>1, <2>2, <2>3, <1>stut DEF queueBar
<1>4. CASE CloseSender
  <2>1. send_fds' = <<>> /\ UNCHANGED <<wire, recv_fds, rconn, got, broken>>
    BY <1>4 DEF CloseSender, recvSide
  <2>2. CASE rconn = "open"
    <3>1. wire \o <<>> = wire
      BY <1>0, ConcatEmptySeq
    <3>2. queueBar' = recv_fds \o wire
      BY <2>1, <2>2, <3>1 DEF queueBar
    <3>3. queueBar = (recv_fds \o wire) \o send_fds
      BY <1>0, <2>2, FileAssoc DEF queueBar
    <3>4. recv_fds \o wire \in Seq(Files)
      BY <1>0, FileConcat
    <3>5. /\ Len(recv_fds \o wire) \in 0 .. Len(queueBar)
          /\ SubSeq(queueBar, 1, Len(recv_fds \o wire)) = recv_fds \o wire
      BY <1>0, <3>3, <3>4, FileCut
    <3> QED BY <2>1, <3>2, <3>5, <1>cut
  <2>3. CASE rconn # "open"
    BY <2>1, <2>3, <1>stut DEF queueBar
  <2> QED BY <2>2, <2>3
<1>5. ASSUME NEW k \in 1 .. MaxChunk, NEW n \in 0 .. Len(wire), Read(k, n)
      PROVE  [Chan!ChanNext]_(Chan!chanVars)
  <2>1. recv_fds' \o (wire' \o send_fds) = recv_fds \o (wire \o send_fds)
    BY <1>0, <1>5, OrderlyReadKeeps DEF Arriving
  <2>2. UNCHANGED <<send_fds, rconn, got, broken>>
    BY <1>5 DEF Read, sendSide
  <2> QED BY <2>1, <2>2, <1>stut DEF queueBar
<1>6. CASE RecvFd
  <2>1. /\ recv_fds # <<>> /\ rconn = "open"
        /\ got' = Append(got, Head(recv_fds)) /\ recv_fds' = Tail(recv_fds)
        /\ UNCHANGED <<send_fds, rconn, wire, broken>>
    BY <1>6 DEF RecvFd, sendSide
  <2>2. /\ queueBar # <<>> /\ Head(queueBar) = Head(recv_fds)
        /\ Tail(queueBar) = Tail(recv_fds) \o (wire \o send_fds)
    BY <1>0, <1>1, <2>1, FileHead DEF queueBar
  <2>3. queueBar' = Tail(queueBar) /\ got' = Append(got, Head(queueBar))
    BY <2>1, <2>2 DEF queueBar
  <2>4. Chan!Take
    BY <2>1, <2>2, <2>3 DEF Chan!Take, queueBar
  <2> QED BY <2>4 DEF Chan!ChanNext
<1>7. CASE CloseReceiver
  <2>1. queueBar' = <<>> /\ got' = got /\ broken' = broken
    BY <1>7 DEF CloseReceiver, queueBar
  <2>2. SubSeq(queueBar, 1, 0) = <<>> /\ 0 \in 0 .. Len(queueBar)
    BY <1>1, SubSeqEmpty, LenProperties
  <2> QED BY <2>1, <2>2, <1>cut
<1>8. CASE Disconnect \/ \E f \in Files : OpenFile(f) \/ CloseOwned(f)
  BY <1>8, <1>stut DEF Disconnect, OpenFile, CloseOwned, recvSide, queueBar
<1>9. CASE UNCHANGED vars
  BY <1>9, <1>stut DEF vars, sendSide, recvSide, queueBar
<1>10. ASSUME NEW f \in Files, NEW c \in BOOLEAN, SendFdNoMem(f, c)
       PROVE  [Chan!ChanNext]_(Chan!chanVars)
  <2>1. queueBar' = queueBar /\ got' = got /\ broken' = TRUE
    BY <1>10 DEF SendFdNoMem, recvSide, queueBar
  <2>2. Left(queueBar, queueBar)
    BY <1>1, FileKeep
  <2> QED BY <2>1, <2>2, <1>lose
<1>11. ASSUME NEW k \in 1 .. MaxChunk, NEW n \in 0 .. Len(wire),
              NEW at \in Spared(n), ReadNoMem(k, n, at)
       PROVE  [Chan!ChanNext]_(Chan!chanVars)
  <2>1. PICK m \in 0 .. n - 1 :
          /\ at \in [1 .. m -> 1 .. n]
          /\ \A i, j \in 1 .. m : i < j => at[i] < at[j]
    BY DEF Spared
  <2>2. m \in 0 .. n
    BY <1>0
  <2>3. Rest(at) = [i \in 1 .. m |-> wire[at[i]]]
    BY <2>1 DEF Rest
  <2>4. /\ rconn = "open" /\ rconn' = "open" /\ got' = got /\ broken' = TRUE
        /\ send_fds' = send_fds /\ recv_fds' = recv_fds \o Rest(at)
        /\ wire' = SubSeq(wire, n + 1, Len(wire))
    BY <1>11 DEF ReadNoMem, RecvMsg, sendSide
  <2>5. Rest(at) = Chan!Chosen(wire, m, at) /\ Chan!Increasing(m, at)
    BY <2>1, <2>3 DEF Chan!Chosen, Chan!Increasing
  <2>6. /\ queueBar = recv_fds \o (wire \o send_fds)
        /\ queueBar' = (recv_fds \o Chan!Chosen(wire, m, at))
                         \o (SubSeq(wire, n + 1, Len(wire)) \o send_fds)
    BY <2>4, <2>5 DEF queueBar
  <2>7. Left(recv_fds \o (wire \o send_fds),
             (recv_fds \o Chan!Chosen(wire, m, at))
               \o (SubSeq(wire, n + 1, Len(wire)) \o send_fds))
    BY <1>0, <2>1, <2>2, <2>5, FileLose
  <2> QED BY <2>4, <2>6, <2>7, <1>lose
<1> QED BY <1>2, <1>3, <1>4, <1>5, <1>6, <1>7, <1>8, <1>9, <1>10, <1>11 DEF Next

\* The connection, with its two lists, its short writes and reads and its
\* closes, is a FIFO channel for its two users; failing allocations lose
\* descriptors, but do not repeat or reorder what is left.
THEOREM FdsImplementChannel == Spec => ImplementsChan
<1>1. Init => Chan!ChanInit
  BY DEF Init, Chan!ChanInit
<1>2. Ahead /\ Held /\ [Next]_vars => [Chan!ChanNext]_(Chan!chanVars)
  BY StepRefines
<1> QED BY <1>1, <1>2, AheadInvariant, HeldInvariant, PTL
        DEF Spec, ImplementsChan, Chan!ChanSpec
=============================================================================
