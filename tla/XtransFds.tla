----------------------------- MODULE XtransFds -----------------------------
(***************************************************************************)
(* Descriptor passing over one UNIX-domain connection                      *)
(* (include/X11/Xtrans/Xtranssock.c, XTRANS_SEND_FDS).                     *)
(*                                                                         *)
(* One process queues descriptors with TRANS(SendFd); they leave with the  *)
(* next bytes it writes (SocketWritev), travel in the kernel attached to   *)
(* those bytes, are put on the peer's recv_fds list by the read that takes *)
(* the bytes (SocketRead, SocketReadv), and are handed to the peer's       *)
(* program by TRANS(RecvFd).  The two processes and the kernel interleave. *)
(*                                                                         *)
(* A descriptor is named by the open file it refers to; each file is       *)
(* opened once by the sending program, so names are never reused.  The     *)
(* byte stream is two counters.  The contents of the stream do not matter. *)
(***************************************************************************)
EXTENDS Naturals, Sequences, SequencesExt

CONSTANTS
  Files,          \* files the sending program may open and pass
  MaxBytes,       \* bound on the bytes written to the stream
  MaxChunk,       \* largest count one write or read moves
  MAX_FDS,        \* room for descriptors in the control buffer (128)
  MallocMayFail   \* whether malloc in appendFd may return NULL

ASSUME FdsAssumption ==
  /\ MaxBytes \in Nat
  /\ MaxChunk \in Nat
  /\ MAX_FDS \in Nat \ {0}
  /\ MallocMayFail \in BOOLEAN

VARIABLES
  send_fds,   \* ciptr->send_fds of the sender: files, oldest first
  closing,    \* files queued with do_close set
  recv_fds,   \* ciptr->recv_fds of the receiver
  wire,       \* descriptors in the kernel, between sendmsg and recvmsg
  off,        \* off[f]: index of the byte descriptor f is attached to
  wr, rd,     \* bytes written to and read from the stream
  sconn,      \* sender's connection: "open", "shutdown" or "closed"
  rconn,      \* receiver's connection: "open" or "closed"
  sopen,      \* files the sending process has a descriptor of
  sowned,     \* files the sending program must close itself
  ropen,      \* files the receiving process has a descriptor of
  got,        \* files handed to the receiving program by RecvFd, in order
  fresh,      \* files never opened
  sent,       \* history: files accepted by SendFd, in order
  lost,       \* history: files dropped from send_fds when the sender closed
  broken      \* history: an allocation in appendFd has failed

sendSide == <<send_fds, closing, sconn, sopen, sowned, fresh, sent, lost>>
recvSide == <<recv_fds, rconn, ropen, got>>
vars == <<sendSide, recvSide, wire, off, wr, rd, broken>>

Init ==
  /\ send_fds = <<>> /\ closing = {} /\ recv_fds = <<>> /\ wire = <<>>
  /\ off = [f \in Files |-> 0]
  /\ wr = 0 /\ rd = 0
  /\ sconn = "open" /\ rconn = "open"
  /\ sopen = {} /\ sowned = {} /\ ropen = {} /\ got = <<>>
  /\ fresh = Files
  /\ sent = <<>> /\ lost = <<>> /\ broken = FALSE

-----------------------------------------------------------------------------
(* The descriptor lists.  A definition named Bug... is a variant of the    *)
(* one that follows it with a plausible mistake; no specification uses it. *)

BugPush(list, f) == <<f>> \o list

\* appendFd: the new cell goes to the end of the list.
AppendFd(list, f) == Append(list, f)

BugCloseNone == sopen
BugCloseAll == sopen \ ToSet(send_fds)

\* discardFd(&send_fds, NULL, 0): the descriptors still open afterwards.
\* Those queued with do_close are closed, here and in cleanupFds.
DiscardSend == sopen \ (ToSet(send_fds) \intersect closing)

BugKeepOpen == ropen

\* discardFd(&recv_fds, NULL, 1), which closes every descriptor.
DiscardRecv == ropen \ ToSet(recv_fds)

BugCarryNone == <<>>

\* The descriptors SocketWritev puts into the control message: the list.
Carried == send_fds

-----------------------------------------------------------------------------
(* The sending process.                                                    *)

\* The program opens a file it may want to pass.
OpenFile(f) ==
  /\ f \in fresh
  /\ fresh' = fresh \ {f}
  /\ sopen' = sopen \union {f}
  /\ sowned' = sowned \union {f}
  /\ UNCHANGED <<send_fds, closing, sconn, sent, lost, recvSide, wire, off,
                 wr, rd, broken>>

\* The program closes a descriptor it owns.  A descriptor passed without
\* do_close must stay open until it is sent, so a queued one is not closed.
CloseOwned(f) ==
  /\ f \in sowned \ ToSet(send_fds)
  /\ sowned' = sowned \ {f}
  /\ sopen' = sopen \ {f}
  /\ UNCHANGED <<send_fds, closing, sconn, fresh, sent, lost, recvSide, wire,
                 off, wr, rd, broken>>

\* SocketSendFd: appendFd allocates a list cell and puts it at the end.
\* With do_close the library takes over the duty to close.
SendFd(f, do_close) ==
  /\ sconn # "closed"
  /\ f \in sowned \ ToSet(sent)
  /\ send_fds' = AppendFd(send_fds, f)
  /\ sent' = Append(sent, f)
  /\ off' = [off EXCEPT ![f] = wr]
  /\ closing' = IF do_close THEN closing \union {f} ELSE closing
  /\ sowned' = IF do_close THEN sowned \ {f} ELSE sowned
  /\ UNCHANGED <<sconn, sopen, fresh, lost, recvSide, wire, wr, rd, broken>>

\* appendFd when malloc returns NULL: the descriptor is closed, whatever
\* do_close says, and SendFd reports success all the same.
SendFdNoMem(f, do_close) ==
  /\ MallocMayFail
  /\ sconn # "closed"
  /\ f \in sowned \ ToSet(sent)
  /\ sopen' = sopen \ {f}
  /\ sowned' = IF do_close THEN sowned \ {f} ELSE sowned
  /\ sent' = Append(sent, f)
  /\ broken' = TRUE
  /\ UNCHANGED <<send_fds, closing, sconn, fresh, lost, recvSide, wire, off,
                 wr, rd>>

\* SocketWrite and SocketWritev when the kernel takes k bytes.  Descriptors
\* on the list go with the first of them and leave the list; discardFd
\* closes those queued with do_close.  A call that fails, or that moves no
\* byte, changes nothing: the list is kept for the next write.  The list is
\* copied into the control buffer without a check; what a longer list does
\* is undefined and not modelled.
Writev(k) ==
  /\ sconn = "open" /\ rconn = "open"
  /\ Len(send_fds) <= MAX_FDS
  /\ k > 0 /\ wr + k <= MaxBytes
  /\ wr' = wr + k
  /\ wire' = wire \o Carried
  /\ sopen' = DiscardSend
  /\ send_fds' = SubSeq(send_fds, Len(Carried) + 1, Len(send_fds))
  /\ UNCHANGED <<closing, sconn, sowned, fresh, sent, lost, recvSide, off, rd,
                 broken>>

\* SocketDisconnect: shutdown(2); descriptors can still be queued, not sent.
Disconnect ==
  /\ sconn = "open"
  /\ sconn' = "shutdown"
  /\ UNCHANGED <<send_fds, closing, sopen, sowned, fresh, sent, lost, recvSide,
                 wire, off, wr, rd, broken>>

\* SocketUNIXClose and SocketUNIXCloseForCloning on the sender: cleanupFds
\* empties both lists, then the socket is closed.
CloseSender ==
  /\ sconn # "closed"
  /\ sconn' = "closed"
  /\ sopen' = DiscardSend
  /\ lost' = send_fds
  /\ send_fds' = <<>>
  /\ UNCHANGED <<closing, sowned, fresh, sent, recvSide, wire, off, wr, rd,
                 broken>>

-----------------------------------------------------------------------------
(* The receiving process.                                                  *)

\* Descriptors attached to the bytes below b.
Touched(b) == {i \in DOMAIN wire : off[wire[i]] < b}

\* recvmsg moves k bytes and the descriptors attached to any of them.  The
\* kernel ends a read at the end of a segment that carries descriptors, so
\* those of one sendmsg at most are delivered.  n is their number.
RecvMsg(k, n) ==
  /\ rconn = "open"
  /\ k > 0 /\ rd + k <= wr
  /\ n \in 0 .. Len(wire)
  /\ Touched(rd + k) = 1 .. n
  /\ \A i, j \in 1 .. n : off[wire[i]] = off[wire[j]]
  /\ rd' = rd + k
  /\ wire' = SubSeq(wire, n + 1, Len(wire))

BugTakeNone(n) == <<>>

\* The descriptors in the control message recvmsg filled in.
Arrived(n) == SubSeq(wire, 1, n)

\* SocketRead and SocketReadv: every descriptor is appended to recv_fds.
Read(k, n) ==
  /\ RecvMsg(k, n)
  /\ recv_fds' = recv_fds \o Arrived(n)
  /\ ropen' = ropen \union ToSet(Arrived(n))
  /\ UNCHANGED <<sendSide, rconn, got, off, wr, broken>>

\* The positions of those of n descriptors that appendFd finds memory for,
\* when it does not for all.
Spared(n) ==
  UNION {{at \in [1 .. m -> 1 .. n] :
            \A i, j \in 1 .. m : i < j => at[i] < at[j]} : m \in 0 .. n - 1}

Rest(at) == [i \in DOMAIN at |-> wire[at[i]]]

\* The same when malloc fails for some: appendFd closes them and the later
\* ones move up in the list.
ReadNoMem(k, n, at) ==
  /\ MallocMayFail
  /\ RecvMsg(k, n)
  /\ recv_fds' = recv_fds \o Rest(at)
  /\ ropen' = ropen \union ToSet(Rest(at))
  /\ broken' = TRUE
  /\ UNCHANGED <<sendSide, rconn, got, off, wr>>

\* SocketRecvFd: removeFd takes the head of recv_fds.  On an empty list it
\* returns -1 and changes nothing.
RecvFd ==
  /\ rconn = "open"
  /\ recv_fds # <<>>
  /\ got' = Append(got, Head(recv_fds))
  /\ recv_fds' = Tail(recv_fds)
  /\ UNCHANGED <<sendSide, rconn, ropen, wire, off, wr, rd, broken>>

\* SocketUNIXClose on the receiver: cleanupFds closes everything on
\* recv_fds; the kernel drops what is still in flight.
CloseReceiver ==
  /\ rconn = "open"
  /\ rconn' = "closed"
  /\ ropen' = DiscardRecv
  /\ recv_fds' = <<>>
  /\ wire' = <<>>
  /\ UNCHANGED <<sendSide, got, off, wr, rd, broken>>

-----------------------------------------------------------------------------
Next ==
  \/ \E f \in Files : OpenFile(f)
  \/ \E f \in Files : CloseOwned(f)
  \/ \E f \in Files, do_close \in BOOLEAN : SendFd(f, do_close)
  \/ \E f \in Files, do_close \in BOOLEAN : SendFdNoMem(f, do_close)
  \/ \E k \in 1 .. MaxChunk : Writev(k)
  \/ Disconnect
  \/ CloseSender
  \/ \E k \in 1 .. MaxChunk, n \in 0 .. Len(wire) : Read(k, n)
  \/ \E k \in 1 .. MaxChunk, n \in 0 .. Len(wire) :
       \E at \in Spared(n) : ReadNoMem(k, n, at)
  \/ RecvFd
  \/ CloseReceiver

Spec == Init /\ [][Next]_vars

\* A program that polls its connection reads what has arrived and collects
\* the descriptors; the sender is under no such obligation.
Fairness ==
  /\ WF_vars(\E k \in 1 .. MaxChunk, n \in 0 .. Len(wire) : Read(k, n))
  /\ WF_vars(RecvFd)

FairSpec == Spec /\ Fairness

-----------------------------------------------------------------------------
(* Properties.                                                             *)

InSend(f) == f \in ToSet(send_fds)
InWire(f) == f \in ToSet(wire)

\* Everything accepted by SendFd that the receiver can still be given, plus
\* what it was given, in the order in which it will have come out.
Pipeline == got \o (recv_fds \o (wire \o (send_fds \o lost)))

\* Until an allocation fails, every descriptor SendFd accepted is, in the
\* order of the calls, with the receiving program, on recv_fds, in flight,
\* on send_fds, or was dropped by the sender's close: short writes, failed
\* writes and short reads neither lose, repeat nor reorder one.
Conservation == ~broken /\ rconn = "open" => sent = Pipeline

\* Until an allocation fails, what the receiving program was given is the
\* beginning of what the sending program passed, in the same order, also
\* after either side has closed.
InOrder == ~broken => IsPrefix(got, sent)

\* A descriptor is never behind the bytes written after it was queued: once
\* the receiver has read such a byte, no RecvFd can be too early for it.
FdBeforeByte ==
  \A f \in Files : InSend(f) \/ InWire(f) => rd <= off[f]

\* When the sender's connection is gone, so is every descriptor that was
\* passed with do_close, whether it was sent or not.
NoSenderLeak == sconn = "closed" => closing \intersect sopen = {}

\* When the receiver's connection is gone, the only passed descriptors it
\* still has are those the program took with RecvFd.
NoReceiverLeak == rconn = "closed" => ropen = ToSet(got)

\* Until an allocation fails, the library closes no descriptor that the
\* sending program still owns (one never passed, or passed without do_close).
OwnedStaysOpen == ~broken => sowned \subseteq sopen

\* What is in flight reaches the receiving program unless it closes, or the
\* descriptor is one of those that appendFd had no memory for.
Delivered ==
  \A f \in Files : InWire(f) ~>
    \/ f \in ToSet(got) \/ rconn = "closed"
    \/ broken /\ f \notin ToSet(wire) \union ToSet(recv_fds)

\* The connection is a FIFO queue of descriptors for its two users, which loses
\* some of them, but repeats and reorders none, when an allocation fails.
Chan == INSTANCE FdChannel WITH
          queue <- IF rconn = "open" THEN recv_fds \o (wire \o send_fds) ELSE <<>>,
          out <- got,
          failed <- broken

ImplementsChan == Chan!ChanSpec

=============================================================================
