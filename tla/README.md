# Verification of the X transport library in vlinuxroot

The repository is a tree of Linux headers, prebuilt libraries and start files
that the V compiler uses to cross-compile for Linux.  Nearly all of it declares
things: third-party headers, archives and object files.  One directory is a
program of its own, shipped as source because it is compiled into its users by
`#include`: `include/X11/Xtrans`, the X transport library.  It opens, binds,
accepts, connects, reads, writes and closes for X servers, X clients and the
session, font and ICE protocols.  This project models it as a Linux build
compiles it: `TCPCONN`, `UNIXCONN`, `IPv6`, abstract sockets, descriptor passing
(`XTRANS_SEND_FDS`), sockets from systemd, client and server side.

## Inventory

| Part | State it keeps | Operations | Hard about it | Correct when |
|---|---|---|---|---|
| Descriptor passing (`Xtranssock.c` 1987-2351) | `send_fds` and `recv_fds` of a connection | `SendFd`, `RecvFd`, `Read(v)`, `Write(v)`, `Close` | two processes and the kernel; short reads and writes; a failed `malloc` | every descriptor arrives once, in order, not behind its bytes; none leaks |
| Server listeners (`Xtrans.c` 740-1247, `Xtranssock.c` 596-1277, 2279-2351) | transport flags, the list of listeners, `umask`; outside: ports, the abstract name, the socket file | `NoListen`, `Listen`, `MakeAllCOTSServerListeners`, `Accept`, `ResetListener`, `Close`, `CloseForCloning` | several servers race for four names taken one by one; crashes leave a file behind; `unlink` goes by name; ten failure exits | one server per display; not everybody gives up; names and `umask` are given back; `*partial` is true |
| Client connections over TCP (`Xtranssock.c` 240-580, 1299-1670) | `ciptr->fd` and `index`; the static `addrlist` with its cursor | `OpenCOTSClient`, `Connect`, `Close` | state that survives the call and is shared by all connections; the socket is closed before its replacement is had; retries | the right socket meets the right address; all addresses get tried; nothing leaks; no foreign descriptor is touched |
| Client connections over UNIX sockets (1682-1961) | the `TRANS_ABSTRACT` flag | `Connect`, `Close` | the flag is shared with the server side of the process and does not come back; the name is put together under a length limit | reaches the server meant, on this machine only, by either of its names |
| Accepting (1132-1277) | the new `ciptr`; the listener's `addrlen` | `Accept` | four steps that fail, one because the client has left; it overwrites the listener's record | a whole connection or nothing; the listener stays usable |
| Address parsing (`Xtrans.c` 152-393) | none | `ParseAddress`, `SelectTransport` | corner cases of the syntax | finds the parts where the form has them |
| Socket directory (`Xtransutil.c` 468-635) | the directory in the file system | `trans_mkdir` | checks by name, changes afterwards | never hands a foreign directory over |
| Reopening, systemd (`Xtrans.c` 490-615, 1040-1112, `Xtranssock.c` 608-700) | `RECEIVED`, `NOUNLINK` flags, the listeners received | `Reopen`, `Received`, `receive_listening_fds` | descriptors made by somebody else, as many as that pleases; they are counted with those made here | the two kinds fit their array, add up, do not meet each other, and are given back when the start fails |
| Options (`Xtrans.c` 620-701) | `fcntl` flags | `SetOption` | | |
| Network identifiers (`Xtransutil.c` 89-416) | a static `jmp_buf`, the handler of `SIGALRM` | `GetMyNetworkId`, `GetPeerNetworkId`, `ConvertAddress` | a signal that jumps out of a lookup between any two steps; a buffer that is reused for something longer | the wait ends; an answer is used; nothing is written past the buffer; the jump finds its frame |
| `Xtranslcl.c` | | | compiled under `LOCALCONN`, which Linux does not define | |
| Widget templates, `libsshpp.hpp`, headers, binaries | | | no behaviour of their own | |

The parts interact as follows.  `MakeAllCOTSServerListeners` calls `Open` and
`CreateListener` of each transport in table order and `Close` on those it has
when an address is in use.  Client and server side of one process share the
`Xtransport` records and with them the flags.  Processes share the kernel's
names.  A connection made by `Accept` or `Connect` carries the descriptor lists.

## Modules

`FdChannel` is the abstract specification of descriptor passing: a FIFO queue
with `Put`, `Take`, `Cut` when an end closes, and `Lose` when an allocation fails,
which takes descriptors out of the queue and leaves the rest in order.

`XtransFds` models one connection between two processes.  `send_fds`,
`recv_fds` and `closing` (the `do_close` marks) are the lists of the code;
`wire` and `off` are the kernel's queue of descriptors, each attached to a byte
of the stream, which is two counters `wr` and `rd`; `sopen`, `sowned`, `ropen`
are who has which descriptor open and who must close it.  `SendFd` is
`SocketSendFd` with `appendFd`; `Writev` is `SocketWrite` and `SocketWritev`
with `sendmsg` and `discardFd`; `Read` is `SocketRead` and `SocketReadv` with
`recvmsg` and `appendFd`; `RecvFd` is `SocketRecvFd` with `removeFd`; the closes
include `cleanupFds`.  The variants ending in `NoMem` are the failed `malloc` of
`appendFd`.  A write that fails or moves no byte changes nothing in the code and
is a stuttering step.  More than `MAX_FDS` queued descriptors overrun the
control buffer in the code; that is undefined, and `Writev` is restricted to
lists that fit.

`XtransListen` models any number of server processes on one host.  `pc`, `i`,
`temp` and `ipv6_succ` are the control state and the variables of
`MakeAllCOTSServerListeners`; `flags` are the transport flags of the process;
`sock`, `at` and `addr` are the state of each socket, the name the kernel has
for it and the name the library recorded; `clipped` are the listeners whose
`addrlen` an `accept` overwrote; `umask` and `oldUmask` are the process's mask and
the saved one; `path` is the socket file and who bound it.  An action ends where the
code enters the kernel on a name that others use (`unlink`, `bind`, `listen`,
`close`), so the processes interleave between any two such calls; what the code
does in between is part of the action.  `Faults` switches the failures on.  A
port is in use for `bind` when somebody listens on it (`SO_REUSEADDR`), and
`listen` checks again; the IPv6 sockets the library makes are `V6ONLY`, so their
families do not collide.  A `trans_mkdir` that fails in the reset leaves
everything as it was.  Three things are coarser than the code: the retries of
`bind` and `listen` on a TCP port, which the code counts and sleeps between, are
one step; a service or port that `SocketINETCreateListener` cannot use
(`Xtranssock.c:862-884`) is `OpenFails`, although the code leaves an unnamed socket
open then; and a reset finds a socket under its path or nothing, never a file of
another kind.

`units` are the sockets that systemd made for a process and keeps open, `recv`
the listeners that `receive_listening_fds` made of them.  A socket has one of
six kinds, which is what `receive_listening_fds` looks at (family, and the first
byte of the name) and what the rest of the code depends on: a `dual` socket is
an IPv6 one that takes IPv4 as well.  `Receive` is one pass of its loop with
`ReopenCOTSServer`, `SocketReopen` and `Received`; a descriptor it cannot use ends
the call with those before it left open, as in the code.  `ResetReceived` is
`SocketUNIXResetListener` on a received listener: its recorded path is the port
alone, so `stat` looks in the working directory of the process (`inCwd`), and the
listener is taken down and bound anew there.  When the listeners are more than
`temp_ciptrs` has room for, the process is in the state `overrun` and what it does
from there on is undefined.

`XtransConnect` models the connections of one process.  `fd` and `index` are
fields of the `ciptr`; `listed`, `host`, `addrs` and `cur` are the static
`addrlist`; `owner` and `family` are the descriptor table of the process.  The
call is cut where other threads of the program can matter: between the close of
a socket and the call that gets a new one, and before `connect`.
`getaddrinfo` returns any list of `AddrLists`, `connect` ends in any way in
`Outcomes`, and `socket` fails when the table is full or the family is in
`MayFail`.  A `connect` on a number that meanwhile is another thread's file fails
for good; what it would do to a socket of that thread is left out, and no
property depends on it.  The loop of the caller (close and open again after
`TRANS_TRY_CONNECT_AGAIN`) is outside the repository and modelled from the
return codes.

`XtransAddress` has `ParseAddress` and `SelectTransport` as operators.  An
address is a sequence of tokens: the four characters the parser looks for, and
words, which it compares as a whole; a word may be a transport's name in upper
or lower case (`Lower`).  `strchr` and `strrchr` give positions, `SplitProtocol`,
`HostPart` and `PortPart` are the three stages of the function.  `inet_pton` is
membership in `IPv6Texts`.

`XtransUnix` composes that parser with a client that dials one address again
and again, and with the server it looks for.  `parsed` and `trans` are the local
variables of `Open` and `Connect`, `abstract` is the flag of the `local` transport,
`addrSet` and `peer` belong to the `ciptr`; `srv` and `on` are a server on the same
machine and the names it has.  Its actions are `ParseAddress`, `Open`, the
checks of `Connect` and `UnixHostReallyLocal`, `set_sun_path`, `connect(2)` under
the abstract name and then under the file name, and `Close`, each with its
failures.  A name is a sequence of tokens and a token counts as one character
towards `SunPathSize`, so that the length check of `set_sun_path` and the cut that
`snprintf` makes are the code's; a server uses the same function, and one whose
port makes too long a name does not start.  An address that selects TCP leaves the model
here (`Elsewhere`) and goes on in `XtransConnect`.

`XtransPeer` models a server that accepts one client after the other and asks
who it is.  `own` is what the process has got for the connection; `Steps` lists
the four steps of `SocketINETAccept` and `SocketUNIXAccept`, with what each gives
back when it fails.  `conv` is the buffer handed to `ConvertAddress`: its family
and length, its size and how far it was written.  `alarm`, `handler`, `blocked`
and `env` are the timer, the handler of `SIGALRM`, the signal mask and the frame
`setjmp` has saved.  `Jump` is the handler when that frame is there: it
returns to `Setjmp` with the signal still blocked, since `setjmp` of this C
library saves no mask (`setjmp.h:60`).  `JumpAstray` is the handler when it is
not, after which nothing is defined (`crashed`).  The alarm may go off between
any two steps, and the program may set one of its own, with or without a handler
of its own.  That the lookup returns and that its result is stored is one step; a
signal between the two counts as one before the answer.  A failed `gethostname` or `malloc` in `ConvertAddress` leaves the
caller with a null pointer, as in the code.

`XtransMkdir` models callers of `trans_mkdir`, one action per system call, and
the other users of the name, who make a directory or a link, change the mode of
directories they own and remove what is there.  `build` is what is defined
when the code is compiled (`FAIL_HARD`, `HAS_FCHOWN`, the sticky bit in the mode
asked for); `name` and `link` are the directory entry; `inode` holds owner and
mode of every directory; `buf` is the caller's `struct stat`, `fd` its open
directory.  The mode is abstracted to the bits the code distinguishes for the
modes that its callers ask for (01777 and 0777): sticky, and writable for all.
An inode number is not used twice: the code compares numbers, and would take a
new directory with an old number for the one it examined.

`XtransFdsProofs`, `XtransListenInv`, `XtransListenProofs`, `XtransMkdirProofs`,
`XtransConnectProofs`, `XtransUnixProofs` and `XtransPeerProofs` hold the proofs.
`MC_Fds`, `MC_Listen`, `MC_Connect`, `MC_Unix`, `MC_Mkdir` and `MC_Peer` hold the
values of constants for TLC.  A definition named `Bug...` is a variant of the definition after it with a plausible mistake
in it; each property is shown to fail for one of them.

## Runs

| Run | Checks | Bounds |
|---|---|---|
| `fds` | `Conservation`, `InOrder`: until an allocation fails no descriptor is lost, repeated or overtaken; `FdBeforeByte`: none is behind the bytes written after it; `NoSenderLeak`, `NoReceiverLeak`, `OwnedStaysOpen`: after a close exactly the right ones are open; `ImplementsChan`: the connection is the queue of `FdChannel`, also when allocations fail; `Delivered`: what is in flight arrives, or was lost to a failed allocation | 3 descriptors, 3 bytes in chunks of at most 2, `MAX_FDS` 2: short reads, two descriptors in one message, and a list at its limit occur |
| `listen_contend` | `OneServer`: never two servers up that want the abstract name; `PathLoss`: a server that is up loses its file only to a cleaner or an earlier server's close; `StartEnds` | 2 servers that crash, restart and switch TCP off and on, a cleaner |
| `listen_faults` | `NotAllFail`: servers that start together do not all turn each other away; `CompleteIsExclusive`: two servers told that their listeners are complete share no exclusive name; `FailedReleases`: a refused start has released every name and everything received | 2 servers, failing `malloc`, client connections that drop the abstract name, a stale file, a file socket from systemd or none |
| `listen_mask` | `MaskLeaks`: the mask is lost only at the return for a path that is too long and at the failed `bind` of the reset; `ResetWhenGone`: which listeners a reset takes down; `TempFits`: the listeners fit their array; `PartialTruthful`: `*partial` is true of received and made listeners together; `BlamesOther`: an address in use is another process's | 1 server, every fault, client connections of its own, eleven sets of sockets from systemd: none, each kind, pairs that meet and that do not, and more than there are transports |
| `listen_reset` (violation) | `ResetRecreates`: a listener that a server holds when it is up has the name it was made with | 1 server, a cleaner, clients without a name of their own |
| `connect_retry` | `RetryMovesOn`: no address is tried twice before all usable ones were tried; `ConnectEnds` | 1 connection, every list of 1 to 3 addresses of the three kinds, every outcome |
| `connect_fds` | `ConnectMatches`: `connect` is called on the own socket with an address of its family; `NoSocketLeak`; `OwnDescriptors`: a foreign descriptor is closed only after a failed reopen; `WholeListSeen`: "no usable address" is true wherever the walk began | 2 connections to 2 hosts, 3 descriptors, lists of 1 or 2 addresses, a thread that takes descriptors |
| `connect_shared` (violation) | `RetryMovesOn` | 2 connections that alternate, 2 addresses each |
| `unix` | `PartsAsWritten`: the components are what is before the first '/', between it and the last ':', and behind that, with the defaults for what is left out, and it fails only where there is no such reading; `RebuiltParsesAlike`: the components, written out, parse to themselves; `OnlyLocal`: a UNIX socket is used only for an address whose host means this machine; `RightServer`: the server at the other end serves the port that was dialled; `Reaches`: a client that keeps dialling gets through to a server that has its file | all addresses of up to 4 tokens; hosts of up to 4 tokens after each protocol; ports of every length around the limit of `sun_path`, with and without a path and `@`; a server under either name or both |
| `mkdir` | `SuccessIsSafe`: in a build that fails hard, success is for a directory that belongs to root and keeps the sticky bit; `CorrectsWhatItSaw`: `fchown` and `fchmod` reach the examined directory only | 2 callers, one of them root, 2 new directories and one that has another name, all 8 builds |
| `peer` | `TypeOK`; `AllOrNothing`: after a failed `Accept` and after `Close` the process has nothing, after a successful one everything; `BufferHolds`: `ConvertAddress` writes within its buffer; `SameOverAll`: the family it reports depends on the peer, not on the listener; `NameIfAnswered`: an answer is used whenever the alarm goes off; `JumpsHome`: the call's alarm does not outlive the call; `WaitEnds`: a lookup ends unless `SIGALRM` is blocked | 3 kinds of listener, peers of every kind for it, two builds, host names of 7 lengths: none, short, and just fitting and not fitting each address |
| `peer_wait` (violation) | `WaitAlwaysEnds`: the same, without the condition | as `peer` |

Two servers are enough for the races over a name, which are between one that
has it and one that wants it.  Lists of three addresses let a walk begin in the
middle, wrap, and meet a used, a skipped and a reopened address.  The
transport table is the real one.

### What the violations show

* `connect_shared`: the address list and its cursor are static and belong to
  the last host asked for.  When attempts for two hosts alternate, both start at
  their first address every time and never come to the second.

* `listen_reset`: `SocketUNIXAccept` writes the length of the client's address
  over the listener's `addrlen` (`Xtranssock.c:1234`), and clients of a UNIX socket
  have no address.  When the socket file is removed after that, the reset, which
  is there to recreate it (`Xtranssock.c:1054`), binds with that length; the
  kernel picks an abstract name and the server listens where nobody looks.
  Without an accept in between the same run finds nothing.

* `peer_wait`: the handler of `SIGALRM` leaves by `longjmp`, and `setjmp` has not
  saved the signal mask.  After the first lookup that was cut off the signal
  stays blocked for the rest of the process, and the next lookup lasts as long
  as the name service likes, although the comment in `GetPeerNetworkId` says "do
  not make the user wait".

Other weaknesses are stated as exact exceptions in properties that hold:

* `MaskLeaks`: two exits keep `umask` at zero.
* `ResetWhenGone`: a client connection in the server's process whose abstract
  address is refused clears `TRANS_ABSTRACT` (`Xtranssock.c:1924`) in the record
  the listener uses as well; the next reset takes a working listener down.  A
  listener received from systemd is taken down by every reset.
* `TempFits`: `receive_listening_fds` stops at one socket per transport, and
  sockets that share a transport leave no room for the listeners made afterwards.
* `PartialTruthful`: `*partial` compares a count, which a second socket for one
  transport, or one for a transport switched off, makes up.
* `BlamesOther`: a received IPv6 socket that takes IPv4 does not set `ipv6_succ`,
  and the `inet` listener then meets the process's own port and ends the start;
  so does the listener for a socket that systemd hands over beyond the fifth,
  which the loop in `receive_listening_fds` leaves where it is
  (`Xtrans.c:1056`).
* `CompleteIsExclusive` is for sockets handed over one to a transport, and none
  for a transport that is switched off (`PlainUnits`), since `*partial` compares
  counts.
* `NotAllFail` is for servers that systemd hands at most a file socket
  (`FileUnits`): a port or an abstract name that it holds is taken out of the
  order of the table, and the orders may cross.
* `OwnDescriptors`: the descriptor number is used after its close when a socket
  cannot be reopened.
* `PartsAsWritten` is about where the parts of an address are.  The comment of
  `ParseAddress` is not followed in two points, which the property leaves out:
  no address is taken for DNET because of a "::" (`Xtrans.c:211`; `w::w` is taken for
  TCP with the host `w:`), and an address such as `/::0`, which has a host and no
  protocol, is taken for a local one where `Xtrans.c:209` says TCP.
* `RightServer`: the length check of `set_sun_path` leaves out the `@`, and two
  ports whose names differ only in the last character share an abstract name.
* `Reaches`: it is about a server with a socket file.  Once a client has
  fallen back, a server that has only the abstract name is not reached any more.
* `JumpsHome`: an alarm that the program sets itself after the call finds
  `nameserver_lost` still installed and jumps into a frame that is gone; so does
  the call's own when four seconds pass between `alarm` and `setjmp`.
* `SuccessIsSafe`: a directory of another user that had the sticky bit when it
  was examined does not get its mode set again after `fchown`.

Without a property: when the address of a descriptor received from systemd
cannot be had, those received before stay open; two callers that both find no directory race for
`mkdir`, and the slower one fails although the directory is there by then
(`MkdirFails`); brackets are taken off an IPv6 address for `tcp` but not for `TCP`,
though both select the same transport; the comment in `cleanupFds` ("don't close
the fds") is not what `discardFd` does for descriptors queued with `do_close`.  The
model follows the code in each case.

### Fairness

`Delivered` assumes that a receiving program that polls its connection reads
what has arrived and collects descriptors.  `StartEnds` and `ConnectEnds` assume
that a call runs on: its steps are system calls that return.  `Reaches` assumes
weak fairness of the client as a whole (its calls return, and it dials
again when it has failed) and says in its premise that failures of the
client's machine end some day; the server is free to come and go until it stays.
`WaitEnds` assumes that the process runs on and that an alarm that is set and not
blocked goes off; nothing is assumed of the name service, which may never
answer.  No fairness is assumed of a sender, of another process, of the cleaner
or of the caller's retries over TCP.

## Proofs

`XtransFdsProofs` proves for all values of the constants:

* `FdBeforeByteHolds`.  `FdBeforeByte` is not inductive: after a read the
  offsets of what stays in flight must be known to be past the bytes read, and
  those of queued descriptors to be at or past the last byte written.  `Ahead`
  adds this.
* `ConservationHolds` and `InOrderHolds`, from `OrderInv`: as long as no
  allocation has failed, what was sent is the concatenation of what was
  received, both lists and the wire, or, once the receiver closed, what was
  received is a prefix of it.
* `NoSenderLeakHolds` and `OwnedStaysOpenHolds`, from `Duties`: a descriptor
  queued with `do_close` is open only while it is on `send_fds`, and the program
  owns none of them.
* `NoReceiverLeakHolds`, from `Held`: the receiving process has open what it was
  given and what is on `recv_fds`, and nothing is both.  That the close of the
  list takes nothing from the program rests on `Apart`: a descriptor is at one
  place on its way and there once, also when `appendFd` has dropped some of those
  that came with it.
* `FdsImplementChannel`: the specification implements `FdChannel` under the
  mapping of `Chan`, whether allocations fail or not.  A failed allocation is a
  `Lose`: what `appendFd` keeps of the descriptors that came with a read is a
  subsequence of them, and putting it between what was collected and what is
  still in flight leaves a subsequence of the whole (`Left`, `FileLose`).

`XtransListenInv` and `XtransListenProofs` prove for any number of servers, any
sockets handed over and any set of faults every safety property of
`XtransListen` that the runs check.

* `LocalsHold` is the invariant of one process.  `Passed`: names are held only
  for entries of the table that the walk has passed.  `Holds`: the names held are
  those of the listeners in `temp_ciptrs`, which is what an abort closes, unless
  memory ran out.  `Bound`: the name an entry has is the one its transport calls
  for.  `Kept`: listeners keep the address and the name they were made with.
  `FlagsOk`, `Chosen`, `HasLocal`, `Complete`, `Fits` and `ReceivedOk` say what the flags, the
  counts and the received listeners tell of each other, and `Victim` what
  an operation on one listener may rely on.  It is proved conjunct by
  conjunct, each with a case for the actions that could break it.
  `StepOthers` says that a step changes nothing of another process but the socket
  file, which carries the rest over.
* `InvHolds` relates the processes.  `Exclusive`: one process has the abstract
  name, one listens on a port, and none has a name that systemd keeps; with
  `HasLocal` (a process past `local` has the abstract name) it gives
  `OneServerHolds`, `CompleteIsExclusiveHolds` and `PathLossHolds`.  `Files`: a process
  about to bind the file has unlinked its own, for `BlamesOtherHolds`.
* `NotAllFailHolds` needs more than that somebody has the name.  The holder may be
  aborting itself, so `Survivor` says that for each process turned away there is
  one, not failing, that has come as far in the table (`Beyond`).  When a process is turned
  away by one that is aborting, that one was turned away further down, and its
  own survivor will do.  The last entry is different: the file in the way
  may be that of the entry before it, when the abstract flag was lost, or an old
  one.  `Fresh` says that a file that `bind` meets was made by a process of this
  contest that does not fail.
* `FailedReleasesHolds` is from `Holds`, `TempFitsHolds` from `Fits`,
  `PartialTruthfulHolds` from `Complete` and a counting argument,
  `ResetWhenGoneHolds` from `Kept`.
  `MaskLeaksHolds` looks at every action once: where the mask is in order before
  it, it is after it, but for the three named.

The proofs changed the model in two places: the premises of `CompleteIsExclusive`
and `NotAllFail` and the last case of `BlamesOther` are needed for sockets from
systemd that the bounds of the runs had left out; the runs have them now.

`XtransMkdirProofs` proves for any number of callers and directories:

* `SuccessIsSafeHolds`.  The invariant of a caller (`Part`) has three pieces.
  `Place`: the open directory is the examined one, and nothing is marked as
  corrected before `fchown`, so the mode is only ever set after the owner.
  `Kept`: what root owns, from the start or since the caller's `fchown`, stays
  root's, and so does a sticky bit set or seen there; this rests on `AllBetter`, which says
  that no step of anyone makes a directory of root's worse.  `Knows`: what the
  caller has established when it reports success.  `Named` adds that a name
  leads to a directory in use, so that a new one is never the examined one.
* `CorrectsWhatItSawHolds`, from `Place`.

`XtransConnectProofs` proves for any number of connections, hosts and
descriptors, and address lists of any length, from the invariant `CInv`:

* `ConnectMatchesHolds` and `NoSocketLeakHolds`.  Neither is inductive.  `Has`
  adds that a connection between `Open` and `Close` has its socket unless it is
  being replaced, and `Between` that it has none while it is; `Alone` that calls
  do not overlap, so that nobody moves the cursor under a call; `Listed` that the
  cursor is in the list.  `Fits` says which family the socket has: that of the
  table entry while the list is searched.  It survives a socket that comes back
  with a family that was not wanted, by `Entry`: the fallback in the table after
  an entry for `tcp` can only be the entry the connection had.
* `OwnDescriptorsHolds`: the numbers the library closes are the connection's
  own by `Has`, and those it takes are free.
* `WholeListSeenHolds`, from `Passed`: since the walk went back to the beginning
  it has seen no address of the socket's family.
* `RetryMovesOnHolds`, for a program with one connection where `socket(2)` fails
  for IPv6 only for lack of a descriptor (`Undisturbed`).  `Turns` orders the
  usable addresses by how soon the walk comes to them from the cursor
  (`Rank`) and says that those tried are the last of them; `MoveRank` says that a
  cursor that moves on puts the address it leaves behind the others.  `Own`
  says that the list stays the connection's.  Both conditions are needed:
  `connect_shared` shows two connections that undo each other's progress, and
  where IPv6 sockets may fail a connection can get an IPv4 socket in place of the
  one wanted and skip the address without a try.

`XtransUnixProofs` proves for addresses, host names, ports and a `UNIX_PATH` of
any length and any name service:

* `PartsAsWrittenHolds`.  The form "protocol/host:port" tells where the parts of
  an address are (`Reading`), the code searches for the separators one after
  the other in what is left.  `Shape` is the reading of any sequence.
  `ShapeParses` says that what has a shape parses to its parts, `HasShape` that
  what parses has one, so there is no reading where the parser fails.  Both rest
  on what the first and last position of a token are (`FirstIs`, `LastIs`, from
  the least element of a set of numbers) and on parts of parts (`PartOfPart`).
* `RebuiltParsesAlikeHolds`.  `WrittenShape` says where the separators of
  a written address are when the protocol has no '/' and the port no ':' (and
  no '/' for a font); the host may have either.  `HostPartIs` says
  that a host that was filled in or taken out of its brackets is left alone the
  second time.
* `OnlyLocalHolds` and `RightServerHolds`, from the invariant `UInv` of the
  client: `parsed` and `trans` are what the parser and the table make of the
  address until the connection is closed, and a connection is to a server that
  had, when it was made, the name dialled (`Met`).  For `OnlyLocal` the words that
  name a local transport must not lead to the brackets of an IPv6 host.  For
  `RightServer`, `FileName` and `AbstractName` say what `set_sun_path` makes of a
  port, cut or not, and `SameName` which ports that cannot tell apart.

These proofs made four assumptions explicit: lower-casing a transport's name as
the table has it leaves it as it is; `inet_pton` accepts nothing that begins with
'['; `UNIX_PATH` is an absolute path; a host that the name service knows has an
address.

`XtransPeerProofs` proves for host names of any length, from the invariant `PInv`,
`TypeOKHolds`, `AllOrNothingHolds`, `BufferHoldsHolds`, `SameOverAllHolds`,
`NameIfAnsweredHolds` and `JumpsHomeHolds`.  `Owns` is what the process has at
each step of `Accept`; `Attached` that the peer is one of the listener's kind;
`Buffer` that the buffer is as long as the address in it before it is converted;
`Timer` that the call's alarm is on only inside the call and that the frame is
there from `setjmp` to the return; `Held` that `hostp` holds the last answer, in
particular after a jump.

The assumptions are the named `ASSUME`s of the modules, which TLC evaluates in the
runs.  Every safety property that the passing runs check is stated by a theorem.
Only model-checked: all liveness (`StartEnds`, `ConnectEnds`, `Reaches`,
`Delivered`, `WaitEnds`), which is out of the prover's reach.

## Not modelled

Of the library: `SetOption` (the `fcntl` flags of one descriptor, no shared
state), `GetMyNetworkId` (puts one string together), `GetReopenInfo` (only
reads), `Xtranslcl.c` (compiled under `LOCALCONN`, which Linux does not define)
and what is compiled on Windows only.  A client that binds a UNIX socket before
it connects is not modelled; no caller in the library does.  The static
`addrlist` is not locked, and what two overlapping calls of `Connect` do is
undefined: the model lets calls alternate but not overlap.  What state the
resolver is left in when the handler jumps out of it is not known from this
repository.  The control buffer overrun by more than `MAX_FDS` descriptors is
excluded by the guard of `Writev`.

Of the repository: the library is about one line in a hundred of what counts as
source here.  The rest are headers that declare the interfaces of other
libraries (OpenGL, GLFW, OpenSSL, Xlib, the kernel): constants, prototypes and
type definitions, and a few inline wrappers around functions that are not in the
repository, besides archives, start files and two widget skeletons.  None of it
keeps state or takes steps, so there is nothing in it to model, and the share of
the repository's lines that the modules map stays small for that reason.

## Plan

Done: descriptor passing with its abstract specification and proofs; the server
listeners with those received from systemd, and the proofs of all their safety
properties; the TCP client with its proofs; address parsing and the UNIX client
with their proofs; accepting, `ConvertAddress` and `GetPeerNetworkId` with their proofs; the socket
directory with its proofs.  Every safety property of the passing runs is proved.
Next: what retries guarantee to a connection while others share the list, from
the moment its own list was made until another connection enters `Connect`.
