---------------------------- MODULE XtransMkdir ----------------------------
(***************************************************************************)
(* The directory of the UNIX sockets (include/X11/Xtrans/Xtransutil.c:     *)
(* trans_mkdir).  Servers, run by root or not, examine the directory by    *)
(* name, create it or correct it, one system call per step, while its      *)
(* other users replace it, change its mode and clean up.                   *)
(*                                                                         *)
(* An inode number is used once: no new directory gets the number of one   *)
(* that is gone.                                                           *)
(***************************************************************************)
EXTENDS Naturals

CONSTANTS
  Callers,  \* processes that call trans_mkdir
  Root,     \* those of them with effective user 0
  Inodes,   \* inode numbers
  Elsewhere \* the inode of a directory that has another name

ASSUME MkdirAssumption ==
  /\ Root \subseteq Callers
  /\ Elsewhere \in Inodes
  /\ 0 \notin Inodes

VARIABLES
  build,    \* what is defined: FAIL_HARD, HAS_FCHOWN, HAS_STICKY_DIR_BIT
  name,     \* what the name leads to: an inode, 0 for nothing
  link,     \* the name is a symbolic link
  inode,    \* inode[i]: whether it belongs to root, has the sticky bit and is
            \* writable for all, and whether the number has been used
  pc,
  buf,      \* buf[p]: the inode p has examined or made, and how it was then
  fd,       \* fd[p]: the inode p has open, 0 for none
  updated   \* updated[p]: what p has corrected: updatedOwner, updatedMode

vars == <<build, name, link, inode, pc, buf, fd, updated>>
files == <<name, link, inode>>

Unused == [root |-> FALSE, sticky |-> FALSE, write |-> FALSE, used |-> FALSE]

Directories == [root : BOOLEAN, sticky : BOOLEAN, write : BOOLEAN, used : {TRUE}]

Init ==
  /\ build \in [FAIL_HARD : BOOLEAN, HAS_FCHOWN : BOOLEAN, sticky : BOOLEAN]
  /\ name = 0 /\ link = FALSE
  /\ inode = [i \in Inodes |->
       [Unused EXCEPT !.root = i = Elsewhere, !.used = i = Elsewhere]]
  /\ pc = [p \in Callers |-> "start"]
  /\ buf = [p \in Callers |-> [ino |-> 0, was |-> Unused]]
  /\ fd = [p \in Callers |-> 0]
  /\ updated = [p \in Callers |-> {}]

Goto(p, label) == pc' = [pc EXCEPT ![p] = label]

\* The name is given to a new directory.
NewDirectory(i, d) ==
  /\ name = 0 /\ ~inode[i].used
  /\ name' = i /\ link' = FALSE
  /\ inode' = [inode EXCEPT ![i] = d]

\* Bits 01000 and 0022 of the mode the callers ask for; umask is 0 then.
Mode(d) == [d EXCEPT !.sticky = build.sticky, !.write = TRUE]

\* The directory that mkdir makes for p.
Fresh(p) ==
  [root |-> p \in Root, sticky |-> build.sticky, write |-> TRUE, used |-> TRUE]

-----------------------------------------------------------------------------
(* trans_mkdir.  A definition named Bug... is a variant of the one that    *)
(* follows it with a plausible mistake; no specification uses it.          *)

\* lstat: ENOENT.  A caller that is not root goes no further in a build that
\* fails hard, when the sticky bit is wanted.
NotThere(p) ==
  /\ pc[p] = "start" /\ name = 0
  /\ Goto(p, IF p \notin Root /\ build.sticky /\ build.FAIL_HARD
               THEN "failed" ELSE "mkdir")
  /\ UNCHANGED <<build, files, buf, fd, updated>>

\* lstat: something that is not a directory, or, at any time, another error.
NotDirectory(p) ==
  /\ pc[p] = "start"
  /\ Goto(p, "failed")
  /\ UNCHANGED <<build, files, buf, fd, updated>>

updateOwner(d) == ~d.root

\* The mode asked for denies nothing to group and others (0077).
updateMode(d) == ~d.write \/ (build.sticky /\ ~d.sticky)

\* lstat: a directory.
Examine(p) ==
  /\ pc[p] = "start" /\ name # 0 /\ ~link
  /\ buf' = [buf EXCEPT ![p] = [ino |-> name, was |-> inode[name]]]
  /\ Goto(p, IF /\ build.HAS_FCHOWN
                /\ updateMode(inode[name]) \/ updateOwner(inode[name])
               THEN "open" ELSE "judge")
  /\ UNCHANGED <<build, files, fd, updated>>

Mkdir(p) ==
  /\ pc[p] = "mkdir"
  /\ \E i \in Inodes :
       /\ NewDirectory(i, Fresh(p))
       /\ buf' = [buf EXCEPT ![p] = [ino |-> i, was |-> Fresh(p)]]
  /\ Goto(p, "chmod")
  /\ UNCHANGED <<build, fd, updated>>

\* EEXIST, when another caller was faster, or another error.
MkdirFails(p) ==
  /\ pc[p] = "mkdir"
  /\ Goto(p, "failed")
  /\ UNCHANGED <<build, files, buf, fd, updated>>

\* chmod is by name: it changes what the name leads to by now, if p may.
Chmod(p) ==
  /\ pc[p] = "chmod" /\ name # 0
  /\ p \in Root \/ ~inode[name].root
  /\ inode' = [inode EXCEPT ![name] = Mode(@)]
  /\ Goto(p, "ok")
  /\ UNCHANGED <<build, name, link, buf, fd, updated>>

ChmodFails(p) ==
  /\ pc[p] = "chmod"
  /\ Goto(p, IF build.FAIL_HARD THEN "failed" ELSE "ok")
  /\ UNCHANGED <<build, files, buf, fd, updated>>

BugOpen(p) ==
  /\ pc[p] = "open" /\ name # 0
  /\ Goto(p, "fchown") /\ fd' = [fd EXCEPT ![p] = name]
  /\ UNCHANGED <<build, files, buf, updated>>

\* open follows a link; fstat must then tell the inode that lstat told.
Open(p) ==
  /\ pc[p] = "open" /\ name # 0
  /\ IF name = buf[p].ino
       THEN Goto(p, "fchown") /\ fd' = [fd EXCEPT ![p] = name]
       ELSE Goto(p, "failed") /\ UNCHANGED fd
  /\ UNCHANGED <<build, files, buf, updated>>

\* The directory cannot be opened, and stays as it is.
OpenFails(p) ==
  /\ pc[p] = "open"
  /\ Goto(p, "judge")
  /\ UNCHANGED <<build, files, buf, fd, updated>>

FstatFails(p) ==
  /\ pc[p] = "open" /\ name # 0
  /\ Goto(p, "failed")
  /\ UNCHANGED <<build, files, buf, fd, updated>>

\* fchown (fd, 0, 0), for root.
Fchown(p) ==
  /\ pc[p] = "fchown" /\ updateOwner(buf[p].was) /\ p \in Root
  /\ inode' = [inode EXCEPT ![fd[p]].root = TRUE]
  /\ updated' = [updated EXCEPT ![p] = @ \union {"owner"}]
  /\ Goto(p, "fchmod")
  /\ UNCHANGED <<build, name, link, buf, fd>>

\* Not called, or it fails.
NoFchown(p) ==
  /\ pc[p] = "fchown"
  /\ Goto(p, "fchmod")
  /\ UNCHANGED <<build, files, buf, fd, updated>>

\* fchmod (fd, mode), for root and for the owner, and close.
Fchmod(p) ==
  /\ pc[p] = "fchmod" /\ updateMode(buf[p].was)
  /\ p \in Root \/ ~inode[fd[p]].root
  /\ inode' = [inode EXCEPT ![fd[p]] = Mode(@)]
  /\ updated' = [updated EXCEPT ![p] = @ \union {"mode"}]
  /\ fd' = [fd EXCEPT ![p] = 0]
  /\ Goto(p, "judge")
  /\ UNCHANGED <<build, name, link, buf>>

NoFchmod(p) ==
  /\ pc[p] = "fchmod"
  /\ fd' = [fd EXCEPT ![p] = 0]
  /\ Goto(p, "judge")
  /\ UNCHANGED <<build, files, buf, updated>>

BugRefused(p) == updateMode(buf[p].was) /\ "mode" \notin updated[p] /\ ~buf[p].was.sticky

\* FAIL_IF_NOT_ROOT and FAIL_IF_NOMODE, when the sticky bit is wanted.
Refused(p) ==
  \/ updateOwner(buf[p].was) /\ "owner" \notin updated[p]
  \/ updateMode(buf[p].was) /\ "mode" \notin updated[p] /\ ~buf[p].was.sticky

Judge(p) ==
  /\ pc[p] = "judge"
  /\ Goto(p, IF build.FAIL_HARD /\ build.sticky /\ Refused(p) THEN "failed" ELSE "ok")
  /\ UNCHANGED <<build, files, buf, fd, updated>>

-----------------------------------------------------------------------------
(* The other users of the name.                                            *)

callers == <<build, pc, buf, fd, updated>>

OthersMake(i, d) == NewDirectory(i, d) /\ UNCHANGED callers

OthersLink ==
  /\ name = 0
  /\ name' = Elsewhere /\ link' = TRUE
  /\ UNCHANGED <<inode, callers>>

\* The owner of a directory changes its mode.
OwnerChmod(i, d) ==
  /\ inode[i].used /\ ~inode[i].root /\ ~d.root
  /\ inode' = [inode EXCEPT ![i] = d]
  /\ UNCHANGED <<name, link, callers>>

Remove ==
  /\ name # 0
  /\ name' = 0 /\ link' = FALSE
  /\ UNCHANGED <<inode, callers>>

-----------------------------------------------------------------------------
TransMkdir(p) ==
  \/ NotThere(p) \/ NotDirectory(p) \/ Examine(p)
  \/ Mkdir(p) \/ MkdirFails(p) \/ Chmod(p) \/ ChmodFails(p)
  \/ Open(p) \/ OpenFails(p) \/ FstatFails(p)
  \/ Fchown(p) \/ NoFchown(p) \/ Fchmod(p) \/ NoFchmod(p)
  \/ Judge(p)

Next ==
  \/ \E p \in Callers : TransMkdir(p)
  \/ \E i \in Inodes, d \in Directories : OthersMake(i, d) \/ OwnerChmod(i, d)
  \/ OthersLink
  \/ Remove

Spec == Init /\ [][Next]_vars

-----------------------------------------------------------------------------
(* Properties.                                                             *)

\* "Verify that we've opened the same directory as was checked above"
\* (Xtransutil.c:579): whatever the name leads to by now, a correction goes to
\* the directory that was examined, never to the target of a link or to a
\* successor.
CorrectsWhatItSaw ==
  [][\A p \in Callers, i \in Inodes :
       inode'[i] # inode[i] /\ (Fchown(p) \/ Fchmod(p)) => i = buf[p].ino]_vars

\* "when the 'sticky' (t) bit is requested it's not save if the directory has
\* non-root ownership or the sticky bit cannot be set and fail" (464): in a
\* build that fails hard, the directory trans_mkdir reports success for
\* belongs to root from then on.  It has the sticky bit too, except when it
\* belonged to another user, had the bit then, and the mode was not set again:
\* that user may have taken the bit away before fchown.
SuccessIsSafe ==
  \A p \in Callers : build.FAIL_HARD /\ build.sticky /\ pc[p] = "ok" =>
    LET d == inode[buf[p].ino]
    IN d.root /\ (buf[p].was.root \/ "mode" \in updated[p] => d.sticky)

=============================================================================
