------------------------- MODULE XtransMkdirProofs -------------------------
(***************************************************************************)
(* Proofs about XtransMkdir, for any number of callers and directories.    *)
(***************************************************************************)
EXTENDS XtransMkdir, TLAPS

Labels ==
  {"start", "mkdir", "chmod", "open", "fchown", "fchmod", "judge", "ok", "failed"}

Inode == [root : BOOLEAN, sticky : BOOLEAN, write : BOOLEAN, used : BOOLEAN]

Types ==
  /\ build \in [FAIL_HARD : BOOLEAN, HAS_FCHOWN : BOOLEAN, sticky : BOOLEAN]
  /\ name \in Inodes \union {0}
  /\ inode \in [Inodes -> Inode]
  /\ pc \in [Callers -> Labels]
  /\ buf \in [Callers -> [ino : Inodes \union {0}, was : Inode]]
  /\ fd \in [Callers -> Inodes \union {0}]
  /\ updated \in [Callers -> SUBSET {"owner", "mode"}]

Strict == build.FAIL_HARD /\ build.sticky

\* Root owns the directory that p has examined, from the start or since p's
\* fchown.
Owned(p) == buf[p].was.root \/ "owner" \in updated[p]

\* The directory p works on stays known, and nothing has been corrected before
\* fchown: the mode is set when the owner can no longer change it.
Place(p) ==
  /\ pc[p] \in {"chmod", "open", "fchown", "fchmod", "judge", "ok"} => buf[p].ino # 0
  /\ pc[p] \in {"fchown", "fchmod"} => fd[p] = buf[p].ino
  /\ pc[p] \in {"start", "mkdir", "chmod", "open", "fchown"} => updated[p] = {}
  /\ pc[p] \in {"start", "mkdir"} => buf[p].ino = 0

\* What root owns nobody else changes for the worse.
Kept(p) ==
  buf[p].ino # 0 =>
    /\ inode[buf[p].ino].used
    /\ Owned(p) => inode[buf[p].ino].root
    /\ build.sticky /\ Owned(p) /\ ("mode" \in updated[p] \/ (buf[p].was.root /\ buf[p].was.sticky))
         => inode[buf[p].ino].sticky

\* What a caller knows in a build that fails hard.
Knows(p) ==
  Strict =>
    /\ pc[p] = "mkdir" => p \in Root
    /\ pc[p] = "chmod" => buf[p].was.root /\ buf[p].was.sticky
    /\ pc[p] = "ok" => /\ Owned(p)
                       /\ buf[p].was.sticky \/ "mode" \in updated[p]

\* A name leads to something.
Named == inode[Elsewhere].used /\ (name # 0 => inode[name].used)

\* The part of the inductive invariant about caller p.
Part(p) == Place(p) /\ Kept(p) /\ Knows(p)

IInv == Types /\ Named /\ \A p \in Callers : Part(p)

-----------------------------------------------------------------------------
(* Types.                                                                  *)

\* A new directory is one.
LEMMA FreshType == ASSUME Types, NEW p PROVE Fresh(p) \in Inode
<1>1. (p \in Root) \in BOOLEAN
  OBVIOUS
<1>2. build.sticky \in BOOLEAN
  BY DEF Types
<1> QED BY <1>1, <1>2, Zenon DEF Fresh, Inode

\* Every step keeps the types of the variables.
LEMMA TypesStep == ASSUME Types, [Next]_vars PROVE Types'
<1> USE MkdirAssumption DEF Types, Labels
<1>1. ASSUME NEW p \in Callers, TransMkdir(p) PROVE Types'
  <2>1. CASE NotThere(p)
    BY <2>1 DEF NotThere, Goto, files
  <2>2. CASE NotDirectory(p)
    BY <2>2 DEF NotDirectory, Goto, files
  <2>3. CASE Examine(p)
    BY <2>3 DEF Examine, Goto, files, Inode
  <2>4. CASE Mkdir(p)
    <3>1. Fresh(p) \in Inode
      BY FreshType
    <3>2. PICK i \in Inodes :
            /\ NewDirectory(i, Fresh(p))
            /\ buf' = [buf EXCEPT ![p] = [ino |-> i, was |-> Fresh(p)]]
      BY <2>4 DEF Mkdir
    <3>3. (inode \in [Inodes -> Inode])' /\ (name \in Inodes \union {0})'
      BY <3>1, <3>2 DEF NewDirectory
    <3>4. (buf \in [Callers -> [ino : Inodes \union {0}, was : Inode]])'
      BY <3>1, <3>2
    <3> QED BY <2>4, <3>3, <3>4 DEF Mkdir, Goto
  <2>5. CASE MkdirFails(p)
    BY <2>5 DEF MkdirFails, Goto, files
  <2>6. CASE Chmod(p)
    BY <2>6 DEF Chmod, Goto, files, Mode, Inode
  <2>7. CASE ChmodFails(p)
    BY <2>7 DEF ChmodFails, Goto, files
  <2>8. CASE Open(p)
    BY <2>8 DEF Open, Goto, files
  <2>9. CASE OpenFails(p)
    BY <2>9 DEF OpenFails, Goto, files
  <2>10. CASE FstatFails(p)
    BY <2>10 DEF FstatFails, Goto, files
  <2>11. CASE Fchown(p)
    BY <2>11 DEF Fchown, Goto, files, Inode
  <2>12. CASE NoFchown(p)
    BY <2>12 DEF NoFchown, Goto, files
  <2>13. CASE Fchmod(p)
    BY <2>13 DEF Fchmod, Goto, files, Mode, Inode
  <2>14. CASE NoFchmod(p)
    BY <2>14 DEF NoFchmod, Goto, files
  <2>15. CASE Judge(p)
    BY <2>15 DEF Judge, Goto, files
  <2> QED BY <1>1, <2>1, <2>2, <2>3, <2>4, <2>5, <2>6, <2>7, <2>8, <2>9, <2>10, <2>11, <2>12, <2>13, <2>14, <2>15 DEF TransMkdir
<1>2. ASSUME NEW i \in Inodes, NEW d \in Directories, OthersMake(i, d) PROVE Types'
  BY <1>2 DEF OthersMake, NewDirectory, callers, Directories, Inode
<1>3. ASSUME NEW i \in Inodes, NEW d \in Directories, OwnerChmod(i, d) PROVE Types'
  BY <1>3 DEF OwnerChmod, callers, Directories, Inode
<1>4. CASE OthersLink
  BY <1>4 DEF OthersLink, callers
<1>5. CASE Remove
  BY <1>5 DEF Remove, callers
<1>6. CASE UNCHANGED vars
  BY <1>6 DEF vars
<1> QED BY <1>1, <1>2, <1>3, <1>4, <1>5, <1>6 DEF Next

-----------------------------------------------------------------------------
(* Directories only get better.                                            *)

\* From inode d to inode e: it stays, and keeps root's ownership, and then
\* the sticky bit.
Better(d, e) ==
  d.used => e.used /\ (d.root => e.root /\ (build.sticky /\ d.sticky => e.sticky))

\* Setting the mode that the callers ask for makes no directory worse.
LEMMA ModeBetter == ASSUME Types, NEW d \in Inode PROVE Better(d, Mode(d))
BY DEF Types, Inode, Better, Mode

\* No step of anyone makes a directory worse.
LEMMA AllBetter ==
  ASSUME Types, [Next]_vars
  PROVE  \A i \in Inodes : Better(inode[i], inode'[i])
<1> SUFFICES ASSUME NEW j \in Inodes PROVE Better(inode[j], inode'[j])
  OBVIOUS
<1>0. Better(inode[j], inode[j])
  BY DEF Better
<1>u. inode' = inode => Better(inode[j], inode'[j])
  BY <1>0
<1>n. ASSUME NEW i \in Inodes, NEW d, NewDirectory(i, d)
      PROVE  Better(inode[j], inode'[j])
  BY <1>0, <1>n DEF NewDirectory, Types, Better
<1>1. ASSUME NEW p \in Callers, TransMkdir(p) PROVE Better(inode[j], inode'[j])
  <2>1. CASE Mkdir(p)
    BY <1>n, <2>1 DEF Mkdir
  <2>2. CASE Chmod(p)
    <3>1. inode' = [inode EXCEPT ![name] = Mode(inode[name])]
      BY <2>2 DEF Chmod
    <3> QED BY <1>0, <3>1, ModeBetter DEF Types
  <2>3. CASE Fchown(p)
    BY <2>3 DEF Fchown, Types, Inode, Better
  <2>4. CASE Fchmod(p)
    <3>1. inode' = [inode EXCEPT ![fd[p]] = Mode(inode[fd[p]])]
      BY <2>4 DEF Fchmod
    <3> QED BY <1>0, <3>1, ModeBetter DEF Types
  <2>5. CASE inode' = inode
    BY <2>5, <1>u
  <2> QED BY <1>1, <2>1, <2>2, <2>3, <2>4, <2>5
          DEF TransMkdir, files, NotThere, NotDirectory, Examine, MkdirFails, ChmodFails,
              Open, OpenFails, FstatFails, NoFchown, NoFchmod, Judge
<1>2. ASSUME NEW i \in Inodes, NEW d \in Directories, OthersMake(i, d)
      PROVE  Better(inode[j], inode'[j])
  BY <1>2, <1>n DEF OthersMake
<1>3. ASSUME NEW i \in Inodes, NEW d \in Directories, OwnerChmod(i, d)
      PROVE  Better(inode[j], inode'[j])
  BY <1>3, <1>0 DEF OwnerChmod, Directories, Types, Inode, Better
<1> QED BY <1>1, <1>2, <1>3, <1>u DEF Next, OthersLink, Remove, vars

-----------------------------------------------------------------------------
(* The inductive invariant.                                                *)

\* Every step keeps the names in order.
LEMMA NamedStep == ASSUME Types, Types', Named, [Next]_vars PROVE Named'
<1> USE MkdirAssumption DEF Types
<1>1. \A i \in Inodes : inode[i].used => inode'[i].used
  BY AllBetter DEF Better
<1>2. name' = name => Named'
  BY <1>1 DEF Named
<1>3. ASSUME NEW i \in Inodes, NEW d, d.used, NewDirectory(i, d) PROVE Named'
  BY <1>1, <1>3 DEF Named, NewDirectory
<1>4. ASSUME NEW p \in Callers, TransMkdir(p) PROVE Named'
  <2>1. CASE Mkdir(p)
    BY <1>3, <2>1 DEF Mkdir, Fresh
  <2>2. CASE name' = name
    BY <1>2, <2>2
  <2> QED BY <1>4, <2>1, <2>2
          DEF TransMkdir, files, NotThere, NotDirectory, Examine, MkdirFails, Chmod,
              ChmodFails, Open, OpenFails, FstatFails, Fchown, NoFchown, Fchmod,
              NoFchmod, Judge
<1>5. ASSUME NEW i \in Inodes, NEW d \in Directories, OthersMake(i, d) PROVE Named'
  BY <1>3, <1>5 DEF OthersMake, Directories
<1>6. ASSUME NEW i \in Inodes, NEW d \in Directories, OwnerChmod(i, d) PROVE Named'
  BY <1>2, <1>6 DEF OwnerChmod
<1>7. CASE OthersLink
  BY <1>1, <1>7 DEF OthersLink, Named
<1>8. CASE Remove
  BY <1>1, <1>8 DEF Remove, Named
<1> QED BY <1>2, <1>4, <1>5, <1>6, <1>7, <1>8 DEF Next, vars

\* A step that does not concern q's own variables leaves its part alone.
LEMMA OthersStep ==
  ASSUME Types, Types', [Next]_vars, NEW q \in Callers, Part(q),
         build' = build, pc'[q] = pc[q], buf'[q] = buf[q], fd'[q] = fd[q],
         updated'[q] = updated[q]
  PROVE  Part(q)'
<1>1. Place(q)' /\ Knows(q)'
  BY DEF Part, Place, Knows, Strict, Owned
<1>2. buf[q].ino # 0 => Better(inode[buf[q].ino], inode'[buf[q].ino])
  BY AllBetter DEF Types
<1>3. Kept(q)'
  BY <1>2 DEF Part, Kept, Owned, Better
<1> QED BY <1>1, <1>3 DEF Part

\* A step of p's own call keeps p's part.
LEMMA OwnStep ==
  ASSUME Types, Types', Named, [Next]_vars, NEW p \in Callers, Part(p), TransMkdir(p)
  PROVE  Part(p)'
<1> USE DEF Types, Goto, Part
<1>s. buf'[p] = buf[p] /\ updated'[p] = updated[p] /\ build' = build => Kept(p)'
  <2>1. buf[p].ino # 0 => Better(inode[buf[p].ino], inode'[buf[p].ino])
    BY AllBetter
  <2> QED BY <2>1 DEF Kept, Owned, Better
<1>1. CASE NotThere(p)
  BY <1>1, <1>s DEF NotThere, Place, Knows, Strict, Owned
<1>2. CASE NotDirectory(p)
  BY <1>2, <1>s DEF NotDirectory, Place, Knows, Strict, Owned
<1>3. CASE Examine(p)
  <2>1. Place(p)'
    BY <1>3 DEF Examine, updateOwner, updateMode, Place
  <2>2. Kept(p)'
    <3>1. inode' = inode /\ name \in Inodes
      BY <1>3 DEF Examine, files
    <3>2. buf'[p] = [ino |-> name, was |-> inode[name]] /\ updated'[p] = {}
      BY <1>3 DEF Examine, Place
    <3> QED BY <1>3, <3>1, <3>2 DEF Named, Kept, Owned, Examine
  <2>3. Knows(p)'
    BY <1>3 DEF Examine, updateOwner, updateMode, Place, Knows, Strict, Owned
  <2> QED BY <2>1, <2>2, <2>3
<1>4. CASE Mkdir(p)
  <2>1. Place(p)'
    BY <1>4, MkdirAssumption DEF Mkdir, NewDirectory, Fresh, Place
  <2>2. Kept(p)'
    BY <1>4, AllBetter DEF Mkdir, NewDirectory, Fresh, Place, Kept, Owned, Better, files
  <2>3. Knows(p)'
    BY <1>4 DEF Mkdir, NewDirectory, Fresh, Place, Knows, Strict, Owned
  <2> QED BY <2>1, <2>2, <2>3
<1>5. CASE MkdirFails(p)
  BY <1>5, <1>s DEF MkdirFails, Place, Knows, Strict, Owned
<1>6. CASE Chmod(p)
  BY <1>6, <1>s DEF Chmod, Place, Knows, Strict, Owned
<1>7. CASE ChmodFails(p)
  BY <1>7, <1>s DEF ChmodFails, Place, Knows, Strict, Owned
<1>8. CASE Open(p)
  BY <1>8, <1>s DEF Open, Place, Knows, Strict, Owned
<1>9. CASE OpenFails(p)
  BY <1>9, <1>s DEF OpenFails, Place, Knows, Strict, Owned
<1>10. CASE FstatFails(p)
  BY <1>10, <1>s DEF FstatFails, Place, Knows, Strict, Owned
<1>11. CASE Fchown(p)
  <2>1. Place(p)'
    BY <1>11 DEF Fchown, updateOwner, Place
  <2>2. Kept(p)'
    BY <1>11, AllBetter DEF Fchown, updateOwner, Place, Kept, Owned, Better, files
  <2>3. Knows(p)'
    BY <1>11 DEF Fchown, updateOwner, Place, Knows, Strict, Owned
  <2> QED BY <2>1, <2>2, <2>3
<1>12. CASE NoFchown(p)
  BY <1>12, <1>s DEF NoFchown, Place, Knows, Strict, Owned
<1>13. CASE Fchmod(p)
  <2>1. Place(p)'
    BY <1>13 DEF Fchmod, updateMode, Place
  <2>2. Kept(p)'
    <3>1. buf'[p] = buf[p] /\ build' = build /\ fd[p] = buf[p].ino
      BY <1>13 DEF Fchmod, Place
    <3>2. "owner" \in updated'[p] <=> "owner" \in updated[p]
      BY <1>13 DEF Fchmod
    <3>3. inode' = [inode EXCEPT ![buf[p].ino] = Mode(inode[buf[p].ino])]
      BY <1>13, <3>1 DEF Fchmod
    <3>4. ASSUME buf[p].ino # 0
          PROVE  /\ inode'[buf[p].ino].sticky = build.sticky
                 /\ inode'[buf[p].ino].root = inode[buf[p].ino].root
                 /\ inode'[buf[p].ino].used = inode[buf[p].ino].used
      BY <3>3, <3>4 DEF Mode, Inode
    <3> QED BY <3>1, <3>2, <3>4 DEF Kept, Owned
  <2>3. Knows(p)'
    BY <1>13 DEF Fchmod, updateMode, Place, Knows, Strict, Owned
  <2> QED BY <2>1, <2>2, <2>3
<1>14. CASE NoFchmod(p)
  BY <1>14, <1>s DEF NoFchmod, Place, Knows, Strict, Owned
<1>15. CASE Judge(p)
  <2>1. Place(p)'
    BY <1>15 DEF Judge, Refused, updateOwner, updateMode, Place
  <2>2. Kept(p)'
    BY <1>15, AllBetter DEF Judge, Refused, updateOwner, updateMode, Place, Kept, Owned, Better, files
  <2>3. Knows(p)'
    BY <1>15 DEF Judge, Refused, updateOwner, updateMode, Place, Knows, Strict, Owned
  <2> QED BY <2>1, <2>2, <2>3
<1> QED BY <1>1, <1>2, <1>3, <1>4, <1>5, <1>6, <1>7,
           <1>8, <1>9, <1>10, <1>11, <1>12, <1>13, <1>14, <1>15 DEF TransMkdir

\* The three facts about the inductive invariant.
LEMMA IInvHolds == Spec => []IInv
<1>1. Init => IInv
  <2> SUFFICES ASSUME Init PROVE IInv
    OBVIOUS
  <2> USE MkdirAssumption DEF Init
  <2>1. Types
    BY DEF Types, Labels, Unused, Inode
  <2>2. Named
    BY DEF Named, Unused
  <2>3. ASSUME NEW p \in Callers PROVE Part(p)
    BY DEF Part, Place, Kept, Knows
  <2> QED BY <2>1, <2>2, <2>3 DEF IInv
<1>2. IInv /\ [Next]_vars => IInv'
  <2> SUFFICES ASSUME IInv, [Next]_vars PROVE IInv'
    OBVIOUS
  <2>1. Types /\ Types' /\ Named /\ Named'
    BY TypesStep, NamedStep DEF IInv
  <2>2. ASSUME NEW q \in Callers PROVE Part(q)'
    <3>1. CASE TransMkdir(q)
      BY <2>1, <3>1, OwnStep DEF IInv
    <3>2. ASSUME NEW p \in Callers, p # q, TransMkdir(p) PROVE Part(q)'
      <4>1. /\ build' = build /\ pc'[q] = pc[q] /\ buf'[q] = buf[q]
            /\ fd'[q] = fd[q] /\ updated'[q] = updated[q]
        BY <2>1, <3>2
           DEF Types, TransMkdir, Goto, NotThere, NotDirectory, Examine, Mkdir,
               MkdirFails, Chmod, ChmodFails, Open, OpenFails, FstatFails, Fchown,
               NoFchown, Fchmod, NoFchmod, Judge
      <4> QED BY <2>1, <4>1, OthersStep DEF IInv
    <3>3. CASE UNCHANGED callers
      BY <2>1, <3>3, OthersStep DEF IInv, callers
    <3> QED BY <3>1, <3>2, <3>3
            DEF Next, vars, callers, OthersMake, OwnerChmod, OthersLink, Remove
  <2> QED BY <2>1, <2>2 DEF IInv
<1> QED BY <1>1, <1>2, PTL DEF Spec

-----------------------------------------------------------------------------
(* The theorems.                                                           *)

\* In a build that fails hard, the directory trans_mkdir reports success for
\* belongs to root from then on, and has the sticky bit unless only its former
\* owner saw to that, whoever else uses the name meanwhile.
THEOREM SuccessIsSafeHolds == Spec => []SuccessIsSafe
<1>1. IInv => SuccessIsSafe
  <2> SUFFICES ASSUME IInv, NEW p \in Callers, Strict, pc[p] = "ok"
               PROVE  LET d == inode[buf[p].ino]
                      IN d.root /\ (buf[p].was.root \/ "mode" \in updated[p] => d.sticky)
    BY DEF SuccessIsSafe, Strict
  <2>1. buf[p].ino # 0 /\ Owned(p) /\ (buf[p].was.sticky \/ "mode" \in updated[p])
    BY DEF IInv, Part, Place, Knows
  <2>2. build.sticky
    BY DEF Strict
  <2> QED BY <2>1, <2>2 DEF IInv, Part, Kept
<1> QED BY <1>1, IInvHolds, PTL

\* fchown and fchmod go to the directory that lstat examined, whatever the
\* name leads to by then.
THEOREM CorrectsWhatItSawHolds == Spec => CorrectsWhatItSaw
<1>1. ASSUME IInv, [Next]_vars
      PROVE  [\A p \in Callers, i \in Inodes :
                inode'[i] # inode[i] /\ (Fchown(p) \/ Fchmod(p)) => i = buf[p].ino]_vars
  <2> SUFFICES ASSUME NEW p \in Callers, NEW i \in Inodes, inode'[i] # inode[i],
                      Fchown(p) \/ Fchmod(p)
               PROVE  i = buf[p].ino
    OBVIOUS
  <2>1. pc[p] \in {"fchown", "fchmod"}
    BY DEF Fchown, Fchmod
  <2>2. fd[p] = buf[p].ino
    BY <1>1, <2>1 DEF IInv, Part, Place
  <2>3. i # fd[p] => inode'[i] = inode[i]
    <3>1. CASE Fchown(p)
      BY <1>1, <3>1 DEF IInv, Types, Fchown
    <3>2. CASE Fchmod(p)
      BY <1>1, <3>2 DEF IInv, Types, Fchmod
    <3> QED BY <3>1, <3>2
  <2> QED BY <2>2, <2>3
<1> QED BY <1>1, IInvHolds, PTL DEF Spec, CorrectsWhatItSaw

=============================================================================
