----------------------------- MODULE FdChannel -----------------------------
(***************************************************************************)
(* What descriptor passing over one connection promises to its users: a    *)
(* FIFO queue of descriptors.  A descriptor goes in at the tail, comes out *)
(* at the head, and while both ends stay open none is lost, repeated or    *)
(* overtaken.  Closing an end may only cut off a suffix of the queue: what *)
(* the receiver has already been given is never revised.  When the library *)
(* runs out of memory descriptors may be lost as well, but those that are  *)
(* left still come out in order, and each of them once.                    *)
(***************************************************************************)
EXTENDS Naturals, Sequences

CONSTANT Files          \* open files whose descriptors are passed

VARIABLES queue,        \* accepted for passing, not yet handed out
          out,          \* handed out to the receiving program, in order
          failed        \* an allocation has failed

chanVars == <<queue, out, failed>>

ChanInit ==
  /\ queue = <<>>
  /\ out = <<>>
  /\ failed = FALSE

Put(f) ==
  /\ queue' = Append(queue, f)
  /\ UNCHANGED <<out, failed>>

Take ==
  /\ queue # <<>>
  /\ out' = Append(out, Head(queue))
  /\ queue' = Tail(queue)
  /\ UNCHANGED failed

Cut ==
  /\ \E n \in 0 .. Len(queue) : queue' = SubSeq(queue, 1, n)
  /\ UNCHANGED <<out, failed>>

\* The descriptors of q at the places at, in the same order.
Chosen(q, n, at) == [i \in 1 .. n |-> q[at[i]]]

Increasing(n, at) == \A i, j \in 1 .. n : i < j => at[i] < at[j]

\* An allocation fails: any of the descriptors on the way are lost.
Lose ==
  /\ failed' = TRUE
  /\ \E n \in 0 .. Len(queue) : \E at \in [1 .. n -> 1 .. Len(queue)] :
       Increasing(n, at) /\ queue' = Chosen(queue, n, at)
  /\ UNCHANGED out

ChanNext ==
  \/ \E f \in Files : Put(f)
  \/ Take
  \/ Cut
  \/ Lose

ChanSpec == ChanInit /\ [][ChanNext]_chanVars
=============================================================================
