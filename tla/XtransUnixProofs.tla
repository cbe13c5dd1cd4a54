--------------------------- MODULE XtransUnixProofs ---------------------------
(***************************************************************************)
(* The safety properties of XtransUnix, for addresses, host names and      *)
(* ports of any length: what ParseAddress makes of an address, which       *)
(* addresses lead to a UNIX socket, and which server is at its other end.  *)
(***************************************************************************)
EXTENDS XtransUnix, SequenceTheorems, WellFoundedInduction, TLAPS

-----------------------------------------------------------------------------
(* Positions in a sequence.                                                *)

\* A set of natural numbers has a least element.
LEMMA MinIs ==
  ASSUME NEW S \in SUBSET Nat, S # {}
  PROVE  Min(S) \in S /\ \A y \in S : Min(S) <= y
<1>1. PICK x \in S : \A y \in S : ~(<<y, x>> \in OpToRel(<, Nat))
  BY NatLessThanWellFounded, WFMin
<1>2. ASSUME NEW y \in S PROVE x <= y
  <2>1. x \in Nat /\ y \in Nat /\ <<y, x>> \in Nat \X Nat
    OBVIOUS
  <2>2. ~(y < x)
    BY <1>1, <2>1 DEF OpToRel
  <2>3. QED
    BY <2>1, <2>2
<1>3. QED
  BY <1>2 DEF Min

\* One of positions has a greatest.
LEMMA MaxIs ==
  ASSUME NEW n \in Nat, NEW S \in SUBSET (1 .. n), S # {}
  PROVE  Max(S) \in S /\ \A y \in S : y <= Max(S)
<1> DEFINE T == {n - x : x \in S}
<1>0. \A x \in S : x \in Nat /\ n - x \in Nat
  OBVIOUS
<1>1. T \in SUBSET Nat /\ T # {}
  BY <1>0
<1>2. Min(T) \in T /\ \A y \in T : Min(T) <= y
  BY <1>1, MinIs
<1>3. PICK x \in S : Min(T) = n - x
  BY <1>2
<1>4. ASSUME NEW y \in S PROVE y <= x
  <2>1. n - x <= n - y
    BY <1>2, <1>3
  <2>2. QED
    BY <1>0, <2>1
<1>5. QED
  BY <1>4 DEF Max

\* strchr gives the first position of a token, or 0.
LEMMA FirstIn ==
  ASSUME NEW S, NEW s \in Seq(S), NEW ch
  PROVE  /\ strchr(s, ch) \in 0 .. Len(s)
         /\ strchr(s, ch) = 0 => \A j \in 1 .. Len(s) : s[j] # ch
         /\ strchr(s, ch) # 0 =>
              /\ strchr(s, ch) \in 1 .. Len(s) /\ s[strchr(s, ch)] = ch
              /\ \A j \in 1 .. strchr(s, ch) - 1 : s[j] # ch
<1> DEFINE I == {j \in 1 .. Len(s) : s[j] = ch}
<1>1. strchr(s, ch) = IF I # {} THEN Min(I) ELSE 0
  BY DEF strchr, SelectInSeq
<1>2. Len(s) \in Nat /\ I \in SUBSET Nat
  OBVIOUS
<1>3. CASE I = {}
  BY <1>1, <1>2, <1>3
<1>4. CASE I # {}
  <2>1. Min(I) \in I /\ \A y \in I : Min(I) <= y
    BY <1>2, <1>4, MinIs
  <2>2. strchr(s, ch) = Min(I)
    BY <1>1, <1>4
  <2> DEFINE f == Min(I)
  <2>3. f \in 1 .. Len(s) /\ s[f] = ch /\ \A y \in I : f <= y
    BY <2>1
  <2> HIDE DEF f
  <2>4. \A j \in 1 .. f - 1 : s[j] # ch
    BY <1>2, <2>3
  <2>5. QED
    BY <1>2, <2>2, <2>3, <2>4 DEF f
<1>5. QED
  BY <1>3, <1>4

\* strrchr gives the last one.
LEMMA LastIn ==
  ASSUME NEW S, NEW s \in Seq(S), NEW ch
  PROVE  /\ strrchr(s, ch) \in 0 .. Len(s)
         /\ strrchr(s, ch) = 0 => \A j \in 1 .. Len(s) : s[j] # ch
         /\ strrchr(s, ch) # 0 =>
              /\ strrchr(s, ch) \in 1 .. Len(s) /\ s[strrchr(s, ch)] = ch
              /\ \A j \in strrchr(s, ch) + 1 .. Len(s) : s[j] # ch
<1> DEFINE I == {j \in 1 .. Len(s) : s[j] = ch}
<1>1. strrchr(s, ch) = IF I # {} THEN Max(I) ELSE 0
  BY DEF strrchr, SelectLastInSeq
<1>2. Len(s) \in Nat /\ I \in SUBSET (1 .. Len(s))
  OBVIOUS
<1>3. CASE I = {}
  BY <1>1, <1>2, <1>3
<1>4. CASE I # {}
  <2>1. Max(I) \in I /\ \A y \in I : y <= Max(I)
    BY <1>2, <1>4, MaxIs
  <2>2. strrchr(s, ch) = Max(I)
    BY <1>1, <1>4
  <2> DEFINE f == Max(I)
  <2>3. f \in 1 .. Len(s) /\ s[f] = ch /\ \A y \in I : y <= f
    BY <2>1
  <2> HIDE DEF f
  <2>4. \A j \in f + 1 .. Len(s) : s[j] # ch
    BY <1>2, <2>3
  <2>5. QED
    BY <1>2, <2>2, <2>3, <2>4 DEF f
<1>5. QED
  BY <1>3, <1>4

\* There is only one first position.
LEMMA FirstIs ==
  ASSUME NEW S, NEW s \in Seq(S), NEW ch,
         NEW k \in 1 .. Len(s), s[k] = ch, \A j \in 1 .. k - 1 : s[j] # ch
  PROVE  strchr(s, ch) = k
<1> DEFINE f == strchr(s, ch)
<1>1. /\ f \in 0 .. Len(s)
      /\ f = 0 => \A j \in 1 .. Len(s) : s[j] # ch
      /\ f # 0 => s[f] = ch /\ \A j \in 1 .. f - 1 : s[j] # ch
  BY FirstIn
<1> HIDE DEF f
<1>2. f = k
  BY <1>1
<1>3. QED
  BY <1>2 DEF f

\* And only one last.
LEMMA LastIs ==
  ASSUME NEW S, NEW s \in Seq(S), NEW ch,
         NEW k \in 1 .. Len(s), s[k] = ch, \A j \in k + 1 .. Len(s) : s[j] # ch
  PROVE  strrchr(s, ch) = k
<1> DEFINE f == strrchr(s, ch)
<1>1. /\ f \in 0 .. Len(s)
      /\ f = 0 => \A j \in 1 .. Len(s) : s[j] # ch
      /\ f # 0 => s[f] = ch /\ \A j \in f + 1 .. Len(s) : s[j] # ch
  BY LastIn
<1> HIDE DEF f
<1>2. f = k
  BY <1>1
<1>3. QED
  BY <1>2 DEF f

\* A part of a sequence, element by element.
LEMMA PartIs ==
  ASSUME NEW S, NEW s \in Seq(S), NEW a \in Nat \ {0}, NEW b \in 0 .. Len(s)
  PROVE  /\ SubSeq(s, a, b) \in Seq(S)
         /\ Len(SubSeq(s, a, b)) = IF a <= b THEN b - a + 1 ELSE 0
         /\ \A j \in 1 .. Len(SubSeq(s, a, b)) :
              SubSeq(s, a, b)[j] = s[a + j - 1]
<1>1. \A j \in a .. b : s[j] \in S
  OBVIOUS
<1>2. QED
  BY <1>1, SubSeqProperties

\* A part of a part is a part.
LEMMA PartOfPart ==
  ASSUME NEW S, NEW s \in Seq(S),
         NEW a \in 1 .. Len(s) + 1, NEW b \in 0 .. Len(s),
         NEW c \in Nat \ {0}, NEW d \in 0 .. Len(SubSeq(s, a, b))
  PROVE  SubSeq(SubSeq(s, a, b), c, d) = SubSeq(s, a + c - 1, a + d - 1)
<1> DEFINE t == SubSeq(s, a, b)
           u == SubSeq(t, c, d)
           v == SubSeq(s, a + c - 1, a + d - 1)
<1>0. Len(s) \in Nat
  OBVIOUS
<1>1. /\ t \in Seq(S) /\ Len(t) = IF a <= b THEN b - a + 1 ELSE 0
      /\ \A j \in 1 .. Len(t) : t[j] = s[a + j - 1]
  <2>1. a \in Nat \ {0}
    BY <1>0
  <2>2. QED
    BY <2>1, PartIs
<1>2. /\ u \in Seq(S) /\ Len(u) = IF c <= d THEN d - c + 1 ELSE 0
      /\ \A j \in 1 .. Len(u) : u[j] = t[c + j - 1]
  BY <1>1, PartIs
<1>3. a + c - 1 \in Nat \ {0} /\ a + d - 1 \in 0 .. Len(s)
  BY <1>0, <1>1
<1>4. /\ v \in Seq(S)
      /\ Len(v) = IF a + c - 1 <= a + d - 1 THEN (a + d - 1) - (a + c - 1) + 1
                  ELSE 0
      /\ \A j \in 1 .. Len(v) : v[j] = s[(a + c - 1) + j - 1]
  BY <1>3, PartIs
<1>5. d \in Nat /\ c \in Nat /\ a \in Nat
  BY <1>0, <1>1
<1> HIDE DEF t, u, v
<1>6. Len(u) = Len(v)
  BY <1>2, <1>4, <1>5
<1>7. ASSUME NEW j \in 1 .. Len(u) PROVE u[j] = v[j]
  <2>1. j \in 1 .. d - c + 1 /\ c <= d
    BY <1>2, <1>5
  <2>2. c + j - 1 \in 1 .. Len(t)
    BY <1>1, <1>5, <2>1 DEF t
  <2>3. u[j] = s[a + (c + j - 1) - 1]
    BY <1>1, <1>2, <2>2
  <2>4. v[j] = s[(a + c - 1) + j - 1]
    BY <1>4, <1>6
  <2>5. a + (c + j - 1) - 1 = (a + c - 1) + j - 1
    BY <1>5, <2>1
  <2>6. QED
    BY <2>3, <2>4, <2>5
<1>8. u = v
  BY <1>2, <1>4, <1>6, <1>7, SeqEqual
<1>9. QED
  BY <1>8 DEF t, u, v

\* Three parts in a row, element by element.
LEMMA JoinIs ==
  ASSUME NEW S, NEW p \in Seq(S), NEW q \in Seq(S), NEW r \in Seq(S)
  PROVE  /\ p \o q \o r \in Seq(S)
         /\ Len(p \o q \o r) = Len(p) + Len(q) + Len(r)
         /\ \A j \in 1 .. Len(p) : (p \o q \o r)[j] = p[j]
         /\ \A j \in 1 .. Len(q) : (p \o q \o r)[Len(p) + j] = q[j]
         /\ \A j \in 1 .. Len(r) : (p \o q \o r)[Len(p) + Len(q) + j] = r[j]
<1>1. /\ p \o q \in Seq(S) /\ Len(p \o q) = Len(p) + Len(q)
      /\ \A j \in 1 .. Len(p) + Len(q) :
           (p \o q)[j] = IF j <= Len(p) THEN p[j] ELSE q[j - Len(p)]
  BY ConcatProperties
<1>2. /\ p \o q \o r \in Seq(S)
      /\ Len(p \o q \o r) = Len(p \o q) + Len(r)
      /\ \A j \in 1 .. Len(p \o q) + Len(r) :
           (p \o q \o r)[j] = IF j <= Len(p \o q) THEN (p \o q)[j]
                              ELSE r[j - Len(p \o q)]
  BY <1>1, ConcatProperties
<1>3. Len(p) \in Nat /\ Len(q) \in Nat /\ Len(r) \in Nat
  OBVIOUS
<1>4. ASSUME NEW j \in 1 .. Len(p) PROVE (p \o q \o r)[j] = p[j]
  BY <1>1, <1>2, <1>3
<1>5. ASSUME NEW j \in 1 .. Len(q) PROVE (p \o q \o r)[Len(p) + j] = q[j]
  BY <1>1, <1>2, <1>3
<1>6. ASSUME NEW j \in 1 .. Len(r)
      PROVE  (p \o q \o r)[Len(p) + Len(q) + j] = r[j]
  BY <1>1, <1>2, <1>3
<1>7. QED
  BY <1>1, <1>2, <1>4, <1>5, <1>6

-----------------------------------------------------------------------------
(* What ParseAddress does.                                                 *)

\* Reading of any sequence: the '/' at k, the ':' at m, the end of the port
\* at n.
Shape(f, s, k, m, n) ==
  /\ k \in 0 .. Len(s) /\ m \in 1 .. Len(s) /\ n \in 1 .. Len(s)
  /\ k < m /\ m <= n
  /\ k = 0 => \A j \in 1 .. Len(s) : s[j] # "/"
  /\ k # 0 => s[k] = "/" /\ \A j \in 1 .. k - 1 : s[j] # "/"
  /\ s[m] = ":" /\ \A j \in m + 1 .. Len(s) : s[j] # ":"
  /\ f => /\ n = Len(s) \/ s[n + 1] = "/"
          /\ \A j \in m + 1 .. n : s[j] # "/"
  /\ ~f => n = Len(s)

\* No ':' is in the port, and where fonts are concerned no '/'.
PortBare(f, p) ==
  /\ \A j \in 1 .. Len(p) : p[j] # ":"
  /\ f => \A j \in 1 .. Len(p) : p[j] # "/"

ProtocolOf(s, k, m) ==
  IF k > 1 THEN SubSeq(s, 1, k - 1)
  ELSE IF m = k + 1 \/ (k = 1 /\ s[2] = ":") THEN <<"local">>
  ELSE <<"tcp">>

\* The first '/' and the last ':' after it are the ones of a reading, and
\* the pieces between them are parts of the address.
LEMMA ShapeAt ==
  ASSUME NEW S, NEW s \in Seq(S), NEW f, NEW k, NEW m, NEW n,
         Shape(f, s, k, m, n)
  PROVE  /\ strchr(s, "/") = k
         /\ After(s, k) \in Seq(S)
         /\ strrchr(After(s, k), ":") = m - k
         /\ Before(After(s, k), m - k) = SubSeq(s, k + 1, m - 1)
         /\ After(After(s, k), m - k) = SubSeq(s, m + 1, Len(s))
<1> USE DEF Shape
<1>0. Len(s) \in Nat /\ k \in Nat /\ m \in Nat
  OBVIOUS
<1>1. strchr(s, "/") = k
  <2>1. CASE k = 0
    <3>1. \A j \in 1 .. Len(s) : s[j] # "/"
      BY <2>1
    <3>2. QED
      BY <2>1, <3>1, FirstIn
  <2>2. CASE k # 0
    <3>1. k \in 1 .. Len(s) /\ s[k] = "/" /\ \A j \in 1 .. k - 1 : s[j] # "/"
      BY <1>0, <2>2
    <3>2. QED
      BY <3>1, FirstIs
  <2>3. QED
    BY <2>1, <2>2
<1>2. /\ After(s, k) \in Seq(S) /\ Len(After(s, k)) = Len(s) - k
      /\ \A j \in 1 .. Len(After(s, k)) : After(s, k)[j] = s[k + j]
  <2>1. k + 1 \in Nat \ {0} /\ Len(s) \in 0 .. Len(s) /\ k < Len(s)
    BY <1>0
  <2>2. /\ After(s, k) \in Seq(S) /\ Len(After(s, k)) = Len(s) - (k + 1) + 1
        /\ \A j \in 1 .. Len(After(s, k)) : After(s, k)[j] = s[k + 1 + j - 1]
    BY <2>1, PartIs DEF After
  <2>3. \A j \in 1 .. Len(After(s, k)) : k + 1 + j - 1 = k + j
    BY <1>0
  <2>4. QED
    BY <1>0, <2>2, <2>3
<1>3. strrchr(After(s, k), ":") = m - k
  <2> DEFINE t == After(s, k)
  <2>1. m - k \in 1 .. Len(t)
    BY <1>0, <1>2
  <2>2. t[m - k] = ":"
    BY <1>0, <1>2, <2>1
  <2>3. ASSUME NEW j \in m - k + 1 .. Len(t) PROVE t[j] # ":"
    <3>1. j \in 1 .. Len(t) /\ k + j \in m + 1 .. Len(s)
      BY <1>0, <1>2
    <3>2. QED
      BY <1>2, <3>1
  <2> HIDE DEF t
  <2>4. t \in Seq(S)
    BY <1>2 DEF t
  <2>5. strrchr(t, ":") = m - k
    BY <2>1, <2>2, <2>3, <2>4, LastIs
  <2>6. QED
    BY <2>5 DEF t
<1>4. /\ k + 1 \in 1 .. Len(s) + 1 /\ Len(s) \in 0 .. Len(s)
      /\ m - k - 1 \in 0 .. Len(After(s, k)) /\ m - k + 1 \in Nat \ {0}
      /\ Len(After(s, k)) \in 0 .. Len(After(s, k)) /\ 1 \in Nat \ {0}
  BY <1>0, <1>2
<1>5. Before(After(s, k), m - k) =
        SubSeq(s, k + 1 + 1 - 1, k + 1 + (m - k - 1) - 1)
  BY <1>4, PartOfPart DEF Before, After
<1>6. After(After(s, k), m - k) =
        SubSeq(s, k + 1 + (m - k + 1) - 1, k + 1 + Len(After(s, k)) - 1)
  <2> DEFINE t == After(s, k)
  <2>1. t = SubSeq(s, k + 1, Len(s)) /\ Len(t) \in 0 .. Len(t)
    BY <1>4 DEF After
  <2> HIDE DEF t
  <2>2. After(t, m - k) = SubSeq(t, m - k + 1, Len(t))
    BY DEF After
  <2>3. \A d \in 0 .. Len(SubSeq(s, k + 1, Len(s))) :
          SubSeq(SubSeq(s, k + 1, Len(s)), m - k + 1, d) =
            SubSeq(s, k + 1 + (m - k + 1) - 1, k + 1 + d - 1)
    BY <1>4, PartOfPart
  <2>4. QED
    BY <2>1, <2>2, <2>3 DEF t
<1>7. /\ k + 1 + 1 - 1 = k + 1 /\ k + 1 + (m - k - 1) - 1 = m - 1
      /\ k + 1 + (m - k + 1) - 1 = m + 1
      /\ k + 1 + Len(After(s, k)) - 1 = Len(s)
  BY <1>0, <1>2
<1>8. QED
  BY <1>1, <1>2, <1>3, <1>5, <1>6, <1>7

\* The catalogue is what follows the first '/' of the port.
LEMMA PortIs ==
  ASSUME NEW S, NEW s \in Seq(S), NEW f, NEW k, NEW m, NEW n,
         Shape(f, s, k, m, n)
  PROVE  PortPart(f, SubSeq(s, m + 1, Len(s))) = SubSeq(s, m + 1, n)
<1> DEFINE t == SubSeq(s, m + 1, Len(s))
<1>0. /\ Len(s) \in Nat /\ m \in 1 .. Len(s) /\ n \in m .. Len(s)
      /\ m \in Nat /\ n \in Nat
  BY DEF Shape
<1>1. /\ t \in Seq(S) /\ Len(t) = Len(s) - m
      /\ \A j \in 1 .. Len(t) : t[j] = s[m + j]
  <2>1. m + 1 \in Nat \ {0} /\ Len(s) \in 0 .. Len(s)
    BY <1>0
  <2>2. /\ t \in Seq(S)
        /\ Len(t) = IF m + 1 <= Len(s) THEN Len(s) - (m + 1) + 1 ELSE 0
        /\ \A j \in 1 .. Len(t) : t[j] = s[m + 1 + j - 1]
    BY <2>1, PartIs
  <2>3. \A j \in 1 .. Len(t) : m + 1 + j - 1 = m + j
    BY <1>0
  <2>4. QED
    BY <1>0, <2>2, <2>3
<1>2. CASE f /\ n # Len(s)
  <2>1. n - m + 1 \in 1 .. Len(t) /\ m + (n - m + 1) = n + 1
    BY <1>0, <1>1, <1>2
  <2>2. t[n - m + 1] = "/"
    BY <1>1, <1>2, <2>1 DEF Shape
  <2>3. ASSUME NEW j \in 1 .. (n - m + 1) - 1 PROVE t[j] # "/"
    <3>1. j \in 1 .. Len(t) /\ m + j \in m + 1 .. n
      BY <1>0, <1>1
    <3>2. QED
      BY <1>1, <1>2, <3>1 DEF Shape
  <2> HIDE DEF t
  <2>4. strchr(t, "/") = n - m + 1
    BY <1>1, <2>1, <2>2, <2>3, FirstIs
  <2>5. PortPart(f, t) = SubSeq(t, 1, n - m)
    <3>1. strchr(t, "/") # 0 /\ strchr(t, "/") - 1 = n - m
      BY <1>0, <2>4
    <3>2. PortPart(f, t) = SubSeq(t, 1, strchr(t, "/") - 1)
      BY <1>2, <3>1, Zenon DEF PortPart, Before
    <3>3. QED
      BY <3>1, <3>2
  <2>6. SubSeq(t, 1, n - m) = SubSeq(s, m + 1 + 1 - 1, m + 1 + (n - m) - 1)
    <3>1. /\ m + 1 \in 1 .. Len(s) + 1 /\ Len(s) \in 0 .. Len(s)
          /\ 1 \in Nat \ {0} /\ n - m \in 0 .. Len(t)
      BY <1>0, <1>1
    <3>2. QED
      BY <3>1, PartOfPart DEF t
  <2>7. m + 1 + 1 - 1 = m + 1 /\ m + 1 + (n - m) - 1 = n
    BY <1>0
  <2>8. QED
    BY <2>5, <2>6, <2>7 DEF t
<1>3. CASE f /\ n = Len(s)
  <2>1. ASSUME NEW j \in 1 .. Len(t) PROVE t[j] # "/"
    <3>1. m + j \in m + 1 .. n
      BY <1>0, <1>1, <1>3
    <3>2. QED
      BY <1>1, <1>3, <3>1 DEF Shape
  <2> HIDE DEF t
  <2>2. strchr(t, "/") = 0
    BY <1>1, <2>1, FirstIn
  <2>3. QED
    BY <1>3, <2>2 DEF PortPart, t
<1>4. CASE ~f
  BY <1>4 DEF PortPart, Shape
<1>5. QED
  BY <1>2, <1>3, <1>4

\* The protocol that is written, or the one assumed.
LEMMA SplitIs ==
  ASSUME NEW S, NEW s \in Seq(S), NEW f, NEW k, NEW m, NEW n,
         Shape(f, s, k, m, n)
  PROVE  /\ SplitProtocol(s).rest = After(s, k)
         /\ SplitProtocol(s).protocol = ProtocolOf(s, k, m)
<1>0. Len(s) \in Nat /\ k \in 0 .. Len(s) /\ m \in 1 .. Len(s) /\ k < m
  BY DEF Shape
<1>1. strchr(s, "/") = k /\ strrchr(After(s, k), ":") = m - k
  BY ShapeAt
<1>2. CASE k = 0
  <2>1. After(s, 0) = s
    <3>1. 0 + 1 = 1
      OBVIOUS
    <3>2. QED
      BY <3>1, SubSeqFull DEF After
  <2>2. strrchr(s, ":") = m
    BY <1>0, <1>1, <1>2, <2>1
  <2>3. QED
    BY <1>0, <1>1, <1>2, <2>1, <2>2 DEF SplitProtocol, ProtocolOf
<1>3. CASE k = 1
  <2>1. After(s, k) # <<>> /\ Head(After(s, k)) = s[2]
    <3>1. After(s, k) = SubSeq(s, 2, Len(s))
      BY <1>3 DEF After
    <3>2. 2 \in 1 .. Len(s) /\ Len(s) \in 2 .. Len(s)
      BY <1>0, <1>3
    <3>3. Head(SubSeq(s, 2, Len(s))) = s[2]
      BY <3>2, HeadTailOfSubSeq
    <3>4. Len(SubSeq(s, 2, Len(s))) = Len(s) - 2 + 1
      BY <1>0, <3>2, PartIs
    <3>5. QED
      BY <3>1, <3>2, <3>3, <3>4
  <2>2. m = 2 => s[2] = ":"
    BY DEF Shape
  <2>3. QED
    BY <1>0, <1>1, <1>3, <2>1, <2>2 DEF SplitProtocol, ProtocolOf
<1>4. CASE k > 1
  BY <1>0, <1>1, <1>4 DEF SplitProtocol, ProtocolOf, Before
<1>5. QED
  BY <1>0, <1>2, <1>3, <1>4

\* ParseAddress returns the pieces of the reading.
LEMMA ShapeParses ==
  ASSUME NEW S, NEW s \in Seq(S), NEW f, NEW k, NEW m, NEW n,
         Shape(f, s, k, m, n)
  PROVE  ParseAddress(f, s) =
           [protocol |->
              HostPart(ProtocolOf(s, k, m), SubSeq(s, k + 1, m - 1)).protocol,
            host |->
              HostPart(ProtocolOf(s, k, m), SubSeq(s, k + 1, m - 1)).host,
            port |-> SubSeq(s, m + 1, n)]
<1>1. m - k # 0
  BY DEF Shape
<1>2. /\ SplitProtocol(s).rest = After(s, k)
      /\ SplitProtocol(s).protocol = ProtocolOf(s, k, m)
  BY SplitIs
<1>3. /\ strrchr(After(s, k), ":") = m - k
      /\ Before(After(s, k), m - k) = SubSeq(s, k + 1, m - 1)
      /\ After(After(s, k), m - k) = SubSeq(s, m + 1, Len(s))
  BY ShapeAt
<1>4. PortPart(f, SubSeq(s, m + 1, Len(s))) = SubSeq(s, m + 1, n)
  BY PortIs
<1>5. QED
  BY <1>1, <1>2, <1>3, <1>4 DEF ParseAddress, Colon

\* Whatever parses has a reading.
LEMMA HasShape ==
  ASSUME NEW S, NEW s \in Seq(S), NEW f,
         ParseAddress(f, s) # Failed
  PROVE  \E k \in 0 .. Len(s), m, n \in 1 .. Len(s) : Shape(f, s, k, m, n)
<1> DEFINE k == strchr(s, "/")
           t == After(s, k)
           c == strrchr(t, ":")
           m == k + c
           v == SubSeq(s, m + 1, Len(s))
           e == strchr(v, "/")
           n == IF f /\ e # 0 THEN m + e - 1 ELSE Len(s)
<1>0. Len(s) \in Nat
  OBVIOUS
<1>1. /\ k \in 0 .. Len(s)
      /\ k = 0 => \A j \in 1 .. Len(s) : s[j] # "/"
      /\ k # 0 => s[k] = "/" /\ \A j \in 1 .. k - 1 : s[j] # "/"
  BY FirstIn
<1>2. SplitProtocol(s).rest = t
  <2>1. 0 + 1 = 1 /\ SubSeq(s, 1, Len(s)) = s
    BY SubSeqFull
  <2>2. QED
    BY <2>1 DEF SplitProtocol, After
<1>3. c # 0
  BY <1>2 DEF ParseAddress, Colon
<1> HIDE DEF k
<1>4. /\ t \in Seq(S) /\ Len(t) = IF k + 1 <= Len(s) THEN Len(s) - k ELSE 0
      /\ \A j \in 1 .. Len(t) : t[j] = s[k + j]
  <2>1. k + 1 \in Nat \ {0} /\ Len(s) \in 0 .. Len(s)
    BY <1>0, <1>1
  <2>2. /\ t \in Seq(S)
        /\ Len(t) = IF k + 1 <= Len(s) THEN Len(s) - (k + 1) + 1 ELSE 0
        /\ \A j \in 1 .. Len(t) : t[j] = s[k + 1 + j - 1]
    BY <2>1, PartIs DEF After
  <2>3. \A j \in 1 .. Len(t) : k + 1 + j - 1 = k + j
    BY <1>0, <1>1
  <2>4. QED
    BY <1>0, <1>1, <2>2, <2>3
<1> HIDE DEF t
<1>5. /\ c \in 1 .. Len(t) /\ t[c] = ":"
      /\ \A j \in c + 1 .. Len(t) : t[j] # ":"
  BY <1>3, <1>4, LastIn
<1> HIDE DEF c
<1>6. m \in 1 .. Len(s) /\ k < m /\ s[m] = ":"
  BY <1>0, <1>1, <1>4, <1>5
<1>7. ASSUME NEW j \in m + 1 .. Len(s) PROVE s[j] # ":"
  <2>1. j - k \in c + 1 .. Len(t) /\ k + (j - k) = j /\ j - k \in 1 .. Len(t)
    BY <1>0, <1>1, <1>4, <1>5
  <2>2. QED
    BY <1>4, <1>5, <2>1
<1> HIDE DEF m
<1>8. /\ v \in Seq(S)
      /\ Len(v) = Len(s) - m
      /\ \A j \in 1 .. Len(v) : v[j] = s[m + j]
  <2>1. m + 1 \in Nat \ {0} /\ Len(s) \in 0 .. Len(s)
    BY <1>0, <1>6
  <2>2. /\ v \in Seq(S)
        /\ Len(v) = IF m + 1 <= Len(s) THEN Len(s) - (m + 1) + 1 ELSE 0
        /\ \A j \in 1 .. Len(v) : v[j] = s[m + 1 + j - 1]
    BY <2>1, PartIs
  <2>3. \A j \in 1 .. Len(v) : m + 1 + j - 1 = m + j
    BY <1>0, <1>6
  <2>4. QED
    BY <1>0, <1>6, <2>2, <2>3
<1> HIDE DEF v
<1>9. /\ e \in 0 .. Len(v)
      /\ e = 0 => \A j \in 1 .. Len(v) : v[j] # "/"
      /\ e # 0 => v[e] = "/" /\ \A j \in 1 .. e - 1 : v[j] # "/"
  BY <1>8, FirstIn
<1> HIDE DEF e
<1>10. n \in 1 .. Len(s) /\ m <= n
  BY <1>0, <1>6, <1>8, <1>9
<1>11. f => n = Len(s) \/ s[n + 1] = "/"
  <2>1. e # 0 => s[m + e] = "/" /\ m + e - 1 + 1 = m + e
    BY <1>0, <1>6, <1>8, <1>9
  <2>2. QED
    BY <2>1
<1>12. ASSUME f, NEW j \in m + 1 .. n PROVE s[j] # "/"
  <2>1. /\ j - m \in 1 .. Len(v) /\ m + (j - m) = j
        /\ e # 0 => j - m \in 1 .. e - 1
    BY <1>0, <1>6, <1>8, <1>9, <1>12
  <2>2. QED
    BY <1>8, <1>9, <2>1
<1>13. ~f => n = Len(s)
  OBVIOUS
<1> HIDE DEF n
<1>14. Shape(f, s, k, m, n)
  BY <1>1, <1>6, <1>7, <1>10, <1>11, <1>12, <1>13 DEF Shape
<1>15. QED
  BY <1>1, <1>6, <1>10, <1>14

\* Brackets tells a text that inet_pton knows between '[' and ']'.
LEMMA BracketsIs ==
  ASSUME NEW h \in Seq(Tokens)
  PROVE  /\ Brackets(h) =>
              /\ SubSeq(h, 2, Len(h) - 1) \in IPv6Texts
              /\ h = <<"[">> \o SubSeq(h, 2, Len(h) - 1) \o <<"]">>
         /\ \A text \in IPv6Texts : h = <<"[">> \o text \o <<"]">> =>
              Brackets(h) /\ SubSeq(h, 2, Len(h) - 1) = text
<1>0. Len(h) \in Nat
  OBVIOUS
<1>1. /\ <<"[">> \in Seq(Tokens) /\ <<"]">> \in Seq(Tokens)
      /\ Len(<<"[">>) = 1 /\ Len(<<"]">>) = 1
      /\ <<"[">>[1] = "[" /\ <<"]">>[1] = "]"
  BY DEF Tokens
<1>2. ASSUME NEW t \in Seq(Tokens)
      PROVE  LET u == <<"[">> \o t \o <<"]">>
             IN /\ u \in Seq(Tokens) /\ Len(u) = Len(t) + 2
                /\ u[1] = "[" /\ u[Len(t) + 2] = "]"
                /\ \A j \in 1 .. Len(t) : u[j + 1] = t[j]
  <2> DEFINE u == <<"[">> \o t \o <<"]">>
  <2>1. /\ u \in Seq(Tokens) /\ Len(u) = 1 + Len(t) + 1
        /\ \A j \in 1 .. 1 : u[j] = <<"[">>[j]
        /\ \A j \in 1 .. Len(t) : u[1 + j] = t[j]
        /\ \A j \in 1 .. 1 : u[1 + Len(t) + j] = <<"]">>[j]
    BY <1>1, JoinIs
  <2> HIDE DEF u
  <2>2. Len(t) \in Nat /\ 1 + Len(t) + 1 = Len(t) + 2 /\ 1 \in 1 .. 1
    OBVIOUS
  <2>3. \A j \in 1 .. Len(t) : 1 + j = j + 1
    OBVIOUS
  <2>4. u[1] = "[" /\ u[Len(t) + 2] = "]"
    BY <1>1, <2>1, <2>2
  <2>5. QED
    BY <2>1, <2>2, <2>3, <2>4 DEF u
<1>3. ASSUME Brackets(h)
      PROVE  /\ SubSeq(h, 2, Len(h) - 1) \in IPv6Texts
             /\ h = <<"[">> \o SubSeq(h, 2, Len(h) - 1) \o <<"]">>
  <2> DEFINE t == SubSeq(h, 2, Len(h) - 1)
             u == <<"[">> \o t \o <<"]">>
  <2>1. t \in IPv6Texts /\ Len(h) > 3 /\ h[1] = "[" /\ h[Len(h)] = "]"
    BY <1>3 DEF Brackets
  <2>2. /\ t \in Seq(Tokens) /\ Len(t) = Len(h) - 2
        /\ \A j \in 1 .. Len(t) : t[j] = h[j + 1]
    <3>1. 2 \in Nat \ {0} /\ Len(h) - 1 \in 0 .. Len(h)
      BY <1>0, <2>1
    <3>2. /\ t \in Seq(Tokens)
          /\ Len(t) = IF 2 <= Len(h) - 1 THEN (Len(h) - 1) - 2 + 1 ELSE 0
          /\ \A j \in 1 .. Len(t) : t[j] = h[2 + j - 1]
      BY <3>1, PartIs
    <3>3. \A j \in 1 .. Len(t) : 2 + j - 1 = j + 1
      BY <3>2
    <3>4. QED
      BY <1>0, <2>1, <3>2, <3>3
  <2> HIDE DEF t
  <2>3. /\ u \in Seq(Tokens) /\ Len(u) = Len(t) + 2
        /\ u[1] = "[" /\ u[Len(t) + 2] = "]"
        /\ \A j \in 1 .. Len(t) : u[j + 1] = t[j]
    BY <1>2, <2>2
  <2> HIDE DEF u
  <2>4. ASSUME NEW j \in 1 .. Len(h) PROVE h[j] = u[j]
    <3>1. \/ j = 1 \/ j = Len(t) + 2
          \/ j - 1 \in 1 .. Len(t) /\ (j - 1) + 1 = j
      BY <1>0, <2>2
    <3>2. CASE j = 1
      BY <2>1, <2>3, <3>2
    <3>3. CASE j = Len(t) + 2
      <4>1. Len(t) + 2 = Len(h)
        BY <1>0, <2>2
      <4>2. QED
        BY <2>1, <2>3, <3>3, <4>1
    <3>4. CASE j - 1 \in 1 .. Len(t) /\ (j - 1) + 1 = j
      <4>1. t[j - 1] = h[(j - 1) + 1] /\ u[(j - 1) + 1] = t[j - 1]
        BY <2>2, <2>3, <3>4
      <4>2. QED
        BY <3>4, <4>1
    <3>5. QED
      BY <3>1, <3>2, <3>3, <3>4
  <2>5. Len(h) = Len(u)
    BY <1>0, <2>2, <2>3
  <2>6. h = u
    BY <2>3, <2>4, <2>5, SeqEqual
  <2>7. QED
    BY <2>1, <2>6 DEF t, u
<1>4. ASSUME NEW t \in IPv6Texts, h = <<"[">> \o t \o <<"]">>
      PROVE  Brackets(h) /\ SubSeq(h, 2, Len(h) - 1) = t
  <2>1. t \in Seq(Tokens) /\ Len(t) >= 2 /\ Len(t) \in Nat
    BY AddressAssumption
  <2>2. /\ Len(h) = Len(t) + 2
        /\ h[1] = "[" /\ h[Len(h)] = "]"
        /\ \A j \in 1 .. Len(t) : h[j + 1] = t[j]
    BY <1>2, <1>4, <2>1
  <2> DEFINE v == SubSeq(h, 2, Len(h) - 1)
  <2>3. /\ v \in Seq(Tokens) /\ Len(v) = Len(t)
        /\ \A j \in 1 .. Len(v) : v[j] = t[j]
    <3>1. 2 \in Nat \ {0} /\ Len(h) - 1 \in 0 .. Len(h)
      BY <2>1, <2>2
    <3>2. /\ v \in Seq(Tokens)
          /\ Len(v) = IF 2 <= Len(h) - 1 THEN (Len(h) - 1) - 2 + 1 ELSE 0
          /\ \A j \in 1 .. Len(v) : v[j] = h[2 + j - 1]
      BY <3>1, PartIs
    <3>3. Len(v) = Len(t)
      BY <2>1, <2>2, <3>2
    <3>4. \A j \in 1 .. Len(t) : 2 + j - 1 = j + 1
      BY <2>1
    <3>5. QED
      BY <2>2, <3>2, <3>3, <3>4
  <2>4. v = t
    BY <2>1, <2>3, SeqEqual
  <2>5. Len(h) > 3
    BY <2>1, <2>2
  <2> HIDE DEF v
  <2>6. SubSeq(h, 2, Len(h) - 1) = t
    BY <2>4 DEF v
  <2>7. QED
    BY <1>4, <2>2, <2>5, <2>6, Zenon DEF Brackets
<1>5. QED
  BY <1>3, <1>4

\* Tokens and the words that the library puts in itself.
Symbols == Tokens \union TransNames \union {"hostname"}

\* Two parts and a token between them.
LEMMA JoinOne ==
  ASSUME NEW S, NEW p \in Seq(S), NEW x \in S, NEW r \in Seq(S)
  PROVE  LET u == p \o <<x>> \o r
         IN /\ u \in Seq(S) /\ Len(u) = Len(p) + 1 + Len(r)
            /\ \A j \in 1 .. Len(p) : u[j] = p[j]
            /\ u[Len(p) + 1] = x
            /\ \A j \in 1 .. Len(r) : u[Len(p) + 1 + j] = r[j]
<1> SUFFICES ASSUME NEW u, u = p \o <<x>> \o r
             PROVE  /\ u \in Seq(S) /\ Len(u) = Len(p) + 1 + Len(r)
                    /\ \A j \in 1 .. Len(p) : u[j] = p[j]
                    /\ u[Len(p) + 1] = x
                    /\ \A j \in 1 .. Len(r) : u[Len(p) + 1 + j] = r[j]
  BY Zenon
<1>1. <<x>> \in Seq(S) /\ Len(<<x>>) = 1 /\ <<x>>[1] = x /\ 1 \in 1 .. 1
  OBVIOUS
<1>2. QED
  BY <1>1, JoinIs

\* An address written out, element by element.
LEMMA WrittenIs ==
  ASSUME NEW S, NEW p \in Seq(S), NEW q \in Seq(S), NEW r \in Seq(S),
         NEW x \in S, NEW y \in S,
         NEW u, u = p \o <<x>> \o q \o <<y>> \o r
  PROVE  /\ u \in Seq(S) /\ Len(u) = Len(p) + Len(q) + Len(r) + 2
         /\ \A j \in 1 .. Len(p) : u[j] = p[j]
         /\ u[Len(p) + 1] = x
         /\ \A j \in 1 .. Len(q) : u[Len(p) + 1 + j] = q[j]
         /\ u[Len(p) + Len(q) + 2] = y
         /\ \A j \in 1 .. Len(r) : u[Len(p) + Len(q) + 2 + j] = r[j]
<1> DEFINE v == p \o <<x>> \o q
<1>1. Len(p) \in Nat /\ Len(q) \in Nat /\ Len(r) \in Nat
  OBVIOUS
<1>2. /\ v \in Seq(S) /\ Len(v) = Len(p) + 1 + Len(q)
      /\ \A j \in 1 .. Len(p) : v[j] = p[j]
      /\ v[Len(p) + 1] = x
      /\ \A j \in 1 .. Len(q) : v[Len(p) + 1 + j] = q[j]
  BY JoinOne
<1>3. u = v \o <<y>> \o r
  OBVIOUS
<1> HIDE DEF v
<1>4. /\ u \in Seq(S) /\ Len(u) = Len(v) + 1 + Len(r)
      /\ \A j \in 1 .. Len(v) : u[j] = v[j]
      /\ u[Len(v) + 1] = y
      /\ \A j \in 1 .. Len(r) : u[Len(v) + 1 + j] = r[j]
  <2>1. v \in Seq(S)
    BY <1>2
  <2>2. LET w == v \o <<y>> \o r
        IN /\ w \in Seq(S) /\ Len(w) = Len(v) + 1 + Len(r)
           /\ \A j \in 1 .. Len(v) : w[j] = v[j]
           /\ w[Len(v) + 1] = y
           /\ \A j \in 1 .. Len(r) : w[Len(v) + 1 + j] = r[j]
    BY <2>1, JoinOne
  <2>3. QED
    BY <1>3, <2>2
<1>5. Len(v) + 1 = Len(p) + Len(q) + 2
  BY <1>1, <1>2
<1>6. u[Len(p) + 1] = x
  <2>1. Len(p) + 1 \in 1 .. Len(v)
    BY <1>1, <1>2
  <2>2. QED
    BY <1>2, <1>4, <2>1
<1>7. u[Len(p) + Len(q) + 2] = y
  BY <1>4, <1>5
<1>8. ASSUME NEW j \in 1 .. Len(p) PROVE u[j] = p[j]
  <2>1. j \in 1 .. Len(v)
    BY <1>1, <1>2
  <2>2. QED
    BY <1>2, <1>4, <2>1
<1>9. ASSUME NEW j \in 1 .. Len(q) PROVE u[Len(p) + 1 + j] = q[j]
  <2>1. Len(p) + 1 + j \in 1 .. Len(v)
    BY <1>1, <1>2
  <2>2. QED
    BY <1>2, <1>4, <2>1
<1>10. ASSUME NEW j \in 1 .. Len(r)
       PROVE  u[Len(p) + Len(q) + 2 + j] = r[j]
  <2>1. u[Len(v) + 1 + j] = r[j]
    BY <1>4
  <2>2. QED
    BY <1>5, <2>1
<1>11. Len(u) = Len(p) + Len(q) + Len(r) + 2
  BY <1>1, <1>2, <1>4
<1>12. QED
  BY <1>4, <1>6, <1>7, <1>8, <1>9, <1>10, <1>11

\* A sequence that is found in another is a part of it.
LEMMA FoundAt ==
  ASSUME NEW S, NEW s \in Seq(S), NEW p \in Seq(S), NEW a \in Nat \ {0},
         NEW b \in 0 .. Len(s), b = a + Len(p) - 1,
         \A j \in 1 .. Len(p) : s[a + j - 1] = p[j]
  PROVE  SubSeq(s, a, b) = p
<1>0. Len(p) \in Nat /\ Len(s) \in Nat
  OBVIOUS
<1>1. /\ SubSeq(s, a, b) \in Seq(S)
      /\ Len(SubSeq(s, a, b)) = IF a <= b THEN b - a + 1 ELSE 0
      /\ \A j \in 1 .. Len(SubSeq(s, a, b)) :
           SubSeq(s, a, b)[j] = s[a + j - 1]
  BY PartIs
<1>2. Len(SubSeq(s, a, b)) = Len(p)
  BY <1>1
<1>3. QED
  BY <1>1, <1>2, SeqEqual

\* Components without the separators that follow them, written out, are read
\* at those separators.
LEMMA WrittenShape ==
  ASSUME NEW p \in Seq(Symbols), NEW q \in Seq(Symbols),
         NEW r \in Seq(Symbols), NEW f,
         p # <<>>, \A j \in 1 .. Len(p) : p[j] # "/",
         PortBare(f, r)
  PROVE  ParseAddress(f, p \o <<"/">> \o q \o <<":">> \o r) =
           [protocol |-> HostPart(p, q).protocol,
            host |-> HostPart(p, q).host, port |-> r]
<1> SUFFICES ASSUME NEW u, u = p \o <<"/">> \o q \o <<":">> \o r
             PROVE  ParseAddress(f, u) =
                      [protocol |-> HostPart(p, q).protocol,
                       host |-> HostPart(p, q).host, port |-> r]
  BY Zenon
<1> DEFINE a == Len(p)
           b == Len(q)
           c == Len(r)
<1>1. a \in Nat \ {0} /\ b \in Nat /\ c \in Nat
  BY EmptySeq
<1>2. "/" \in Symbols /\ ":" \in Symbols
  BY DEF Symbols, Tokens
<1>3. /\ u \in Seq(Symbols) /\ Len(u) = a + b + c + 2
      /\ \A j \in 1 .. a : u[j] = p[j]
      /\ u[a + 1] = "/"
      /\ \A j \in 1 .. b : u[a + 1 + j] = q[j]
      /\ u[a + b + 2] = ":"
      /\ \A j \in 1 .. c : u[a + b + 2 + j] = r[j]
  BY <1>2, WrittenIs
<1>4. Shape(f, u, a + 1, a + b + 2, Len(u))
  <2>1. /\ a + 1 \in 0 .. Len(u) /\ a + b + 2 \in 1 .. Len(u)
        /\ Len(u) \in 1 .. Len(u) /\ a + 1 < a + b + 2 /\ a + b + 2 <= Len(u)
        /\ a + 1 # 0 /\ a + 1 - 1 = a
    BY <1>1, <1>3
  <2>2. \A j \in 1 .. a : u[j] # "/"
    BY <1>3
  <2>3. ASSUME NEW j \in a + b + 2 + 1 .. Len(u)
        PROVE  u[j] # ":" /\ (f => u[j] # "/")
    <3>1. /\ j - (a + b + 2) \in 1 .. c
          /\ (a + b + 2) + (j - (a + b + 2)) = j
      BY <1>1, <1>3
    <3>2. u[j] = r[j - (a + b + 2)]
      BY <1>3, <3>1
    <3>3. QED
      BY <3>1, <3>2 DEF PortBare
  <2>4. QED
    BY <1>3, <2>1, <2>2, <2>3 DEF Shape
<1>5. SubSeq(u, 1, a) = p
  <2>1. 1 \in Nat \ {0} /\ a \in 0 .. Len(u) /\ a = 1 + Len(p) - 1
    BY <1>1, <1>3
  <2>2. \A j \in 1 .. Len(p) : 1 + j - 1 = j
    BY <1>1
  <2>3. QED
    BY <1>3, <2>1, <2>2, FoundAt
<1>6. SubSeq(u, a + 1 + 1, a + b + 2 - 1) = q
  <2>1. /\ a + 1 + 1 \in Nat \ {0} /\ a + b + 2 - 1 \in 0 .. Len(u)
        /\ a + b + 2 - 1 = a + 1 + 1 + Len(q) - 1
    BY <1>1, <1>3
  <2>2. \A j \in 1 .. Len(q) : a + 1 + 1 + j - 1 = a + 1 + j
    BY <1>1
  <2>3. QED
    BY <1>3, <2>1, <2>2, FoundAt
<1>7. SubSeq(u, a + b + 2 + 1, Len(u)) = r
  <2>1. /\ a + b + 2 + 1 \in Nat \ {0} /\ Len(u) \in 0 .. Len(u)
        /\ Len(u) = a + b + 2 + 1 + Len(r) - 1
    BY <1>1, <1>3
  <2>2. \A j \in 1 .. Len(r) : a + b + 2 + 1 + j - 1 = a + b + 2 + j
    BY <1>1
  <2>3. QED
    BY <1>3, <2>1, <2>2, FoundAt
<1>8. ProtocolOf(u, a + 1, a + b + 2) = p
  <2>1. a + 1 > 1 /\ a + 1 - 1 = a
    BY <1>1
  <2>2. QED
    BY <1>5, <2>1 DEF ProtocolOf
<1> DEFINE k == a + 1
           m == a + b + 2
           n == Len(u)
<1>9. /\ Shape(f, u, k, m, n) /\ ProtocolOf(u, k, m) = p
      /\ SubSeq(u, k + 1, m - 1) = q /\ SubSeq(u, m + 1, n) = r
  BY <1>4, <1>6, <1>7, <1>8
<1> HIDE DEF k, m, n
<1>10. u \in Seq(Symbols)
  BY <1>3
<1>11. ASSUME NEW g, NEW x, NEW y, NEW z, Shape(g, u, x, y, z)
      PROVE  ParseAddress(g, u) =
        [protocol |->
           HostPart(ProtocolOf(u, x, y), SubSeq(u, x + 1, y - 1)).protocol,
         host |->
           HostPart(ProtocolOf(u, x, y), SubSeq(u, x + 1, y - 1)).host,
         port |-> SubSeq(u, y + 1, z)]
  BY <1>10, <1>11, ShapeParses
<1>12. QED
  BY <1>9, <1>11

\* A host that has been filled in, or taken out of its brackets, is left as it
\* is when it is looked at again.
LEMMA HostPartIs ==
  ASSUME NEW p, NEW h \in Seq(Tokens)
  PROVE  LET hp == HostPart(p, h)
         IN /\ hp = [protocol |-> hp.protocol, host |-> hp.host]
            /\ hp.host # <<>> /\ hp.host \in Seq(Symbols)
            /\ hp.protocol \in {p, <<"inet6">>}
            /\ HostPart(hp.protocol, hp.host) = hp
<1> DEFINE hp == HostPart(p, h)
<1>1. CASE h = <<>>
  <2>1. hp = [protocol |-> p, host |-> Hostname]
    BY <1>1 DEF HostPart
  <2>2. /\ Hostname # <<>> /\ Hostname \in Seq(Symbols) /\ Len(Hostname) = 1
    BY DEF Hostname, Symbols
  <2>3. ~Brackets(Hostname)
    BY <2>2 DEF Brackets
  <2>4. HostPart(p, Hostname) = [protocol |-> p, host |-> Hostname]
    BY <2>2, <2>3 DEF HostPart
  <2>5. QED
    BY <2>1, <2>2, <2>4
<1>2. CASE h # <<>> /\ p \in {<<"tcp">>, <<"inet6">>} /\ Brackets(h)
  <2> DEFINE t == SubSeq(h, 2, Len(h) - 1)
  <2>1. hp = [protocol |-> <<"inet6">>, host |-> t]
    BY <1>2 DEF HostPart
  <2>2. t \in IPv6Texts
    BY <1>2 DEF Brackets
  <2> HIDE DEF t
  <2>3. t \in Seq(Tokens) /\ Len(t) >= 2 /\ Head(t) # "["
    BY <2>2, AddressAssumption
  <2>4. t # <<>> /\ t[1] # "["
    <3>1. t # <<>>
      BY <2>3
    <3>2. Head(t) = t[1]
      BY <2>3, <3>1
    <3>3. QED
      BY <2>3, <3>1, <3>2
  <2>5. t \in Seq(Symbols)
    <3>1. Tokens \subseteq Symbols
      BY DEF Symbols
    <3>2. QED
      BY <2>3, <3>1, SeqMonotonic
  <2>6. ~Brackets(t)
    BY <2>4 DEF Brackets
  <2>7. HostPart(<<"inet6">>, t) = [protocol |-> <<"inet6">>, host |-> t]
    BY <2>4, <2>6 DEF HostPart
  <2>8. QED
    BY <2>1, <2>4, <2>5, <2>7
<1>3. CASE h # <<>> /\ ~(p \in {<<"tcp">>, <<"inet6">>} /\ Brackets(h))
  <2>1. hp = [protocol |-> p, host |-> h]
    BY <1>3 DEF HostPart
  <2>2. h \in Seq(Symbols)
    <3>1. Tokens \subseteq Symbols
      BY DEF Symbols
    <3>2. QED
      BY <3>1, SeqMonotonic
  <2>3. QED
    BY <1>3, <2>1, <2>2
<1>4. QED
  BY <1>1, <1>2, <1>3

\* The protocol has no '/' in it.
LEMMA ProtocolIs ==
  ASSUME NEW s \in Seq(Tokens), NEW f, NEW k, NEW m, NEW n,
         Shape(f, s, k, m, n)
  PROVE  /\ ProtocolOf(s, k, m) # <<>>
         /\ ProtocolOf(s, k, m) \in Seq(Symbols)
         /\ \A j \in 1 .. Len(ProtocolOf(s, k, m)) :
              ProtocolOf(s, k, m)[j] # "/"
<1>1. CASE k > 1
  <2> DEFINE p == SubSeq(s, 1, k - 1)
  <2>1. ProtocolOf(s, k, m) = p
    BY <1>1 DEF ProtocolOf
  <2>2. Len(s) \in Nat /\ k \in 0 .. Len(s) /\ \A j \in 1 .. k - 1 : s[j] # "/"
    BY <1>1 DEF Shape
  <2>3. 1 \in Nat \ {0} /\ k - 1 \in 0 .. Len(s) /\ 1 <= k - 1
    BY <1>1, <2>2
  <2>4. /\ p \in Seq(Tokens) /\ Len(p) = (k - 1) - 1 + 1
        /\ \A j \in 1 .. Len(p) : p[j] = s[1 + j - 1]
    BY <2>3, PartIs
  <2> HIDE DEF p
  <2>5. Len(p) = k - 1 /\ \A j \in 1 .. Len(p) : 1 + j - 1 = j
    BY <2>2, <2>4
  <2>6. p # <<>>
    BY <2>3, <2>5
  <2>7. Tokens \subseteq Symbols
    BY DEF Symbols
  <2>8. p \in Seq(Symbols)
    BY <2>4, <2>7, SeqMonotonic
  <2>9. QED
    BY <2>1, <2>2, <2>4, <2>5, <2>6, <2>8
<1>2. CASE ~(k > 1)
  <2>1. ProtocolOf(s, k, m) \in {<<"local">>, <<"tcp">>}
    BY <1>2 DEF ProtocolOf
  <2>2. ASSUME NEW p \in {<<"local">>, <<"tcp">>}
        PROVE  /\ p # <<>> /\ p \in Seq(Symbols)
               /\ \A j \in 1 .. Len(p) : p[j] # "/"
    <3>1. p # <<>> /\ Len(p) = 1 /\ p[1] \in {"local", "tcp"}
      OBVIOUS
    <3>2. p \in Seq(Symbols)
      <4>1. "local" \in Symbols /\ "tcp" \in Symbols
        BY DEF Symbols, TransNames
      <4>2. <<"local">> \in Seq(Symbols) /\ <<"tcp">> \in Seq(Symbols)
        BY <4>1
      <4>3. QED
        BY <4>2
    <3>3. QED
      BY <3>1, <3>2
  <2>3. QED
    BY <2>1, <2>2
<1>3. QED
  BY <1>1, <1>2

\* The port is a part without the separators.
LEMMA PortIn ==
  ASSUME NEW s \in Seq(Tokens), NEW f, NEW k, NEW m, NEW n,
         Shape(f, s, k, m, n)
  PROVE  /\ SubSeq(s, m + 1, n) \in Seq(Tokens)
         /\ PortBare(f, SubSeq(s, m + 1, n))
<1> DEFINE p == SubSeq(s, m + 1, n)
<1>1. /\ Len(s) \in Nat /\ m \in 1 .. Len(s) /\ n \in 1 .. Len(s) /\ m <= n
      /\ \A j \in m + 1 .. Len(s) : s[j] # ":"
      /\ f => \A j \in m + 1 .. n : s[j] # "/"
  BY DEF Shape
<1>2. m + 1 \in Nat \ {0} /\ n \in 0 .. Len(s)
  BY <1>1
<1>3. /\ p \in Seq(Tokens)
      /\ Len(p) = IF m + 1 <= n THEN n - (m + 1) + 1 ELSE 0
      /\ \A j \in 1 .. Len(p) : p[j] = s[m + 1 + j - 1]
  BY <1>2, PartIs
<1> HIDE DEF p
<1>4. ASSUME NEW j \in 1 .. Len(p) PROVE p[j] # ":" /\ (f => p[j] # "/")
  <2>1. m + 1 + j - 1 \in m + 1 .. n /\ m + 1 + j - 1 \in m + 1 .. Len(s)
    BY <1>1, <1>3
  <2>2. QED
    BY <1>1, <1>3, <2>1
<1>5. QED
  BY <1>3, <1>4 DEF p, PortBare

\* The host is a part of the address.
LEMMA HostIn ==
  ASSUME NEW s \in Seq(Tokens), NEW f, NEW k, NEW m, NEW n,
         Shape(f, s, k, m, n)
  PROVE  SubSeq(s, k + 1, m - 1) \in Seq(Tokens)
<1>1. k + 1 \in Nat \ {0} /\ m - 1 \in 0 .. Len(s)
  BY DEF Shape
<1>2. QED
  BY <1>1, PartIs

\* The components, written out, parse to themselves.
LEMMA Rebuilds ==
  ASSUME NEW s \in Seq(Tokens), NEW f, ParseAddress(f, s) # Failed
  PROVE  LET r == ParseAddress(f, s)
         IN ParseAddress(f, r.protocol \o <<"/">> \o r.host \o <<":">>
                              \o r.port) = r
<1> SUFFICES ASSUME NEW r, r = ParseAddress(f, s),
                    NEW u, u = r.protocol \o <<"/">> \o r.host \o <<":">>
                                 \o r.port
             PROVE  ParseAddress(f, u) = r
  BY Zenon
<1>1. PICK k \in 0 .. Len(s), m \in 1 .. Len(s), n \in 1 .. Len(s) :
        Shape(f, s, k, m, n)
  BY HasShape
<1> DEFINE p == ProtocolOf(s, k, m)
           h == SubSeq(s, k + 1, m - 1)
           q == SubSeq(s, m + 1, n)
           hp == HostPart(p, h)
<1>2. r = [protocol |-> hp.protocol, host |-> hp.host, port |-> q]
  BY <1>1, ShapeParses
<1>3. p # <<>> /\ p \in Seq(Symbols) /\ \A j \in 1 .. Len(p) : p[j] # "/"
  BY <1>1, ProtocolIs
<1>4. h \in Seq(Tokens)
  BY <1>1, HostIn
<1>5. q \in Seq(Tokens) /\ PortBare(f, q)
  BY <1>1, PortIn
<1> HIDE DEF p, h, q
<1>6. /\ hp = [protocol |-> hp.protocol, host |-> hp.host]
      /\ hp.host # <<>> /\ hp.host \in Seq(Symbols)
      /\ hp.protocol \in {p, <<"inet6">>}
      /\ HostPart(hp.protocol, hp.host) = hp
  BY <1>4, HostPartIs
<1> HIDE DEF hp
<1>7. q \in Seq(Symbols)
  <2>1. Tokens \subseteq Symbols
    BY DEF Symbols
  <2>2. QED
    BY <1>5, <2>1, SeqMonotonic
<1>8. /\ hp.protocol # <<>> /\ hp.protocol \in Seq(Symbols)
      /\ \A j \in 1 .. Len(hp.protocol) : hp.protocol[j] # "/"
  <2>1. CASE hp.protocol = p
    BY <1>3, <2>1
  <2>2. CASE hp.protocol = <<"inet6">>
    <3> DEFINE i6 == <<"inet6">>
    <3>1. i6 # <<>> /\ Len(i6) = 1 /\ i6[1] = "inet6" /\ i6 \in Seq(Symbols)
      BY DEF Symbols, TransNames
    <3> HIDE DEF i6
    <3>2. \A j \in 1 .. Len(i6) : i6[j] # "/"
      BY <3>1
    <3>3. QED
      BY <2>2, <3>1, <3>2 DEF i6
  <2>3. QED
    BY <1>6, <2>1, <2>2
<1> DEFINE a == hp.protocol
           b == hp.host
<1>9. u = a \o <<"/">> \o b \o <<":">> \o q
  <2>1. r.protocol = a /\ r.host = b /\ r.port = q
    BY <1>2
  <2>2. QED
    BY <2>1
<1>10. /\ a # <<>> /\ a \in Seq(Symbols) /\ \A j \in 1 .. Len(a) : a[j] # "/"
       /\ b \in Seq(Symbols) /\ HostPart(a, b) = hp
  BY <1>6, <1>8
<1> HIDE DEF a, b
<1>11. ParseAddress(f, a \o <<"/">> \o b \o <<":">> \o q) =
         [protocol |-> HostPart(a, b).protocol,
          host |-> HostPart(a, b).host, port |-> q]
  BY <1>5, <1>7, <1>10, WrittenShape
<1>12. QED
  BY <1>2, <1>9, <1>10, <1>11

\* Reading says of the address what Shape says of it.
LEMMA ReadingIs ==
  ASSUME address \in Seq(Tokens), NEW k \in Places \union {0},
         NEW m \in Places, NEW n \in Places
  PROVE  Reading(k, m, n) <=> Shape(font, address, k, m, n)
<1>0. /\ Len(address) \in Nat
      /\ k \in 0 .. Len(address) /\ m \in 1 .. Len(address)
      /\ n \in 1 .. Len(address)
  BY DEF Places
<1>1. ASSUME NEW a \in Nat \ {0}, NEW b \in 0 .. Len(address), NEW ch
      PROVE  Bare(Part(a, b), ch) <=> \A j \in a .. b : address[j] # ch
  <2> DEFINE p == SubSeq(address, a, b)
  <2>1. /\ Len(p) = IF a <= b THEN b - a + 1 ELSE 0
        /\ \A j \in 1 .. Len(p) : p[j] = address[a + j - 1]
    BY <1>1, PartIs
  <2>2. Part(a, b) = p
    BY DEF Part
  <2> HIDE DEF p
  <2>3. ASSUME \A j \in 1 .. Len(p) : p[j] # ch, NEW j \in a .. b
        PROVE  address[j] # ch
    <3>1. j - a + 1 \in 1 .. Len(p) /\ a + (j - a + 1) - 1 = j
      BY <1>0, <1>1, <2>1
    <3>2. QED
      BY <2>1, <2>3, <3>1
  <2>4. ASSUME \A j \in a .. b : address[j] # ch, NEW j \in 1 .. Len(p)
        PROVE  p[j] # ch
    <3>1. a + j - 1 \in a .. b
      BY <1>0, <1>1, <2>1
    <3>2. QED
      BY <2>1, <2>4, <3>1
  <2>5. QED
    BY <2>2, <2>3, <2>4 DEF Bare, Contains
<1>2. Bare(address, "/") <=> \A j \in 1 .. Len(address) : address[j] # "/"
  BY DEF Bare, Contains
<1>3. k # 0 => (Bare(Part(1, k - 1), "/") <=>
                  \A j \in 1 .. k - 1 : address[j] # "/")
  <2>1. k # 0 => 1 \in Nat \ {0} /\ k - 1 \in 0 .. Len(address)
    BY <1>0
  <2>2. QED
    BY <1>1, <2>1
<1>4. Bare(Part(m + 1, Len(address)), ":") <=>
        \A j \in m + 1 .. Len(address) : address[j] # ":"
  <2>1. m + 1 \in Nat \ {0} /\ Len(address) \in 0 .. Len(address)
    BY <1>0
  <2>2. QED
    BY <1>1, <2>1
<1>5. Bare(Part(m + 1, n), "/") <=> \A j \in m + 1 .. n : address[j] # "/"
  <2>1. m + 1 \in Nat \ {0} /\ n \in 0 .. Len(address)
    BY <1>0
  <2>2. QED
    BY <1>1, <2>1
<1>6. QED
  BY <1>0, <1>2, <1>3, <1>4, <1>5 DEF Reading, Shape

-----------------------------------------------------------------------------
(* What set_sun_path does.                                                 *)

Chars == Tokens \union {"@"}

\* Without the '@' of an abstract name, port p is Full(p).
LEMMA FullIs ==
  ASSUME NEW p \in Seq(Tokens), p # <<>>
  PROVE  /\ Full(p) \in Seq(Chars) /\ Len(Full(p)) \in Nat
         /\ HasAt(p) => /\ Upath(p) = <<>> /\ p = <<"@">> \o Full(p)
                        /\ Len(p) = Len(Full(p)) + 1
         /\ ~HasAt(p) => /\ Full(p) = Upath(p) \o p
                         /\ Len(Full(p)) = Len(Upath(p)) + Len(p)
         /\ Upath(p) \in Seq(Tokens)
         /\ Upath(p) \o p \in Seq(Tokens)
<1>1. Upath(p) \in Seq(Tokens) /\ Upath(p) \o p \in Seq(Tokens)
  <2>1. UNIX_PATH \in Seq(Tokens) /\ <<>> \in Seq(Tokens)
    BY UnixAssumption
  <2>2. Upath(p) \in Seq(Tokens)
    BY <2>1 DEF Upath
  <2>3. QED
    BY <2>2, ConcatProperties
<1>2. Tokens \subseteq Chars
  BY DEF Chars
<1>3. CASE HasAt(p)
  <2>1. Upath(p) = <<>> /\ Full(p) = <<>> \o Tail(p)
    BY <1>3 DEF Upath, Full
  <2>2. Tail(p) \in Seq(Tokens) /\ Len(Tail(p)) = Len(p) - 1
    BY HeadTailProperties
  <2>3. Full(p) = Tail(p)
    BY <2>1, <2>2, ConcatEmptySeq
  <2>4. p = <<Head(p)>> \o Tail(p)
    BY HeadTailProperties
  <2>5. Head(p) = "@"
    BY <1>3 DEF HasAt
  <2>6. Tail(p) \in Seq(Chars)
    BY <1>2, <2>2, SeqMonotonic
  <2>7. Len(p) \in Nat /\ Len(Tail(p)) \in Nat
    BY <2>2
  <2>8. QED
    BY <1>1, <1>3, <2>1, <2>2, <2>3, <2>4, <2>5, <2>6, <2>7
<1>4. CASE ~HasAt(p)
  <2>1. Full(p) = Upath(p) \o p
    BY <1>4 DEF Full
  <2>2. Len(Upath(p) \o p) = Len(Upath(p)) + Len(p)
    BY <1>1, ConcatProperties
  <2>3. Upath(p) \o p \in Seq(Chars)
    BY <1>1, <1>2, SeqMonotonic
  <2>4. Len(Upath(p) \o p) \in Nat
    BY <2>3
  <2>5. QED
    BY <1>1, <1>4, <2>1, <2>2, <2>3, <2>4
<1>5. QED
  BY <1>3, <1>4

\* The name in the file system is not cut.
LEMMA FileName ==
  ASSUME NEW p \in Seq(Tokens), p # <<>>, ~TooLong(p)
  PROVE  set_sun_path(p, FALSE) = Upath(p) \o p
<1> DEFINE w == Upath(p) \o p
<1>1. /\ w \in Seq(Tokens) /\ Upath(p) \in Seq(Tokens)
      /\ Len(w) = Len(Upath(p)) + Len(p)
  BY FullIs, ConcatProperties
<1>2. <<>> \o Upath(p) \o p = w
  BY <1>1, ConcatEmptySeq
<1>3. Len(w) < SunPathSize
  <2>1. SunPathSize \in Nat /\ Len(p) \in Nat /\ Len(Upath(p)) \in Nat
    BY <1>1, UnixAssumption
  <2>2. QED
    BY <1>1, <2>1 DEF TooLong
<1>4. SubSeq(w, 1, Len(w)) = w
  BY <1>1, SubSeqFull
<1> HIDE DEF w
<1>5. QED
  BY <1>2, <1>3, <1>4 DEF set_sun_path, w

\* An abstract name is, unless the '@' does not fit.
LEMMA AbstractName ==
  ASSUME NEW p \in Seq(Tokens), p # <<>>, ~TooLong(p)
  PROVE  /\ Len(Full(p)) <= SunPathSize - 1 /\ SunPathSize >= 2
         /\ Tail(set_sun_path(p, TRUE)) =
              SubSeq(Full(p), 1, IF Len(Full(p)) < SunPathSize - 1
                                 THEN Len(Full(p)) ELSE SunPathSize - 2)
<1> DEFINE full == (IF ~HasAt(p) THEN <<"@">> ELSE <<>>) \o Upath(p) \o p
           F == Full(p)
           n == IF Len(full) < SunPathSize THEN Len(full) ELSE SunPathSize - 1
           c == IF Len(F) < SunPathSize - 1 THEN Len(F) ELSE SunPathSize - 2
<1>1. /\ F \in Seq(Chars) /\ Len(F) \in Nat /\ SunPathSize \in Nat
      /\ Len(p) \in Nat \ {0} /\ Len(Upath(p)) \in Nat
      /\ Upath(p) \in Seq(Tokens)
  BY FullIs, UnixAssumption, EmptySeq
<1>2. full = <<"@">> \o F
  <2>1. CASE HasAt(p)
    <3>1. full = <<>> \o <<>> \o p
      BY <2>1, FullIs
    <3>2. <<>> \o <<>> \o p = p
      BY ConcatEmptySeq
    <3>3. QED
      BY <2>1, <3>1, <3>2, FullIs
  <2>2. CASE ~HasAt(p)
    <3>1. full = <<"@">> \o Upath(p) \o p
      BY <2>2
    <3>2. <<"@">> \in Seq(Chars) /\ Tokens \subseteq Chars
      BY DEF Chars
    <3>3. Upath(p) \in Seq(Chars) /\ p \in Seq(Chars)
      BY <1>1, <3>2, SeqMonotonic
    <3>4. <<"@">> \o Upath(p) \o p = <<"@">> \o (Upath(p) \o p)
      BY <3>2, <3>3, ConcatAssociative
    <3>5. QED
      BY <2>2, <3>1, <3>4, FullIs
  <2>3. QED
    BY <2>1, <2>2
<1>3. Len(F) <= SunPathSize - 1 /\ SunPathSize >= 2
  <2>1. Len(p) + Len(Upath(p)) <= SunPathSize - 1
    BY <1>1 DEF TooLong
  <2>2. Len(F) = Len(p) - 1 \/ Len(F) = Len(Upath(p)) + Len(p)
    BY <1>1, FullIs
  <2>3. QED
    BY <1>1, <2>1, <2>2
<1>4. /\ full \in Seq(Chars) /\ Len(full) = Len(F) + 1
      /\ \A j \in 1 .. Len(F) : full[j + 1] = F[j]
  <2> DEFINE A == <<"@">>
  <2>1. A \in Seq(Chars) /\ Len(A) = 1
    BY DEF Chars
  <2> HIDE DEF A, F
  <2>2. /\ A \o F \in Seq(Chars) /\ Len(A \o F) = Len(A) + Len(F)
        /\ \A j \in 1 .. Len(A) + Len(F) :
             (A \o F)[j] = IF j <= Len(A) THEN A[j] ELSE F[j - Len(A)]
    BY <1>1, <2>1, ConcatProperties
  <2>3. ASSUME NEW j \in 1 .. Len(F) PROVE (A \o F)[j + 1] = F[j]
    BY <1>1, <2>1, <2>2
  <2>4. full = A \o F
    BY <1>2 DEF A, F
  <2> HIDE DEF full
  <2>5. Len(A \o F) = Len(F) + 1
    BY <1>1, <2>1, <2>2
  <2>6. QED
    BY <2>2, <2>3, <2>4, <2>5
<1>5. set_sun_path(p, TRUE) = SubSeq(full, 1, n)
  BY DEF set_sun_path
<1> HIDE DEF full, F
<1>6. n \in 1 .. Len(full) /\ n - 1 = c /\ c \in 0 .. Len(F)
  BY <1>1, <1>3, <1>4
<1> HIDE DEF n, c
<1>7. Tail(SubSeq(full, 1, n)) = SubSeq(full, 1 + 1, n)
  <2>1. 1 \in 1 .. Len(full)
    BY <1>1, <1>4
  <2>2. QED
    BY <1>4, <1>6, <2>1, HeadTailOfSubSeq
<1>8. SubSeq(full, 1 + 1, n) = SubSeq(F, 1, c)
  <2> DEFINE g == SubSeq(F, 1, c)
  <2>1. /\ g \in Seq(Chars) /\ Len(g) = IF 1 <= c THEN c - 1 + 1 ELSE 0
        /\ \A j \in 1 .. Len(g) : g[j] = F[1 + j - 1]
    <3>1. 1 \in Nat \ {0}
      OBVIOUS
    <3>2. QED
      BY <1>1, <1>6, <3>1, PartIs
  <2> HIDE DEF g
  <2>2. /\ 1 + 1 \in Nat \ {0} /\ n \in 0 .. Len(full)
        /\ n = 1 + 1 + Len(g) - 1
    BY <1>1, <1>4, <1>6, <2>1
  <2>3. ASSUME NEW j \in 1 .. Len(g) PROVE full[1 + 1 + j - 1] = g[j]
    <3>1. j \in 1 .. Len(F) /\ 1 + 1 + j - 1 = j + 1 /\ 1 + j - 1 = j
      BY <1>1, <1>6, <2>1
    <3>2. QED
      BY <1>4, <2>1, <3>1
  <2>4. SubSeq(full, 1 + 1, n) = g
    BY <1>4, <2>1, <2>2, <2>3, FoundAt
  <2>5. QED
    BY <2>4 DEF g
<1>9. QED
  BY <1>3, <1>5, <1>7, <1>8 DEF F, c

\* Ports with the same file name are the same, ports with the same abstract
\* name are, unless one of them is cut.
LEMMA SameName ==
  ASSUME NEW p \in Seq(Tokens), NEW q \in Seq(Tokens), p # <<>>, q # <<>>,
         ~TooLong(p), ~TooLong(q),
         \/ Tail(set_sun_path(p, TRUE)) = Tail(set_sun_path(q, TRUE))
         \/ set_sun_path(p, FALSE) = set_sun_path(q, FALSE)
  PROVE  Full(p) = Full(q) \/ CutAlike(p, q)
<1> DEFINE c(F) == IF Len(F) < SunPathSize - 1 THEN Len(F)
                   ELSE SunPathSize - 2
           F == Full(p)
           G == Full(q)
<1>1. /\ F \in Seq(Chars) /\ G \in Seq(Chars)
      /\ Len(F) \in Nat /\ Len(G) \in Nat /\ SunPathSize \in Nat
  BY FullIs, UnixAssumption
<1>2. CASE Tail(set_sun_path(p, TRUE)) = Tail(set_sun_path(q, TRUE))
  <2>1. /\ Len(F) <= SunPathSize - 1 /\ Len(G) <= SunPathSize - 1
        /\ SunPathSize >= 2
        /\ SubSeq(F, 1, c(F)) = SubSeq(G, 1, c(G))
    BY <1>2, AbstractName
  <2> HIDE DEF F, G
  <2>2. c(F) \in 0 .. Len(F) /\ c(G) \in 0 .. Len(G) /\ 1 \in Nat \ {0}
    BY <1>1, <2>1
  <2>3. /\ Len(SubSeq(F, 1, c(F))) = IF 1 <= c(F) THEN c(F) - 1 + 1 ELSE 0
        /\ Len(SubSeq(G, 1, c(G))) = IF 1 <= c(G) THEN c(G) - 1 + 1 ELSE 0
    BY <1>1, <2>2, PartIs
  <2>4. c(F) = c(G)
    <3> DEFINE x == c(F)
               y == c(G)
    <3>1. x \in Nat /\ y \in Nat
      BY <1>1, <2>2
    <3>2. (IF 1 <= x THEN x - 1 + 1 ELSE 0) = (IF 1 <= y THEN y - 1 + 1 ELSE 0)
      BY <2>1, <2>3
    <3> HIDE DEF x, y
    <3>3. x = y
      BY <3>1, <3>2
    <3>4. QED
      BY <3>3 DEF x, y
  <2>5. CASE Len(F) < SunPathSize - 1 /\ Len(G) < SunPathSize - 1
    <3>1. SubSeq(F, 1, Len(F)) = F /\ SubSeq(G, 1, Len(G)) = G
      BY <1>1, SubSeqFull
    <3>2. QED
      BY <2>1, <2>5, <3>1 DEF F, G
  <2>6. CASE Len(F) = SunPathSize - 1 \/ Len(G) = SunPathSize - 1
    <3>1. c(F) = SunPathSize - 2 /\ c(G) = SunPathSize - 2
      BY <1>1, <2>1, <2>4, <2>6
    <3> HIDE DEF c
    <3>2. SubSeq(F, 1, SunPathSize - 2) = SubSeq(G, 1, SunPathSize - 2)
      BY <2>1, <3>1
    <3>3. QED
      BY <2>1, <2>6, <3>2 DEF CutAlike, F, G
  <2>7. QED
    BY <1>1, <2>1, <2>5, <2>6
<1>3. CASE set_sun_path(p, FALSE) = set_sun_path(q, FALSE)
  <2>1. Upath(p) \o p = Upath(q) \o q
    BY <1>3, FileName
  <2>2. ASSUME NEW x \in Seq(Tokens), NEW y \in Seq(Tokens), x # <<>>,
               y # <<>>, Upath(x) \o x = Upath(y) \o y, HasAt(x)
        PROVE  HasAt(y)
    <3>1. x = Upath(y) \o y
      <4>1. Upath(x) = <<>>
        BY <2>2, FullIs
      <4>2. <<>> \o x = x
        BY ConcatEmptySeq
      <4>3. QED
        BY <2>2, <4>1, <4>2
    <3>2. CASE Upath(y) = <<>>
      <4>1. <<>> \o y = y
        BY ConcatEmptySeq
      <4>2. QED
        BY <2>2, <3>1, <3>2, <4>1
    <3>3. CASE Upath(y) = UNIX_PATH
      <4>1. /\ UNIX_PATH \in Seq(Tokens) /\ UNIX_PATH # <<>>
            /\ Head(UNIX_PATH) = "/"
        BY UnixAssumption
      <4>2. Head(UNIX_PATH \o y) = Head(UNIX_PATH)
        BY <4>1
      <4>3. QED
        BY <2>2, <3>1, <3>3, <4>1, <4>2 DEF HasAt
    <3>4. QED
      BY <3>2, <3>3 DEF Upath
  <2>3. CASE HasAt(p) /\ HasAt(q)
    <3>1. Upath(p) = <<>> /\ Upath(q) = <<>>
      BY <2>3 DEF Upath
    <3>2. <<>> \o p = p /\ <<>> \o q = q
      BY ConcatEmptySeq
    <3>3. QED
      BY <2>1, <3>1, <3>2
  <2>4. CASE ~HasAt(p) /\ ~HasAt(q)
    BY <2>1, <2>4, FullIs
  <2>5. QED
    BY <2>1, <2>2, <2>3, <2>4
<1>4. QED
  BY <1>2, <1>3

-----------------------------------------------------------------------------
(* The client.                                                             *)

\* The client has a ciptr.
Opened == {"open", "unix", "inet", "connected", "again", "interrupted",
           "pending", "refused", "failed"}

\* The two ends of a connection have the same name.
Met ==
  /\ HostAccepted(parsed.host) /\ ~TooLong(parsed.port)
  /\ peer \in ServerPorts /\ ~TooLong(peer)
  /\ \/ Tail(set_sun_path(peer, TRUE)) = Tail(set_sun_path(parsed.port, TRUE))
     \/ set_sun_path(peer, FALSE) = set_sun_path(parsed.port, FALSE)

UInv ==
  /\ address \in Addresses
  /\ pc \in {"start", "null", "parsed"} \union Opened
  /\ pc \in {"parsed"} \union Opened =>
       parsed = ParseAddress(font, address) /\ parsed # Failed
  /\ pc \in Opened => trans = SelectTransport(parsed.protocol)
  /\ pc \in {"unix", "connected"} =>
       trans \in {"local", "unix"} /\ parsed.port # <<>>
  /\ srv # <<>> => srv \in ServerPorts /\ ~TooLong(srv)
  /\ pc = "connected" => Met

\* Whoever is reached has the name that was dialled.
LEMMA ReachesName ==
  ASSUME Reachable, srv # <<>> => srv \in ServerPorts /\ ~TooLong(srv)
  PROVE  /\ srv \in ServerPorts /\ ~TooLong(srv)
         /\ \/ Tail(set_sun_path(srv, TRUE)) =
                 Tail(set_sun_path(parsed.port, TRUE))
            \/ set_sun_path(srv, FALSE) = set_sun_path(parsed.port, FALSE)
<1>1. srv # <<>>
  BY DEF Reachable, ServerNames
<1>2. PICK n \in on :
        SunName(parsed.port, Abstract) = SunName(srv, n = "abstract")
  BY <1>1 DEF Reachable, ServerNames
<1>3. Abstract <=> n = "abstract"
  BY <1>2 DEF SunName
<1>4. (IF Abstract THEN Tail(set_sun_path(parsed.port, TRUE))
                   ELSE set_sun_path(parsed.port, FALSE))
      = (IF n = "abstract" THEN Tail(set_sun_path(srv, TRUE))
                           ELSE set_sun_path(srv, FALSE))
  BY <1>2 DEF SunName
<1>5. QED
  BY <1>1, <1>3, <1>4

\* It holds before the client has done anything.
LEMMA InitUInv == Init => UInv
  BY DEF Init, UInv, Opened

\* Every step of the client, the servers and the peers keeps it.
LEMMA NextUInv == UInv /\ [Next]_vars => UInv'
<1> SUFFICES ASSUME UInv, [Next]_vars PROVE UInv'
  OBVIOUS
<1>1. CASE Parse \/ ParseNoMem
  BY <1>1 DEF Parse, ParseNoMem, UInv, Opened, conn, server
<1>2. CASE Open \/ OpenFails
  BY <1>2 DEF Open, OpenFails, UInv, Opened, conn, server
<1>3. CASE Connect \/ ConnectNoMem
  BY <1>3 DEF Connect, ConnectNoMem, UInv, Opened, conn, server
<1>4. CASE HostRefused \/ LookupFails \/ PathTooLong
  BY <1>4 DEF HostRefused, LookupFails, PathTooLong, UInv, Opened, conn, server
<1>5. CASE Connected
  <2>1. /\ HostAccepted(parsed.host) /\ ~TooLong(parsed.port) /\ pc = "unix"
        /\ Reachable /\ pc' = "connected" /\ peer' = srv
        /\ UNCHANGED <<font, address, parsed, trans, abstract, server>>
    BY <1>5 DEF Connected, Dials
  <2>2. Met'
    BY <2>1, ReachesName DEF UInv, Met
  <2>3. QED
    BY <2>1, <2>2 DEF UInv, Opened, server
<1>6. CASE ConnectedNoMem \/ Refused \/ ConnectErrs
  BY <1>6 DEF ConnectedNoMem, Refused, ConnectErrs, Dials, UInv, Opened, conn,
              server
<1>7. CASE Close \/ Redial
  BY <1>7 DEF Close, Redial, UInv, Opened, conn, server
<1>8. CASE Elsewhere \/ UNCHANGED vars
  BY <1>8 DEF Elsewhere, UInv, Met, vars, conn, server
<1>9. CASE \E port \in ServerPorts, names \in SUBSET {"abstract", "file"} :
             ServerStart(port, names)
  BY <1>9 DEF ServerStart, UInv, Met, conn
<1>10. CASE ServerStop
  BY <1>10 DEF ServerStop, UInv, Met, conn
<1>11. QED
  BY <1>1, <1>2, <1>3, <1>4, <1>5, <1>6, <1>7, <1>8, <1>9, <1>10
     DEF Next, Client, Mishap

\* The invariant of the client: what Connect uses is what ParseAddress makes of
\* the address, and a connection is one to a server under the name dialled.
THEOREM UInvHolds == Spec => []UInv
  BY InitUInv, NextUInv, PTL DEF Spec

\* The host and the port of a reading of the address, as HostPart has them.
LEMMA ParsedReading ==
  ASSUME address \in Seq(Tokens), parsed = ParseAddress(font, address),
         parsed # Failed
  PROVE  \E k \in Places \union {0}, m, n \in Places :
           /\ Reading(k, m, n)
           /\ Part(k + 1, m - 1) \in Seq(Tokens)
           /\ parsed.port = Part(m + 1, n) /\ parsed.port \in Seq(Tokens)
           /\ [protocol |-> parsed.protocol, host |-> parsed.host] =
                HostPart(ProtocolOf(address, k, m), Part(k + 1, m - 1))
<1>1. PICK k \in 0 .. Len(address), m \in 1 .. Len(address),
           n \in 1 .. Len(address) : Shape(font, address, k, m, n)
  BY HasShape
<1> DEFINE p == ProtocolOf(address, k, m)
           h == SubSeq(address, k + 1, m - 1)
           q == SubSeq(address, m + 1, n)
<1>2. parsed = [protocol |-> HostPart(p, h).protocol,
                host |-> HostPart(p, h).host, port |-> q]
  BY <1>1, ShapeParses
<1>3. h \in Seq(Tokens) /\ q \in Seq(Tokens)
  BY <1>1, HostIn, PortIn
<1>4. k \in Places \union {0} /\ m \in Places /\ n \in Places
  BY DEF Places
<1>5. Reading(k, m, n)
  BY <1>1, <1>4, ReadingIs
<1>6. /\ ProtocolOf(address, k, m) = p
      /\ Part(k + 1, m - 1) = h /\ Part(m + 1, n) = q
  BY DEF Part
<1> HIDE DEF p, h, q
<1>7. HostPart(p, h) = [protocol |-> HostPart(p, h).protocol,
                        host |-> HostPart(p, h).host]
  BY <1>3, HostPartIs
<1>8. /\ parsed.port = q
      /\ [protocol |-> parsed.protocol, host |-> parsed.host] = HostPart(p, h)
  BY <1>2, <1>7
<1>9. QED
  BY <1>3, <1>4, <1>5, <1>6, <1>8

\* Where ParseAddress fails there is nothing to read.
LEMMA NoReading ==
  ASSUME address \in Seq(Tokens), ParseAddress(font, address) = Failed,
         NEW k \in Places \union {0}, NEW m \in Places, NEW n \in Places
  PROVE  ~Reading(k, m, n)
<1> SUFFICES ASSUME Reading(k, m, n) PROVE FALSE
  OBVIOUS
<1>1. Shape(font, address, k, m, n)
  BY ReadingIs
<1> DEFINE p == ProtocolOf(address, k, m)
           h == SubSeq(address, k + 1, m - 1)
           q == SubSeq(address, m + 1, n)
<1>2. ParseAddress(font, address) =
        [protocol |-> HostPart(p, h).protocol, host |-> HostPart(p, h).host,
         port |-> q]
  BY <1>1, ShapeParses
<1>3. h \in Seq(Tokens)
  BY <1>1, HostIn
<1> HIDE DEF p, h, q
<1>4. HostPart(p, h).host # <<>>
  BY <1>3, HostPartIs
<1>5. QED
  BY <1>2, <1>4 DEF Failed

-----------------------------------------------------------------------------
(* The properties.                                                         *)

\* ParseAddress takes every address apart at its first '/' and last ':', gives
\* the parts as they are written, but for the name of this host and an IPv6
\* address in brackets, and fails only where there is no such reading.
THEOREM PartsAsWrittenHolds == Spec => []PartsAsWritten
<1>1. ASSUME UInv PROVE PartsAsWritten
  <2>1. address \in Seq(Tokens)
    BY <1>1, UnixAssumption DEF UInv
  <2>2. ASSUME pc = "parsed"
        PROVE  \E k \in Places \union {0}, m, n \in Places :
          LET host == Part(k + 1, m - 1)
              six == {text \in IPv6Texts : host = <<"[">> \o text \o <<"]">>}
          IN /\ Reading(k, m, n)
             /\ parsed.port = Part(m + 1, n)
             /\ \E p \in Protocols(k, m) :
                  IF six # {} /\ p \in {<<"tcp">>, <<"inet6">>}
                    THEN parsed.protocol = <<"inet6">> /\ parsed.host \in six
                    ELSE /\ parsed.protocol = p
                         /\ parsed.host = IF host = <<>> THEN Hostname ELSE host
    <3>1. parsed = ParseAddress(font, address) /\ parsed # Failed
      BY <1>1, <2>2 DEF UInv
    <3>2. PICK k \in Places \union {0}, m \in Places, n \in Places :
            /\ Reading(k, m, n)
            /\ Part(k + 1, m - 1) \in Seq(Tokens)
            /\ parsed.port = Part(m + 1, n)
            /\ [protocol |-> parsed.protocol, host |-> parsed.host] =
                 HostPart(ProtocolOf(address, k, m), Part(k + 1, m - 1))
      BY <2>1, <3>1, ParsedReading
    <3> DEFINE h == Part(k + 1, m - 1)
               p == ProtocolOf(address, k, m)
               six == {text \in IPv6Texts : h = <<"[">> \o text \o <<"]">>}
               hp == HostPart(p, h)
    <3>3. h \in Seq(Tokens) /\ p \in Protocols(k, m)
      BY <3>2 DEF ProtocolOf, Protocols, Part
    <3>4. parsed.protocol = hp.protocol /\ parsed.host = hp.host
      BY <3>2
    <3> HIDE DEF h, p
    <3>5. /\ six # {} <=> Brackets(h)
          /\ Brackets(h) => SubSeq(h, 2, Len(h) - 1) \in six
      BY <3>3, BracketsIs
    <3>6. Brackets(h) => h # <<>>
      BY DEF Brackets
    <3> HIDE DEF six
    <3>7. CASE Brackets(h) /\ p \in {<<"tcp">>, <<"inet6">>}
      <4>1. hp = [protocol |-> <<"inet6">>,
                  host |-> SubSeq(h, 2, Len(h) - 1)]
        BY <3>6, <3>7 DEF HostPart
      <4>2. parsed.protocol = <<"inet6">> /\ parsed.host \in six
        BY <3>4, <3>5, <3>7, <4>1
      <4>3. QED
        BY <3>2, <3>3, <3>5, <3>7, <4>2 DEF h, six
    <3>8. CASE ~(Brackets(h) /\ p \in {<<"tcp">>, <<"inet6">>})
      <4>1. hp = [protocol |-> p,
                  host |-> IF h = <<>> THEN Hostname ELSE h]
        BY <3>8 DEF HostPart
      <4>2. /\ parsed.protocol = p
            /\ parsed.host = IF h = <<>> THEN Hostname ELSE h
        BY <3>4, <4>1
      <4>3. QED
        BY <3>2, <3>3, <3>5, <3>8, <4>2 DEF h, six
    <3>9. QED
      BY <3>7, <3>8
  <2>3. ASSUME ParseAddress(font, address) = Failed,
               NEW k \in Places \union {0}, NEW m \in Places, NEW n \in Places
        PROVE  ~Reading(k, m, n)
    BY <2>1, <2>3, NoReading
  <2>4. QED
    BY <2>2, <2>3 DEF PartsAsWritten
<1>2. QED
  BY <1>1, UInvHolds, PTL

\* What ParseAddress returns, written as an address, parses to itself: Open
\* and Connect, which parse one after the other, agree on either.
THEOREM RebuiltParsesAlikeHolds == Spec => []RebuiltParsesAlike
<1>1. ASSUME UInv PROVE RebuiltParsesAlike
  <2> SUFFICES ASSUME pc \in {"parsed", "open", "unix"}
               PROVE  ParseAddress(font, Rebuilt) = parsed
    BY DEF RebuiltParsesAlike
  <2>1. address \in Seq(Tokens)
    BY <1>1, UnixAssumption DEF UInv
  <2>2. parsed = ParseAddress(font, address) /\ parsed # Failed
    BY <1>1 DEF UInv, Opened
  <2>3. Rebuilt = parsed.protocol \o <<"/">> \o parsed.host \o <<":">>
                    \o parsed.port
    BY DEF Rebuilt
  <2>4. ParseAddress(font, parsed.protocol \o <<"/">> \o parsed.host
                             \o <<":">> \o parsed.port) = parsed
    BY <2>1, <2>2, Rebuilds, Zenon
  <2>5. QED
    BY <2>3, <2>4
<1>2. QED
  BY <1>1, UInvHolds, PTL

\* A UNIX socket is used only for an address whose host means this machine:
\* an IPv6 host in brackets selects another transport, and the host that is
\* filled in for none is this one.
THEOREM OnlyLocalHolds == Spec => []OnlyLocal
<1>1. ASSUME UInv PROVE OnlyLocal
  <2> SUFFICES ASSUME pc = "connected"
               PROVE  \E k \in Places \union {0}, m, n \in Places :
                 LET host == Part(k + 1, m - 1)
                 IN /\ Reading(k, m, n)
                    /\ \/ host = <<>> \/ Head(host) = "/" \/ host = <<"unix">>
                       \/ /\ host \in DOMAIN AddrsOf
                          /\ AddrsOf[host] \intersect AddrsOf[Hostname] # {}
    BY DEF OnlyLocal
  <2>1. address \in Seq(Tokens)
    BY <1>1, UnixAssumption DEF UInv
  <2>2. /\ parsed = ParseAddress(font, address) /\ parsed # Failed
        /\ trans = SelectTransport(parsed.protocol)
        /\ trans \in {"local", "unix"} /\ HostAccepted(parsed.host)
    BY <1>1 DEF UInv, Opened, Met
  <2>3. PICK k \in Places \union {0}, m \in Places, n \in Places :
          /\ Reading(k, m, n)
          /\ Part(k + 1, m - 1) \in Seq(Tokens)
          /\ [protocol |-> parsed.protocol, host |-> parsed.host] =
               HostPart(ProtocolOf(address, k, m), Part(k + 1, m - 1))
    BY <2>1, <2>2, ParsedReading
  <2> DEFINE h == Part(k + 1, m - 1)
             p == ProtocolOf(address, k, m)
             hp == HostPart(p, h)
  <2>4. parsed.protocol = hp.protocol /\ parsed.host = hp.host
    BY <2>3
  <2> HIDE DEF h, p
  <2>5. parsed.protocol # <<"inet6">>
    <3>1. SUFFICES ASSUME parsed.protocol = <<"inet6">> PROVE FALSE
      OBVIOUS
    <3>2. Len(<<"inet6">>) = 1 /\ Head(<<"inet6">>) = "inet6"
      OBVIOUS
    <3>3. "inet6" \in Words => Lower["inet6"] = "inet6"
      BY AddressAssumption DEF TransNames
    <3>4. QED
      BY <2>2, <3>1, <3>2, <3>3 DEF SelectTransport
  <2>6. parsed.host = IF h = <<>> THEN Hostname ELSE h
    BY <2>4, <2>5 DEF HostPart
  <2>7. \/ h = <<>> \/ Head(h) = "/" \/ h = <<"unix">>
        \/ /\ h \in DOMAIN AddrsOf
           /\ AddrsOf[h] \intersect AddrsOf[Hostname] # {}
    <3>1. CASE h = <<>>
      BY <3>1
    <3>2. CASE h = Hostname
      BY <3>2, UnixAssumption
    <3>3. CASE h # <<>> /\ h # Hostname
      BY <2>2, <2>6, <3>3 DEF HostAccepted, ReallyLocal
    <3>4. QED
      BY <3>1, <3>2, <3>3
  <2>8. QED
    BY <2>3, <2>7 DEF h
<1>2. QED
  BY <1>1, UInvHolds, PTL

\* The server at the other end serves the port that was dialled, unless
\* the '@' of an abstract name has pushed its last character out.
THEOREM RightServerHolds == Spec => []RightServer
<1>1. ASSUME UInv PROVE RightServer
  <2> SUFFICES ASSUME pc = "connected"
               PROVE  \/ Full(peer) = Full(parsed.port)
                      \/ CutAlike(peer, parsed.port)
    BY DEF RightServer
  <2>1. address \in Seq(Tokens)
    BY <1>1, UnixAssumption DEF UInv
  <2>2. /\ parsed = ParseAddress(font, address) /\ parsed # Failed
        /\ parsed.port # <<>> /\ Met
    BY <1>1 DEF UInv, Opened
  <2>3. parsed.port \in Seq(Tokens)
    BY <2>1, <2>2, ParsedReading
  <2>4. peer \in Seq(Tokens) /\ peer # <<>>
    BY <2>2, UnixAssumption DEF Met
  <2>5. QED
    BY <2>2, <2>3, <2>4, SameName DEF Met
<1>2. QED
  BY <1>1, UInvHolds, PTL

=============================================================================
