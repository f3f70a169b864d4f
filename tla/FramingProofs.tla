--------------------------- MODULE FramingProofs ---------------------------
(***************************************************************************)
(* Proofs about Framing, for any tasks, message sizes, limits and sockets: *)
(* type correctness, that the reader never loses the frames' boundaries,   *)
(* that a connection implements Pipe, and that one at rest owes nothing.   *)
(***************************************************************************)
EXTENDS Framing, TLAPS, SequenceTheorems

-----------------------------------------------------------------------------
(* Frames *)

\* The parts of a frame are numbered.
LEMMA FrameFacts ==
  ASSUME NEW m \in Msg
  PROVE  /\ Size[m] \in Nat \ {0} /\ Prefix = 2
         /\ Frame(m) \in Seq(Unit) /\ Len(Frame(m)) = Prefix + Size[m]
         /\ \A i \in 1..(Prefix + Size[m]) : Frame(m)[i] = <<m, i>>
         /\ LengthOf(m) \in Seq(Unit) /\ Len(LengthOf(m)) = Prefix
         /\ \A i \in 1..Prefix : LengthOf(m)[i] = <<m, i>>
         /\ BodyOf(m) \in Seq(Unit) /\ Len(BodyOf(m)) = Size[m]
         /\ \A i \in 1..Size[m] : BodyOf(m)[i] = <<m, Prefix + i>>
<1> DEFINE f == Frame(m)
<1>1. Size[m] \in Nat \ {0} /\ Prefix = 2
  BY ConstantsAssumption DEF Prefix
<1>0. PICK z \in Nat \ {0} : z = Size[m]
  BY <1>1
<1>2. /\ f = [i \in 1..(2 + z) |-> <<m, i>>]
      /\ DOMAIN f = 1..(2 + z)
      /\ \A i \in 1..(2 + z) : f[i] = <<m, i>>
  BY <1>0, <1>1 DEF Frame
<1>3. \A i \in 1..(2 + z) : f[i] \in Unit
  <2> TAKE i \in 1..(2 + z)
  <2>1. f[i] \in {Frame(m)[j] : j \in DOMAIN Frame(m)}
    BY <1>2
  <2> QED
    BY <2>1 DEF Unit
<1>4. f \in [1..(2 + z) -> Unit]
  BY <1>2, <1>3
<1>5. f \in Seq(Unit)
  BY <1>4, SeqDef
<1>6. Len(f) = 2 + z
  BY <1>2, <1>5, LenProperties
<1>7. /\ LengthOf(m) \in Seq(Unit) /\ Len(LengthOf(m)) = 2
      /\ \A i \in 1..2 : LengthOf(m)[i] = <<m, i>>
  <2> HIDE DEF f
  <2>1. LengthOf(m) = SubSeq(f, 1, 2)
    BY <1>1 DEF LengthOf, f
  <2>2. \A i \in 1..2 : f[i] \in Unit /\ f[i] = <<m, i>>
    BY <1>2, <1>3
  <2>3. /\ SubSeq(f, 1, 2) \in Seq(Unit)
        /\ Len(SubSeq(f, 1, 2)) = IF 1 <= 2 THEN 2 - 1 + 1 ELSE 0
        /\ \A i \in 1..(2 - 1 + 1) : SubSeq(f, 1, 2)[i] = f[1 + i - 1]
    BY <2>2, SubSeqProperties
  <2> QED
    BY <2>1, <2>2, <2>3
<1>8. /\ BodyOf(m) \in Seq(Unit) /\ Len(BodyOf(m)) = z
      /\ \A i \in 1..z : BodyOf(m)[i] = <<m, 2 + i>>
  <2> HIDE DEF f
  <2>1. BodyOf(m) = SubSeq(f, 3, 2 + z)
    BY <1>0, <1>1 DEF BodyOf, f
  <2>2. \A i \in 3..(2 + z) : f[i] \in Unit /\ f[i] = <<m, i>>
    BY <1>2, <1>3
  <2>3. /\ SubSeq(f, 3, 2 + z) \in Seq(Unit)
        /\ Len(SubSeq(f, 3, 2 + z)) = IF 3 <= 2 + z THEN (2 + z) - 3 + 1 ELSE 0
        /\ \A i \in 1..((2 + z) - 3 + 1) : SubSeq(f, 3, 2 + z)[i] = f[3 + i - 1]
    BY <2>2, SubSeqProperties
  <2>4. (2 + z) - 3 + 1 = z /\ 3 <= 2 + z
    OBVIOUS
  <2>5. \A i \in 1..z : 3 + i - 1 \in 3..(2 + z) /\ 3 + i - 1 = 2 + i
    OBVIOUS
  <2> QED
    BY <2>1, <2>2, <2>3, <2>4, <2>5
<1> QED
  BY <1>0, <1>1, <1>2, <1>5, <1>6, <1>7, <1>8

\* The end of a sequence is a sequence, and so is its beginning.
LEMMA PartFacts ==
  ASSUME NEW s \in Seq(Unit), NEW n \in 0..Len(s)
  PROVE  /\ SubSeq(s, 1, n) \in Seq(Unit) /\ Len(SubSeq(s, 1, n)) = n
         /\ \A i \in 1..n : SubSeq(s, 1, n)[i] = s[i]
         /\ SubSeq(s, n + 1, Len(s)) \in Seq(Unit)
         /\ Len(SubSeq(s, n + 1, Len(s))) = Len(s) - n
         /\ SubSeq(s, 1, n) \o SubSeq(s, n + 1, Len(s)) = s
<1>1. /\ Len(s) \in Nat /\ \A i \in 1..Len(s) : s[i] \in Unit
      /\ n \in Nat /\ n <= Len(s)
  BY ElementOfSeq, LenProperties
<1>0. PICK l \in Nat : l = Len(s)
  BY <1>1
<1>2. /\ SubSeq(s, 1, n) \in Seq(Unit) /\ Len(SubSeq(s, 1, n)) = n
      /\ \A i \in 1..n : SubSeq(s, 1, n)[i] = s[i]
  <2>1. \A i \in 1..n : s[i] \in Unit
    BY <1>1
  <2>2. /\ SubSeq(s, 1, n) \in Seq(Unit)
        /\ Len(SubSeq(s, 1, n)) = IF 1 <= n THEN n - 1 + 1 ELSE 0
        /\ \A i \in 1..(n - 1 + 1) : SubSeq(s, 1, n)[i] = s[1 + i - 1]
    BY <1>1, <2>1, SubSeqProperties
  <2>3. /\ (IF 1 <= n THEN n - 1 + 1 ELSE 0) = n /\ n - 1 + 1 = n
        /\ \A i \in 1..n : 1 + i - 1 = i
    BY <1>1
  <2> QED
    BY <2>2, <2>3
<1>3. /\ SubSeq(s, n + 1, l) \in Seq(Unit)
      /\ Len(SubSeq(s, n + 1, l)) = l - n
  <2>1. n + 1 \in Int /\ \A i \in (n + 1)..l : s[i] \in Unit
    BY <1>0, <1>1
  <2>2. /\ SubSeq(s, n + 1, l) \in Seq(Unit)
        /\ Len(SubSeq(s, n + 1, l)) = IF n + 1 <= l THEN l - (n + 1) + 1 ELSE 0
    BY <1>1, <2>1, SubSeqProperties
  <2>3. (IF n + 1 <= l THEN l - (n + 1) + 1 ELSE 0) = l - n
    BY <1>0, <1>1
  <2> QED
    BY <2>2, <2>3
<1>4. SubSeq(s, 1, n) \o SubSeq(s, n + 1, l) = s
  <2>1. /\ 1 \in 1..(Len(s) + 1) /\ n \in (1 - 1)..Len(s) /\ Len(s) \in n..Len(s)
    BY <1>1
  <2>2. SubSeq(s, 1, n) \o SubSeq(s, n + 1, Len(s)) = SubSeq(s, 1, Len(s))
    BY <2>1, ConcatAdjacentSubSeq
  <2> QED
    BY <1>0, <2>2, SubSeqFull
<1> QED
  BY <1>0, <1>2, <1>3, <1>4

-----------------------------------------------------------------------------
(* The layout of what is under way *)

\* Frame p begins behind place b[p] of the y units s: the places follow from the
\* sizes, and the parts of frames are where they belong.  Frames up to g were
\* read, and l were begun.
Laid(b, s, y, lg, l, g) ==
  /\ \A p \in (g + 1)..l : /\ b[p + 1] = b[p] + Prefix + Size[lg[p]]
                           /\ b[p + 1] <= b[l + 1]
  /\ \A p \in (g + 1)..l : \A i \in 1..(Prefix + Size[lg[p]]) :
       b[p] + i \in 1..y => s[b[p] + i] = <<lg[p], i>>
  /\ y <= b[l + 1]

\* The places, n units on.
Back(b, n) == [p \in Nat |-> b[p] - n]

\* Reading takes n units from the front.
LEMMA LaidShift ==
  ASSUME NEW b \in [Nat -> Int], NEW lg, NEW l \in Nat, NEW g \in Nat,
         NEW s, NEW y \in Nat, NEW t, NEW n \in Nat, NEW x \in Nat,
         NEW h \in Nat
  PROVE  /\ \A p \in 1..l : lg[p] \in Msg
         /\ x + n = y
         /\ \A k \in 1..x : t[k] = s[k + n]
         /\ Laid(b, s, y, lg, l, g)
         /\ h = g \/ h = g + 1
         => Laid(Back(b, n), t, x, lg, l, h)
<1>1. ASSUME \A p \in 1..l : lg[p] \in Msg,
             x + n = y,
             \A k \in 1..x : t[k] = s[k + n],
             Laid(b, s, y, lg, l, g),
             h = g \/ h = g + 1
      PROVE  Laid(Back(b, n), t, x, lg, l, h)
  <2>1. PICK d \in [Nat -> Int] : d = Back(b, n)
    <3>1. \A p \in Nat : b[p] - n \in Int
      OBVIOUS
    <3>2. Back(b, n) \in [Nat -> Int]
      BY <3>1 DEF Back
    <3> QED
      BY <3>2
  <2>2. \A p \in Nat : d[p] = b[p] - n
    BY <2>1 DEF Back
  <2>3. ASSUME NEW p \in (h + 1)..l
        PROVE  /\ d[p + 1] = d[p] + Prefix + Size[lg[p]]
               /\ d[p + 1] <= d[l + 1]
               /\ \A i \in 1..(Prefix + Size[lg[p]]) :
                    d[p] + i \in 1..x => t[d[p] + i] = <<lg[p], i>>
    <3>1. p \in (g + 1)..l /\ p \in Nat /\ p + 1 \in Nat /\ p \in 1..l
      BY <1>1
    <3>2. PICK z \in Nat : z = Size[lg[p]]
      BY <1>1, <3>1, FrameFacts
    <3>3. /\ b[p + 1] = b[p] + 2 + z /\ b[p + 1] <= b[l + 1]
          /\ \A i \in 1..(2 + z) : b[p] + i \in 1..y => s[b[p] + i] = <<lg[p], i>>
      BY <1>1, <3>1, <3>2 DEF Laid, Prefix
    <3>4. PICK u \in Int, v \in Int, w \in Int :
                 u = b[p] /\ v = b[p + 1] /\ w = b[l + 1]
      BY <3>1
    <3>5. d[p] = u - n /\ d[p + 1] = v - n /\ d[l + 1] = w - n
      BY <2>2, <3>1, <3>4
    <3>6. v = u + 2 + z /\ v <= w
      BY <3>3, <3>4
    <3>7. v - n = (u - n) + 2 + z /\ v - n <= w - n
      BY <3>6
    <3>8. ASSUME NEW i \in 1..(2 + z), (u - n) + i \in 1..x
          PROVE  t[(u - n) + i] = <<lg[p], i>>
      <4>1. ((u - n) + i) + n = u + i /\ u + i \in 1..y
        BY <1>1, <3>8
      <4>2. t[(u - n) + i] = s[((u - n) + i) + n]
        BY <1>1, <3>8
      <4>3. s[u + i] = <<lg[p], i>>
        BY <3>3, <3>4, <4>1
      <4> QED
        BY <4>1, <4>2, <4>3
    <3>9. Prefix + Size[lg[p]] = 2 + z /\ d[p + 1] = d[p] + Prefix + Size[lg[p]]
      BY <3>2, <3>5, <3>7 DEF Prefix
    <3> QED
      BY <3>5, <3>7, <3>8, <3>9
  <2>4. x <= d[l + 1]
    <3>1. PICK w \in Int : w = b[l + 1]
      OBVIOUS
    <3>2. y <= w
      BY <1>1, <3>1 DEF Laid
    <3>3. x <= w - n
      BY <1>1, <3>2
    <3> QED
      BY <2>2, <3>1, <3>3
  <2>5. Laid(d, t, x, lg, l, h)
    BY <2>3, <2>4 DEF Laid
  <2> QED
    BY <2>1, <2>5
<1> QED
  BY <1>1

\* Nothing changes when the end is lost.
LEMMA LaidPart ==
  ASSUME NEW b \in [Nat -> Int], NEW lg, NEW l \in Nat, NEW g \in Nat,
         NEW s, NEW y \in Nat, NEW t, NEW n \in 0..y
  PROVE  /\ \A k \in 1..n : t[k] = s[k]
         /\ Laid(b, s, y, lg, l, g)
         => Laid(b, t, n, lg, l, g)
<1>1. ASSUME \A k \in 1..n : t[k] = s[k], Laid(b, s, y, lg, l, g)
      PROVE  Laid(b, t, n, lg, l, g)
  <2>1. \A k \in 1..n : k \in 1..y
    OBVIOUS
  <2>2. n <= b[l + 1]
    <3>1. PICK w \in Int : w = b[l + 1]
      OBVIOUS
    <3>2. y <= w
      BY <1>1, <3>1 DEF Laid
    <3> QED
      BY <3>1, <3>2
  <2> QED
    BY <1>1, <2>1, <2>2 DEF Laid
<1> QED
  BY <1>1

\* A frame of z units of body is put behind what is under way, or lost with the
\* connection.
LEMMA LaidAppend ==
  ASSUME NEW b \in [Nat -> Int], NEW lg, NEW l \in Nat, NEW g \in 0..l,
         NEW s, NEW y \in Nat, NEW t, NEW k, NEW m, NEW z \in Nat, NEW e \in Nat
  PROVE  /\ \A p \in 1..l : lg[p] \in Msg /\ k[p] = lg[p]
         /\ k[l + 1] = m /\ Size[m] = z
         /\ \A i \in 1..y : t[i] = s[i]
         /\ \/ e = y
            \/ /\ e = y + 2 + z /\ y = b[l + 1]
               /\ \A i \in 1..(2 + z) : t[y + i] = <<m, i>>
         /\ Laid(b, s, y, lg, l, g)
         => Laid([b EXCEPT ![l + 2] = b[l + 1] + 2 + z], t, e, k, l + 1, g)
<1>1. ASSUME \A p \in 1..l : lg[p] \in Msg /\ k[p] = lg[p],
             k[l + 1] = m, Size[m] = z,
             \A i \in 1..y : t[i] = s[i],
             \/ e = y
             \/ /\ e = y + 2 + z /\ y = b[l + 1]
                /\ \A i \in 1..(2 + z) : t[y + i] = <<m, i>>,
             Laid(b, s, y, lg, l, g)
      PROVE  Laid([b EXCEPT ![l + 2] = b[l + 1] + 2 + z], t, e, k, l + 1, g)
  <2>1. PICK x \in Int : x = b[l + 1]
    OBVIOUS
  <2>2. PICK d \in [Nat -> Int] : d = [b EXCEPT ![l + 2] = b[l + 1] + 2 + z]
    <3>1. l + 2 \in Nat /\ b[l + 1] + 2 + z \in Int
      OBVIOUS
    <3> QED
      BY <3>1
  <2>3. /\ d[l + 2] = x + 2 + z
        /\ \A p \in Nat : p # l + 2 => d[p] = b[p]
    BY <2>1, <2>2
  <2>4. y <= x
    BY <1>1, <2>1 DEF Laid
  <2>5. \/ e = y
        \/ e = x + 2 + z /\ y = x /\ \A i \in 1..(2 + z) : t[x + i] = <<m, i>>
    BY <1>1, <2>1
  <2>6. ASSUME NEW p \in (g + 1)..(l + 1)
        PROVE  /\ d[p + 1] = d[p] + Prefix + Size[k[p]]
               /\ d[p + 1] <= d[l + 2]
               /\ \A i \in 1..(Prefix + Size[k[p]]) :
                    d[p] + i \in 1..e => t[d[p] + i] = <<k[p], i>>
    <3>1. CASE p = l + 1
      <4>1. d[p] = x /\ p + 1 = l + 2 /\ k[p] = m
        BY <1>1, <2>1, <2>3, <3>1
      <4>2. d[p + 1] = x + 2 + z /\ d[l + 2] = x + 2 + z
        BY <2>3, <4>1
      <4>3. Prefix + Size[k[p]] = 2 + z
        BY <1>1, <4>1 DEF Prefix
      <4>4. x + Prefix + Size[k[p]] = x + 2 + z
        BY <1>1, <4>1 DEF Prefix
      <4>5. ASSUME NEW i \in 1..(2 + z), x + i \in 1..e
            PROVE  t[x + i] = <<m, i>>
        <5>1. CASE e = y
          BY <2>4, <4>5, <5>1
        <5>2. CASE \A j \in 1..(2 + z) : t[x + j] = <<m, j>>
          BY <5>2
        <5> QED
          BY <2>5, <5>1, <5>2
      <4> QED
        BY <4>1, <4>2, <4>3, <4>4, <4>5
    <3>2. CASE p # l + 1
      <4>1. /\ p \in (g + 1)..l /\ p \in 1..l /\ p \in Nat /\ p + 1 \in Nat
            /\ p # l + 2 /\ p + 1 # l + 2
        BY <3>2
      <4>2. PICK c \in Nat, u \in Int, v \in Int :
                   c = Size[lg[p]] /\ u = b[p] /\ v = b[p + 1]
        BY <1>1, <4>1, FrameFacts
      <4>3. d[p] = u /\ d[p + 1] = v /\ k[p] = lg[p] /\ Size[k[p]] = c
        BY <1>1, <2>3, <4>1, <4>2
      <4>4. /\ v = u + 2 + c /\ v <= x
            /\ \A i \in 1..(2 + c) : u + i \in 1..y => s[u + i] = <<lg[p], i>>
        BY <1>1, <2>1, <4>1, <4>2 DEF Laid, Prefix
      <4>5. v <= x + 2 + z
        BY <4>4
      <4>6. ASSUME NEW i \in 1..(2 + c), u + i \in 1..e
            PROVE  t[u + i] = <<lg[p], i>>
        <5>1. u + i <= x
          BY <4>4
        <5>2. u + i \in 1..y
          BY <2>5, <4>6, <5>1
        <5> QED
          BY <1>1, <4>4, <5>2
      <4>7. Prefix + Size[k[p]] = 2 + c /\ u + Prefix + Size[k[p]] = u + 2 + c
        BY <4>3 DEF Prefix
      <4> QED
        BY <2>3, <4>3, <4>4, <4>5, <4>6, <4>7
    <3> QED
      BY <3>1, <3>2
  <2>7. e <= d[l + 2]
    <3>1. e <= x + 2 + z
      BY <2>4, <2>5
    <3> QED
      BY <2>3, <3>1
  <2>8. (l + 1) + 1 = l + 2
    OBVIOUS
  <2>9. Laid(d, t, e, k, l + 1, g)
    BY <2>6, <2>7, <2>8 DEF Laid
  <2> QED
    BY <2>2, <2>9
<1> QED
  BY <1>1

\* The unit in front belongs to the frame after those that were read.
InFront(b, s, y, lg, l, g) ==
  /\ y > 0 => g < l
  /\ g < l => /\ b[g + 2] = b[g + 1] + 2 + Size[lg[g + 1]]
              /\ \A i \in 1..y : i <= b[g + 2] =>
                   s[i] = <<lg[g + 1], i - b[g + 1]>>

\* The layout says so.
LEMMA LaidFirst ==
  ASSUME NEW b \in [Nat -> Int], NEW lg, NEW l \in Nat, NEW g \in Nat,
         NEW s, NEW y \in Nat
  PROVE  /\ g <= l
         /\ \A p \in 1..l : lg[p] \in Msg
         /\ b[g + 1] = 0 \/ b[g + 1] = 0 - 2
         /\ Laid(b, s, y, lg, l, g)
         => InFront(b, s, y, lg, l, g)
<1>1. ASSUME g <= l,
             \A p \in 1..l : lg[p] \in Msg, b[g + 1] = 0 \/ b[g + 1] = 0 - 2,
             Laid(b, s, y, lg, l, g)
      PROVE  InFront(b, s, y, lg, l, g)
  <2>1. y > 0 => g < l
    <3>1. y <= b[l + 1]
      BY <1>1 DEF Laid
    <3> QED
      BY <1>1, <3>1
  <2>2. ASSUME g < l
        PROVE  /\ b[g + 2] = b[g + 1] + 2 + Size[lg[g + 1]]
               /\ \A i \in 1..y : i <= b[g + 2] =>
                    s[i] = <<lg[g + 1], i - b[g + 1]>>
    <3>1. g + 1 \in (g + 1)..l /\ g + 1 \in 1..l /\ (g + 1) + 1 = g + 2
      BY <2>2
    <3>2. PICK c \in Nat : c = Size[lg[g + 1]]
      BY <1>1, <3>1, FrameFacts
    <3>3. PICK w \in Int, v \in Int : w = b[g + 1] /\ v = b[g + 2]
      OBVIOUS
    <3>4. /\ v = w + 2 + c
          /\ \A i \in 1..(2 + c) : w + i \in 1..y => s[w + i] = <<lg[g + 1], i>>
      BY <1>1, <3>1, <3>2, <3>3 DEF Laid, Prefix
    <3>5. ASSUME NEW i \in 1..y, i <= v
          PROVE  s[i] = <<lg[g + 1], i - w>>
      <4>1. i - w \in 1..(2 + c) /\ w + (i - w) = i
        BY <1>1, <3>3, <3>4, <3>5
      <4> QED
        BY <3>4, <4>1
    <3> QED
      BY <3>2, <3>3, <3>4, <3>5
  <2> QED
    BY <2>1, <2>2 DEF InFront
<1> QED
  BY <1>1

-----------------------------------------------------------------------------
(* Types *)

\* The length of a frame is one of the lengths its units stand for, and none is
\* zero.
LEMMA LengthsArePositive == ConstantsAssumption => Lengths \subseteq Nat \ {0}
<1> SUFFICES ASSUME ConstantsAssumption, NEW n \in Lengths
             PROVE  n \in Nat \ {0}
  OBVIOUS
<1>1. \A m \in Msg : Size[m] \in Nat \ {0}
  BY DEF ConstantsAssumption
<1>2. CASE \E m \in Msg : buf = LengthOf(m)
  BY <1>1, <1>2 DEF Lengths
<1>3. CASE ~\E m \in Msg : buf = LengthOf(m)
  BY <1>3 DEF Lengths, ConstantsAssumption
<1> QED
  BY <1>2, <1>3

\* No step leaves the types.
LEMMA FramingTypedStep == TypeOK /\ [Next]_vars => TypeOK'
<1> SUFFICES ASSUME TypeOK, [Next]_vars PROVE TypeOK'
  OBVIOUS
<1> USE ConstantsAssumption DEF Prefix
<1>1. ASSUME NEW t \in Task, NEW m \in Msg, Call(t, m) PROVE TypeOK'
  BY <1>1 DEF TypeOK, Call, reading
<1>2. ASSUME NEW t \in Task, Lock(t) PROVE TypeOK'
  <2>1. sending[t] \in Msg
    BY <1>2 DEF TypeOK, Lock
  <2>2. Frame(sending[t]) \in Seq(Unit)
    BY <2>1, FrameFacts
  <2>3. mutex' \in Task \cup {None} /\ left' \in [Task -> Seq(Unit)]
    BY <1>2, <2>2 DEF TypeOK, Lock
  <2>4. log' \in Seq(Msg)
    BY <1>2, <2>1, AppendProperties DEF TypeOK, Lock
  <2> QED
    BY <1>2, <2>3, <2>4 DEF TypeOK, Lock, reading
<1>3. ASSUME NEW t \in Task, WriteSome(t) PROVE TypeOK'
  <2>1. PICK n \in 1..Cap :
          /\ n <= Len(left[t])
          /\ Len(stream) + n <= Cap
          /\ stream' = stream \o SubSeq(left[t], 1, n)
          /\ left' = [left EXCEPT ![t] = SubSeq(@, n + 1, Len(@))]
    BY <1>3 DEF WriteSome
  <2>2. left[t] \in Seq(Unit) /\ n \in 0..Len(left[t])
    BY <2>1, LenProperties DEF TypeOK
  <2>3. /\ SubSeq(left[t], 1, n) \in Seq(Unit) /\ Len(SubSeq(left[t], 1, n)) = n
        /\ SubSeq(left[t], n + 1, Len(left[t])) \in Seq(Unit)
    BY <2>2, PartFacts
  <2>4. stream' \in Seq(Unit) /\ Len(stream') <= Cap
    <3>1. stream' \in Seq(Unit) /\ Len(stream') = Len(stream) + n
      BY <2>1, <2>3, ConcatProperties DEF TypeOK
    <3> QED
      BY <2>1, <3>1
  <2>5. left' \in [Task -> Seq(Unit)]
    BY <2>1, <2>3 DEF TypeOK
  <2> QED
    BY <1>3, <2>4, <2>5 DEF TypeOK, WriteSome, reading
<1>4. ASSUME NEW t \in Task, Return(t) PROVE TypeOK'
  <2>1. left' \in [Task -> Seq(Unit)] /\ sending' \in [Task -> Msg \cup {None}]
    BY <1>4, EmptySeq DEF TypeOK, Return
  <2> QED
    BY <1>4, <2>1 DEF TypeOK, Return, Released, reading
<1>5. CASE Cut
  <2>1. PICK n \in 0..Len(stream) : stream' = SubSeq(stream, 1, n)
    BY <1>5 DEF Cut
  <2>2. stream' \in Seq(Unit) /\ Len(stream') = n
    BY <2>1, PartFacts DEF TypeOK
  <2>3. Len(stream') <= Cap
    BY <2>2, LenProperties DEF TypeOK
  <2> QED
    BY <1>5, <2>2, <2>3 DEF TypeOK, Cut, writing, reading
<1>6. CASE ReadSome
  <2>1. PICK n \in 1..Len(stream) :
          /\ Len(buf) + n <= want
          /\ buf' = buf \o SubSeq(stream, 1, n)
          /\ stream' = SubSeq(stream, n + 1, Len(stream))
    BY <1>6 DEF ReadSome
  <2>2. stream \in Seq(Unit) /\ n \in 0..Len(stream)
    BY LenProperties DEF TypeOK
  <2>3. /\ SubSeq(stream, 1, n) \in Seq(Unit) /\ Len(SubSeq(stream, 1, n)) = n
        /\ stream' \in Seq(Unit) /\ Len(stream') = Len(stream) - n
    BY <2>1, <2>2, PartFacts
  <2>4. Len(stream') <= Cap
    BY <2>2, <2>3, LenProperties DEF TypeOK
  <2>5. buf' \in Seq(Unit) /\ Len(buf') = Len(buf) + n
    BY <2>1, <2>3, ConcatProperties DEF TypeOK
  <2>6. Len(buf') <= want
    BY <2>1, <2>5
  <2> QED
    BY <1>6, <2>3, <2>4, <2>5, <2>6 DEF TypeOK, ReadSome, writing
<1>7. CASE ReadLength
  <2>1. PICK n \in Lengths :
          IF TooLarge(n) THEN Fail ELSE Await("body", n) /\ UNCHANGED got
    BY <1>7 DEF ReadLength
  <2>2. n \in Nat \ {0}
    BY LengthsArePositive
  <2>3. /\ reader' \in {"length", "body", "failed"}
        /\ want' \in 1..(IF reader' = "body" THEN Limit ELSE Prefix)
        /\ buf' = <<>> /\ got' = got
    <3>1. CASE TooLarge(n)
      BY <2>1, <3>1 DEF Fail, Await
    <3>2. CASE ~TooLarge(n)
      BY <2>1, <2>2, <3>2 DEF Await, TooLarge
    <3> QED
      BY <3>1, <3>2
  <2>4. buf' \in Seq(Unit) /\ Len(buf') = 0
    BY <2>3, EmptySeq
  <2>5. Len(buf') <= want'
    BY <2>3, <2>4
  <2> QED
    BY <1>7, <2>3, <2>4, <2>5 DEF TypeOK, ReadLength, writing
<1>8. CASE ReadBody
  <2>1. /\ reader' \in {"length", "failed"} /\ want' = Prefix /\ buf' = <<>>
        /\ got' \in Seq(Msg)
    <3>1. CASE Fail
      BY <3>1 DEF Fail, Await, TypeOK
    <3>2. CASE \E m \in Msg : got' = Append(got, m) /\ Await("length", Prefix)
      BY <3>2, AppendProperties DEF Await, TypeOK
    <3> QED
      BY <1>8, <3>1, <3>2 DEF ReadBody
  <2>2. buf' \in Seq(Unit) /\ Len(buf') = 0
    BY <2>1, EmptySeq
  <2> QED
    BY <1>8, <2>1, <2>2 DEF TypeOK, ReadBody, writing
<1>9. CASE ReadEnd
  <2>1. reader' = "failed" /\ want' = Prefix /\ buf' = <<>> /\ got' = got
    BY <1>9 DEF ReadEnd, Fail, Await
  <2>2. buf' \in Seq(Unit) /\ Len(buf') = 0
    BY <2>1, EmptySeq
  <2> QED
    BY <1>9, <2>1, <2>2 DEF TypeOK, ReadEnd, writing
<1>10. CASE UNCHANGED vars
  BY <1>10 DEF TypeOK, vars, writing, reading
<1> QED
  BY <1>1, <1>2, <1>3, <1>4, <1>5, <1>6, <1>7, <1>8, <1>9, <1>10
  DEF Next, Receive

\* Nothing is under way yet.
LEMMA FramingTypedInit == Init => TypeOK
<1> SUFFICES ASSUME Init PROVE TypeOK
  OBVIOUS
<1>1. <<>> \in Seq(Unit) /\ <<>> \in Seq(Msg) /\ Len(<<>>) = 0
  BY EmptySeq
<1>2. 0 <= Cap /\ 0 <= Prefix /\ Prefix \in 1..Prefix
  BY ConstantsAssumption DEF Prefix
<1>3. left \in [Task -> Seq(Unit)] /\ sending \in [Task -> Msg \cup {None}]
  BY <1>1 DEF Init
<1> QED
  BY <1>1, <1>2, <1>3 DEF Init, TypeOK

\* The buffers of both ends stay within their bounds: the socket, and what
\* recv_message allocates.
THEOREM FramingTyped == Spec => []TypeOK
  BY FramingTypedInit, FramingTypedStep, PTL DEF Spec

-----------------------------------------------------------------------------
(* The invariant *)

\* What the task that holds the write half has still to write; a cut connection
\* takes nothing more.
Rest == IF cut \/ mutex = None THEN <<>> ELSE left[mutex]

\* What is under way to recv_message.
Flow == buf \o (stream \o Rest)

\* Only the task that holds the write half is within a frame.
LockInv == \A t \in Task : left[t] # <<>> => mutex = t

\* The units of the next frame that recv_message has put aside: its length.
Taken == IF reader = "body" THEN 2 ELSE 0

\* b says where the frames of the messages in log begin in what is under way.
Placed(b) ==
  /\ Laid(b, Flow, Len(Flow), log, Len(log), Len(got))
  /\ b[Len(got) + 1] = 0 - Taken
  /\ ~cut => Len(Flow) = b[Len(log) + 1]

Awaited ==
  /\ reader = "length" => want = Prefix
  /\ reader = "body" => /\ Len(got) < Len(log)
                        /\ want = Size[log[Len(got) + 1]]

FlowInv ==
  /\ Len(got) <= Len(log)
  /\ reader # "failed" => Awaited /\ \E b \in [Nat -> Int] : Placed(b)

FramingInv == TypeOK /\ LockInv /\ FlowInv /\ StaysInStep

\* What is under way is what has come, what is in the socket and what is still
\* to be written.
LEMMA FlowFacts ==
  ASSUME NEW x \in Seq(Unit), NEW s \in Seq(Unit), NEW r \in Seq(Unit)
  PROVE  /\ x \o (s \o r) \in Seq(Unit)
         /\ Len(x \o (s \o r)) = Len(x) + Len(s) + Len(r)
         /\ \A i \in 1..Len(x) : (x \o (s \o r))[i] = x[i]
         /\ \A i \in 1..(Len(s) + Len(r)) :
              (s \o r)[i] = (x \o (s \o r))[i + Len(x)]
<1>1. PICK c \in Seq(Unit) : c = s \o r
  BY ConcatProperties
<1>2. PICK i \in Nat, j \in Nat, k \in Nat : i = Len(x) /\ j = Len(s) /\ k = Len(r)
  BY LenProperties
<1>3. Len(c) = j + k
  BY <1>1, <1>2, ConcatProperties
<1>4. /\ x \o c \in Seq(Unit) /\ Len(x \o c) = i + (j + k)
      /\ \A p \in 1..(i + (j + k)) : (x \o c)[p] = IF p <= i THEN x[p] ELSE c[p - i]
  <2>1. c \in Seq(Unit) /\ x \in Seq(Unit)
    BY <1>1
  <2>2. /\ x \o c \in Seq(Unit) /\ Len(x \o c) = Len(x) + Len(c)
        /\ \A p \in 1..(Len(x) + Len(c)) :
             (x \o c)[p] = IF p <= Len(x) THEN x[p] ELSE c[p - Len(x)]
    BY <2>1, ConcatProperties
  <2> QED
    BY <1>2, <1>3, <2>2
<1>5. /\ i + (j + k) = i + j + k
      /\ \A p \in 1..i : p \in 1..(i + (j + k)) /\ p <= i
      /\ \A p \in 1..(j + k) : /\ p + i \in 1..(i + (j + k)) /\ ~(p + i <= i)
                               /\ (p + i) - i = p
  OBVIOUS
<1> QED
  BY <1>1, <1>2, <1>4, <1>5

\* It does not matter where what is under way is divided.
LEMMA Associates ==
  \A x, y, z \in Seq(Unit) : (x \o y) \o z = x \o (y \o z)
<1> TAKE x, y, z \in Seq(Unit)
<1> QED
  BY ConcatAssociative

\* What is still to be written is part of a frame.
LEMMA RestTyped == TypeOK => Rest \in Seq(Unit)
  BY EmptySeq DEF TypeOK, Rest

\* Steps that leave what is under way and where the reader is as they are.
LEMMA FlowKept ==
  FlowInv /\ Flow' = Flow /\ UNCHANGED <<cut, log, got, reader, want>> => FlowInv'
<1> SUFFICES ASSUME FlowInv, Flow' = Flow, UNCHANGED <<cut, log, got, reader, want>>
             PROVE  FlowInv'
  OBVIOUS
<1>1. Awaited => Awaited'
  BY DEF Awaited
<1>2. ASSUME NEW b \in [Nat -> Int], Placed(b) PROVE Placed(b)'
  BY <1>2 DEF Placed, Laid, Taken
<1> QED
  BY <1>1, <1>2 DEF FlowInv

\* Writing moves units of a frame into the socket.
LEMMA WriteKeepsFlow ==
  ASSUME NEW t \in Task
  PROVE  TypeOK /\ LockInv /\ WriteSome(t) => Flow' = Flow
<1> SUFFICES ASSUME TypeOK, LockInv, WriteSome(t) PROVE Flow' = Flow
  OBVIOUS
<1>1. PICK n \in 1..Cap :
        /\ left[t] # <<>> /\ ~cut
        /\ n <= Len(left[t])
        /\ stream' = stream \o SubSeq(left[t], 1, n)
        /\ left' = [left EXCEPT ![t] = SubSeq(@, n + 1, Len(@))]
        /\ UNCHANGED <<mutex, cut, buf>>
  BY DEF WriteSome, reading
<1>2. mutex = t /\ t # None
  BY <1>1, ConstantsAssumption DEF LockInv
<1> DEFINE p == SubSeq(left[t], 1, n)
           q == SubSeq(left[t], n + 1, Len(left[t]))
<1>3. left[t] \in Seq(Unit) /\ n \in 0..Len(left[t])
  BY <1>1, LenProperties DEF TypeOK
<1>4. p \in Seq(Unit) /\ q \in Seq(Unit) /\ p \o q = left[t]
  BY <1>3, PartFacts
<1>5. Rest = left[t] /\ Rest' = q
  BY <1>1, <1>2 DEF Rest, TypeOK
<1>6. stream' \o q = stream \o left[t]
  <2> HIDE DEF p, q
  <2>1. stream \in Seq(Unit) /\ p \in Seq(Unit) /\ q \in Seq(Unit)
    BY <1>4 DEF TypeOK
  <2>2. (stream \o p) \o q = stream \o (p \o q)
    BY <2>1, Associates
  <2> QED
    BY <1>1, <1>4, <2>2 DEF p
<1> QED
  BY <1>1, <1>5, <1>6 DEF Flow

\* Reading moves units of the socket into the reader's buffer.
LEMMA ReadKeepsFlow == TypeOK /\ ReadSome => Flow' = Flow
<1> SUFFICES ASSUME TypeOK, ReadSome PROVE Flow' = Flow
  OBVIOUS
<1>1. PICK n \in 1..Len(stream) :
        /\ buf' = buf \o SubSeq(stream, 1, n)
        /\ stream' = SubSeq(stream, n + 1, Len(stream))
        /\ UNCHANGED <<mutex, left, cut>>
  BY DEF ReadSome, writing
<1>2. PICK p \in Seq(Unit), q \in Seq(Unit) :
        /\ p = SubSeq(stream, 1, n) /\ q = SubSeq(stream, n + 1, Len(stream))
        /\ p \o q = stream
  <2>1. stream \in Seq(Unit) /\ n \in 0..Len(stream)
    BY LenProperties DEF TypeOK
  <2>2. /\ SubSeq(stream, 1, n) \in Seq(Unit)
        /\ SubSeq(stream, n + 1, Len(stream)) \in Seq(Unit)
        /\ SubSeq(stream, 1, n) \o SubSeq(stream, n + 1, Len(stream)) = stream
    BY <2>1, PartFacts, Zenon
  <2> QED
    BY <2>2, Zenon
<1>3. PICK r \in Seq(Unit) : r = Rest
  BY RestTyped
<1>4. Rest' = r
  BY <1>1, <1>3 DEF Rest
<1>5. (buf \o p) \o (q \o r) = buf \o ((p \o q) \o r)
  <2>0. p \in Seq(Unit) /\ q \in Seq(Unit) /\ r \in Seq(Unit)
    OBVIOUS
  <2>1. buf \in Seq(Unit) /\ q \o r \in Seq(Unit)
    BY ConcatProperties DEF TypeOK
  <2>2. (buf \o p) \o (q \o r) = buf \o (p \o (q \o r))
    BY <2>0, <2>1, Associates
  <2>3. p \o (q \o r) = (p \o q) \o r
    BY <2>0, Associates
  <2> QED
    BY <2>2, <2>3
<1> QED
  BY <1>1, <1>2, <1>3, <1>4, <1>5 DEF Flow

\* A frame is begun where those before it end, unless the connection is cut.
LEMMA LockKeepsPlaces ==
  ASSUME NEW t \in Task
  PROVE  TypeOK /\ LockInv /\ FlowInv /\ Lock(t) => FlowInv'
<1> SUFFICES ASSUME TypeOK, LockInv, FlowInv, Lock(t) PROVE FlowInv'
  OBVIOUS
<1>1. /\ sending[t] # None /\ mutex = None /\ mutex' = t
      /\ left' = [left EXCEPT ![t] = Frame(sending[t])]
      /\ log' = Append(log, sending[t])
      /\ UNCHANGED <<stream, cut, reader, want, buf, got>>
  BY DEF Lock, Free, reading
<1>2. PICK m \in Msg : m = sending[t]
  BY <1>1 DEF TypeOK
<1>3. PICK z \in Nat, f \in Seq(Unit) :
        /\ z = Size[m] /\ f = Frame(m) /\ Len(f) = 2 + z
        /\ \A i \in 1..(2 + z) : f[i] = <<m, i>>
  BY FrameFacts
<1>4. PICK l \in Nat, g \in Nat : l = Len(log) /\ g = Len(got) /\ g \in 0..l
  BY LenProperties DEF TypeOK, FlowInv
<1>5. /\ Len(log') = l + 1 /\ log'[l + 1] = m
      /\ \A i \in 1..l : log'[i] = log[i] /\ log[i] \in Msg
  <2>1. log \in Seq(Msg)
    BY DEF TypeOK
  <2> QED
    BY <1>1, <1>2, <1>4, <2>1, AppendProperties, ElementOfSeq
<1>6. Len(got') <= Len(log')
  BY <1>1, <1>4, <1>5
<1>7. ASSUME reader # "failed" PROVE Awaited'
  <2>1. Awaited
    BY <1>7 DEF FlowInv
  <2>2. /\ reader' = reader /\ want' = want /\ Len(got') = g
        /\ g < l => g + 1 \in 1..l
    BY <1>1, <1>4
  <2>3. reader = "body" => g < l /\ want = Size[log[g + 1]]
    BY <1>4, <2>1 DEF Awaited
  <2>4. reader = "body" => g < l + 1 /\ want = Size[log'[g + 1]]
    BY <1>5, <2>2, <2>3
  <2> QED
    BY <1>5, <2>1, <2>2, <2>4 DEF Awaited
<1>8. ASSUME NEW b \in [Nat -> Int], Placed(b)
      PROVE  \E d \in [Nat -> Int] : Placed(d)'
  <2>1. PICK s \in Seq(Unit), y \in Nat : s = Flow /\ y = Len(Flow)
    <3>1. Flow \in Seq(Unit)
      BY RestTyped, FlowFacts DEF TypeOK, Flow
    <3> QED
      BY <3>1, LenProperties
  <2>2. PICK u \in Seq(Unit) : u = Flow'
    <3>1. Rest' \in Seq(Unit)
      BY <1>1, <1>2, <1>3, EmptySeq DEF Rest, TypeOK
    <3> QED
      BY <1>1, <3>1, FlowFacts DEF TypeOK, Flow
  <2>3. Laid(b, s, y, log, l, g) /\ b[g + 1] = 0 - Taken /\ (~cut => y = b[l + 1])
    BY <1>4, <1>8, <2>1 DEF Placed
  <2>4. /\ \A i \in 1..y : u[i] = s[i]
        /\ cut => Len(u) = y
        /\ ~cut => Len(u) = y + 2 + z /\ \A i \in 1..(2 + z) : u[y + i] = <<m, i>>
    <3>1. Flow = buf \o (stream \o <<>>)
      BY <1>1 DEF Flow, Rest
    <3>2. CASE cut
      <4>1. Flow' = Flow
        BY <1>1, <3>1, <3>2 DEF Flow, Rest
      <4> QED
        BY <2>1, <2>2, <3>2, <4>1
    <3>3. CASE ~cut
      <4>1. Rest' = f
        BY <1>1, <1>2, <1>3, <3>3, ConstantsAssumption DEF Rest, TypeOK
      <4>2. u = buf \o (stream \o f) /\ s = buf \o stream
        BY <1>1, <2>1, <2>2, <3>1, <4>1, ConcatEmptySeq DEF Flow, TypeOK
      <4>3. u = s \o f
        <5>1. buf \in Seq(Unit) /\ stream \in Seq(Unit) /\ f \in Seq(Unit)
          BY DEF TypeOK
        <5>2. (buf \o stream) \o f = buf \o (stream \o f)
          BY <5>1, Associates
        <5> QED
          BY <4>2, <5>2
      <4>4. /\ Len(u) = y + (2 + z)
            /\ \A i \in 1..(y + (2 + z)) : u[i] = IF i <= y THEN s[i] ELSE f[i - y]
        <5>1. /\ Len(s \o f) = Len(s) + Len(f)
              /\ \A i \in 1..(Len(s) + Len(f)) :
                   (s \o f)[i] = IF i <= Len(s) THEN s[i] ELSE f[i - Len(s)]
          BY ConcatProperties
        <5>2. Len(s) = y /\ Len(f) = 2 + z
          BY <1>3, <2>1
        <5> QED
          BY <4>3, <5>1, <5>2
      <4>5. /\ y + (2 + z) = y + 2 + z
            /\ \A i \in 1..y : i \in 1..(y + (2 + z)) /\ i <= y
            /\ \A i \in 1..(2 + z) : /\ y + i \in 1..(y + (2 + z)) /\ ~(y + i <= y)
                                    /\ (y + i) - y = i
        OBVIOUS
      <4> QED
        BY <1>3, <3>3, <4>4, <4>5
    <3> QED
      BY <3>2, <3>3
  <2>5. PICK d \in [Nat -> Int] : d = [b EXCEPT ![l + 2] = b[l + 1] + 2 + z]
    <3>1. l + 2 \in Nat /\ b[l + 1] + 2 + z \in Int
      OBVIOUS
    <3> QED
      BY <3>1
  <2>6. PICK e \in Nat : e = Len(u)
    BY <2>2, LenProperties
  <2>7. Laid(d, u, e, log', l + 1, g)
    <3>1. \/ e = y
          \/ /\ e = y + 2 + z /\ y = b[l + 1]
             /\ \A i \in 1..(2 + z) : u[y + i] = <<m, i>>
      BY <2>3, <2>4, <2>6
    <3>2. PICK k : k = log'
      OBVIOUS
    <3>3. /\ \A p \in 1..l : log[p] \in Msg /\ k[p] = log[p]
          /\ k[l + 1] = m /\ Size[m] = z
          /\ \A i \in 1..y : u[i] = s[i]
      BY <1>3, <1>5, <2>4, <3>2
    <3>4. /\ g \in 0..l
          /\ Laid(b, s, y, log, l, g)
      BY <1>4, <2>3
    <3>5. Laid([b EXCEPT ![l + 2] = b[l + 1] + 2 + z], u, e, k, l + 1, g)
      BY <3>1, <3>3, <3>4, LaidAppend
    <3>6. Laid(d, u, e, k, l + 1, g)
      BY <2>5, <3>5, Zenon
    <3> QED
      BY <3>2, <3>6, Zenon
  <2>8. d[g + 1] = b[g + 1] /\ d[l + 2] = b[l + 1] + 2 + z
    <3>1. g \in 0..l
      BY <1>4
    <3>2. g + 1 \in Nat /\ l + 2 \in Nat /\ g + 1 # l + 2
      BY <3>1
    <3> QED
      BY <2>5, <3>2
  <2>9. ~cut => e = d[l + 2]
    BY <2>3, <2>4, <2>6, <2>8
  <2>10. /\ Len(Flow') = e /\ Flow' = u /\ Len(got') = g /\ (l + 1) + 1 = l + 2
         /\ Taken' = Taken /\ cut' = cut
    BY <1>1, <1>4, <2>2, <2>6 DEF Taken
  <2>11. Placed(d)'
    BY <1>5, <2>3, <2>7, <2>8, <2>9, <2>10 DEF Placed, Laid
  <2> QED
    BY <2>11
<1> QED
  BY <1>1, <1>6, <1>7, <1>8 DEF FlowInv

\* A cut loses the end of what is under way.
LEMMA CutKeepsPlaces == TypeOK /\ FlowInv /\ Cut => FlowInv'
<1> SUFFICES ASSUME TypeOK, FlowInv, Cut PROVE FlowInv'
  OBVIOUS
<1>1. PICK n \in 0..Len(stream) : stream' = SubSeq(stream, 1, n)
  BY DEF Cut
<1>2. /\ cut' = TRUE /\ UNCHANGED <<mutex, left, log, reader, want, buf, got>>
  BY DEF Cut, writing, reading
<1>3. PICK x \in Seq(Unit), s \in Seq(Unit), r \in Seq(Unit), e \in Seq(Unit) :
             x = buf /\ s = stream /\ r = Rest /\ e = <<>>
  BY RestTyped, EmptySeq DEF TypeOK
<1>4. PICK c \in Seq(Unit) :
        c = SubSeq(s, 1, n) /\ Len(c) = n /\ \A i \in 1..n : c[i] = s[i]
  BY <1>3, PartFacts
<1>5. PICK i \in Nat, j \in Nat, k \in Nat :
        i = Len(x) /\ j = Len(s) /\ k = Len(r) /\ n \in 0..j
  BY <1>3, LenProperties
<1>6. PICK f \in Seq(Unit), y \in Nat : f = x \o (s \o r) /\ y = i + j + k /\ Len(f) = y
  <2>1. /\ x \o (s \o r) \in Seq(Unit)
        /\ Len(x \o (s \o r)) = Len(x) + Len(s) + Len(r)
    BY FlowFacts
  <2>2. i + j + k \in Nat
    OBVIOUS
  <2> QED
    BY <1>5, <2>1, <2>2
<1>7. PICK v \in Seq(Unit), z \in Nat : v = x \o (c \o e) /\ z = i + n /\ Len(v) = z
  <2>1. Len(c) = n /\ Len(e) = 0 /\ n \in Nat
    BY <1>3, <1>4, <1>5, EmptySeq
  <2>2. i + n + 0 = i + n /\ i + n \in Nat
    BY <2>1
  <2>3. /\ x \o (c \o e) \in Seq(Unit)
        /\ Len(x \o (c \o e)) = Len(x) + Len(c) + Len(e)
    BY FlowFacts
  <2> QED
    BY <1>5, <2>1, <2>2, <2>3
<1>8. Flow = f /\ Flow' = v
  BY <1>1, <1>2, <1>3, <1>4, <1>6, <1>7 DEF Flow, Rest
<1>9. z \in 0..y /\ \A p \in 1..z : v[p] = f[p]
  <2>1. z \in 0..y
    BY <1>5, <1>6, <1>7
  <2>2. ASSUME NEW p \in 1..z PROVE v[p] = f[p]
    <3>1. Len(c) = n /\ Len(e) = 0 /\ n \in Nat
      BY <1>3, <1>4, <1>5, EmptySeq
    <3>2. CASE p <= i
      <4>1. p \in 1..i
        BY <3>2
      <4> QED
        BY <1>5, <1>6, <1>7, <4>1, FlowFacts
    <3>3. CASE ~(p <= i)
      <4>1. PICK q \in 1..n : p = q + i
        <5>1. p - i \in 1..n /\ p = (p - i) + i
          BY <1>5, <1>7, <3>3
        <5> QED
          BY <5>1
      <4>2. q \in 1..(j + k) /\ q \in 1..(n + 0) /\ q \in 1..j
        BY <1>5
      <4>3. (s \o r)[q] = s[q]
        <5>1. q \in 1..(j + k) /\ q <= j
          BY <4>2
        <5>2. \A w \in 1..(Len(s) + Len(r)) :
                (s \o r)[w] = IF w <= Len(s) THEN s[w] ELSE r[w - Len(s)]
          BY ConcatProperties
        <5> QED
          BY <1>5, <5>1, <5>2
      <4>4. (c \o e)[q] = c[q]
        BY <1>3, ConcatEmptySeq
      <4>5. f[p] = (s \o r)[q]
        <5>1. \A w \in 1..(Len(s) + Len(r)) :
                (s \o r)[w] = (x \o (s \o r))[w + Len(x)]
          BY FlowFacts
        <5> QED
          BY <1>5, <1>6, <4>1, <4>2, <5>1
      <4>6. v[p] = (c \o e)[q]
        <5>1. \A w \in 1..(Len(c) + Len(e)) :
                (c \o e)[w] = (x \o (c \o e))[w + Len(x)]
          BY FlowFacts
        <5> QED
          BY <1>5, <1>7, <3>1, <4>1, <4>2, <5>1
      <4> QED
        BY <1>4, <4>3, <4>4, <4>5, <4>6
    <3> QED
      BY <3>2, <3>3
  <2> QED
    BY <2>1, <2>2
<1>10. Awaited => Awaited'
  BY <1>2 DEF Awaited
<1>11. ASSUME NEW b \in [Nat -> Int], Placed(b) PROVE Placed(b)'
  <2>1. PICK l \in Nat, g \in Nat : l = Len(log) /\ g = Len(got)
    BY LenProperties DEF TypeOK
  <2>2. Laid(b, f, y, log, l, g)
    BY <1>6, <1>8, <1>11, <2>1 DEF Placed
  <2>3. Laid(b, v, z, log, l, g)
    BY <1>9, <2>2, LaidPart
  <2>4. PICK k1 : k1 = log
    OBVIOUS
  <2>5. log' = k1 /\ Len(log') = l /\ Len(got') = g /\ Len(Flow') = z /\ Taken' = Taken
    BY <1>2, <1>7, <1>8, <2>1, <2>4 DEF Taken
  <2>6. Laid(b, Flow', Len(Flow'), log', Len(log'), Len(got'))
    BY <1>8, <2>3, <2>4, <2>5
  <2>7. b[Len(got') + 1] = 0 - Taken'
    BY <1>11, <2>1, <2>5 DEF Placed
  <2> QED
    BY <1>2, <2>6, <2>7 DEF Placed, Laid
<1> QED
  BY <1>2, <1>10, <1>11 DEF FlowInv

\* What the reader has is the part behind o units of the frame after g; when it
\* puts that aside, what is left is laid out as before, with frames up to h read.
Aside(o, g, h) ==
  /\ g < Len(log)
  /\ \A i \in 1..Len(buf) : i + o <= 2 + Size[log[g + 1]] =>
       buf[i] = <<log[g + 1], i + o>>
  /\ \E d \in [Nat -> Int] :
       /\ Laid(d, stream \o Rest, Len(stream \o Rest), log, Len(log), h)
       /\ d[g + 1] = (0 - o) - Len(buf)
       /\ d[g + 2] = (2 + Size[log[g + 1]] - o) - Len(buf)
       /\ ~cut => Len(stream \o Rest) = d[Len(log) + 1]

\* What comes first is what the reader has.
LEMMA Front ==
  ASSUME NEW b \in [Nat -> Int], NEW o \in {0, 2}, NEW g \in Nat, NEW h \in {g, g + 1}
  PROVE  /\ TypeOK /\ Len(got) <= Len(log) /\ g = Len(got)
         /\ Placed(b) /\ o = Taken /\ Len(buf) > 0
         => Aside(o, g, h)
<1>0. SUFFICES ASSUME TypeOK, Len(got) <= Len(log), g = Len(got),
                      Placed(b), o = Taken, Len(buf) > 0
               PROVE  Aside(o, g, h)
  OBVIOUS
<1>1. PICK l \in Nat : l = Len(log) /\ g \in 0..l
  BY <1>0, LenProperties DEF TypeOK
<1>2. \A p \in 1..l : log[p] \in Msg
  BY <1>0, <1>1, ElementOfSeq DEF TypeOK
<1>3. PICK x \in Seq(Unit), n \in Nat, s \in Seq(Unit), r \in Seq(Unit) :
        x = buf /\ n = Len(x) /\ s = stream /\ r = Rest
  BY <1>0, RestTyped, LenProperties DEF TypeOK
<1>4. PICK c \in Seq(Unit), k \in Nat : c = s \o r /\ k = Len(c) /\ k = Len(s) + Len(r)
  <2>1. s \o r \in Seq(Unit) /\ Len(s \o r) = Len(s) + Len(r)
    BY ConcatProperties
  <2> QED
    BY <2>1, LenProperties
<1>5. PICK f \in Seq(Unit), y \in Nat :
        /\ f = x \o (s \o r) /\ y = n + k /\ Len(f) = y
        /\ \A i \in 1..n : f[i] = x[i]
        /\ \A i \in 1..k : c[i] = f[i + n]
  <2>1. PICK i \in Nat, j \in Nat : i = Len(s) /\ j = Len(r)
    BY LenProperties
  <2>2. n + i + j = n + k
    BY <1>4, <2>1
  <2>3. /\ x \o (s \o r) \in Seq(Unit)
        /\ Len(x \o (s \o r)) = Len(x) + Len(s) + Len(r)
        /\ \A q \in 1..Len(x) : (x \o (s \o r))[q] = x[q]
        /\ \A q \in 1..(Len(s) + Len(r)) :
             (s \o r)[q] = (x \o (s \o r))[q + Len(x)]
    BY FlowFacts
  <2>4. PICK f \in Seq(Unit) : f = x \o (s \o r)
    BY <2>3
  <2>5. /\ Len(f) = n + k
        /\ \A q \in 1..n : f[q] = x[q]
        /\ \A q \in 1..k : c[q] = f[q + n]
    BY <1>3, <1>4, <2>1, <2>2, <2>3, <2>4
  <2>6. n + k \in Nat
    OBVIOUS
  <2> QED
    BY <2>4, <2>5, <2>6
<1>6. Laid(b, f, y, log, l, g) /\ b[g + 1] = 0 - o /\ (~cut => y = b[l + 1])
  BY <1>0, <1>1, <1>3, <1>5 DEF Placed, Flow
<1>7. PICK lg : lg = log
  OBVIOUS
<1>8. /\ \A p \in 1..l : lg[p] \in Msg
      /\ Laid(b, f, y, lg, l, g)
  BY <1>2, <1>6, <1>7
<1>9. /\ g < l
      /\ b[g + 2] = 2 + Size[lg[g + 1]] - o
      /\ \A i \in 1..y : i + o <= 2 + Size[lg[g + 1]] => f[i] = <<lg[g + 1], i + o>>
  <2>1. g <= l /\ y > 0
    BY <1>0, <1>1, <1>3, <1>5
  <2>2. /\ g <= l
        /\ \A p \in 1..l : lg[p] \in Msg
        /\ b[g + 1] = 0 \/ b[g + 1] = 0 - 2
        /\ Laid(b, f, y, lg, l, g)
    BY <1>6, <1>8, <2>1
  <2>3. InFront(b, f, y, lg, l, g)
    BY <2>2, LaidFirst
  <2>4. g < l
    BY <2>1, <2>3 DEF InFront
  <2>5. b[g + 2] = b[g + 1] + 2 + Size[lg[g + 1]]
    BY <2>3, <2>4 DEF InFront
  <2>6. \A i \in 1..y : i <= b[g + 2] => f[i] = <<lg[g + 1], i - b[g + 1]>>
    BY <2>3, <2>4 DEF InFront
  <2>7. PICK z \in Nat : z = Size[lg[g + 1]]
    <3>1. g + 1 \in 1..l
      BY <2>4
    <3> QED
      BY <1>8, <3>1, FrameFacts
  <2>8. b[g + 1] = 0 - o
    BY <1>6
  <2>9. b[g + 2] = 2 + z - o
    <3>1. b[g + 2] = (0 - o) + 2 + z
      BY <2>5, <2>7, <2>8
    <3> QED
      BY <3>1
  <2>10. ASSUME NEW i \in 1..y, i + o <= 2 + z PROVE f[i] = <<lg[g + 1], i + o>>
    <3>1. i <= b[g + 2] /\ i - b[g + 1] = i + o
      BY <2>8, <2>9, <2>10
    <3> QED
      BY <2>6, <3>1
  <2> QED
    BY <2>4, <2>7, <2>9, <2>10
<1>10. \A i \in 1..n : i + o <= 2 + Size[lg[g + 1]] => x[i] = <<lg[g + 1], i + o>>
  <2>1. \A i \in 1..n : i \in 1..y
    <3>1. y = n + k
      BY <1>5
    <3> QED
      BY <3>1
  <2> QED
    BY <1>5, <1>9, <2>1
<1>11. PICK d \in [Nat -> Int] : d = Back(b, n)
  <2>1. \A p \in Nat : b[p] - n \in Int
    OBVIOUS
  <2>2. Back(b, n) \in [Nat -> Int]
    BY <2>1 DEF Back
  <2> QED
    BY <2>2
<1>12. Laid(d, c, k, lg, l, h)
  <2>1. k + n = y /\ h \in Nat /\ (h = g \/ h = g + 1)
    <3>1. y = n + k
      BY <1>5
    <3> QED
      BY <3>1
  <2>2. \A i \in 1..k : c[i] = f[i + n]
    BY <1>5
  <2>3. Laid(Back(b, n), c, k, lg, l, h)
    BY <1>8, <2>1, <2>2, LaidShift
  <2> QED
    BY <1>11, <2>3, Zenon
<1>13. /\ d[g + 1] = (0 - o) - n
       /\ d[g + 2] = (2 + Size[lg[g + 1]] - o) - n
       /\ ~cut => k = d[l + 1]
  <2>1. /\ d[g + 1] = b[g + 1] - n /\ d[g + 2] = b[g + 2] - n
        /\ d[l + 1] = b[l + 1] - n
    <3>1. g + 1 \in Nat /\ g + 2 \in Nat /\ l + 1 \in Nat
      OBVIOUS
    <3> QED
      BY <1>11, <3>1 DEF Back
  <2>2. ~cut => k = b[l + 1] - n
    <3>1. y = n + k
      BY <1>5
    <3>2. ~cut => y = b[l + 1]
      BY <1>6
    <3> QED
      BY <3>1, <3>2
  <2> QED
    BY <1>6, <1>9, <2>1, <2>2
<1> QED
  BY <1>0, <1>1, <1>3, <1>4, <1>7, <1>9, <1>10, <1>12, <1>13 DEF Aside

\* The length in a frame says how long its body is, and nothing else.
LEMMA LengthSays ==
  ASSUME NEW m \in Msg
  PROVE  buf \in Seq(Unit) /\ Len(buf) = 2 /\ (\A i \in 1..2 : buf[i] = <<m, i>>)
         => Lengths = {Size[m]}
<1> SUFFICES ASSUME buf \in Seq(Unit), Len(buf) = 2, \A i \in 1..2 : buf[i] = <<m, i>>
             PROVE  Lengths = {Size[m]}
  OBVIOUS
<1>1. ASSUME NEW k \in Msg PROVE buf = LengthOf(k) <=> k = m
  <2>1. PICK c \in Seq(Unit) :
          c = LengthOf(k) /\ Len(c) = 2 /\ \A i \in 1..2 : c[i] = <<k, i>>
    <3>1. /\ LengthOf(k) \in Seq(Unit) /\ Len(LengthOf(k)) = 2
          /\ \A i \in 1..2 : LengthOf(k)[i] = <<k, i>>
      BY FrameFacts DEF Prefix
    <3> QED
      BY <3>1
  <2>2. k = m => buf = c
    <3>1. k = m => \A i \in 1..2 : buf[i] = c[i]
      BY <2>1
    <3> QED
      BY <2>1, <3>1, SeqEqual
  <2>3. buf = c => k = m
    <3>1. buf[1] = <<m, 1>> /\ c[1] = <<k, 1>>
      BY <2>1
    <3> QED
      BY <3>1
  <2> QED
    BY <2>1, <2>2, <2>3
<1>2. \E k \in Msg : buf = LengthOf(k)
  BY <1>1
<1>3. {k \in Msg : buf = LengthOf(k)} = {m}
  BY <1>1
<1> QED
  BY <1>2, <1>3 DEF Lengths

\* The body of a frame is that of its message, and of no other.
LEMMA BodySays ==
  ASSUME NEW m \in Msg
  PROVE  /\ buf \in Seq(Unit) /\ Len(buf) = Size[m]
         /\ \A i \in 1..Size[m] : buf[i] = <<m, i + 2>>
         => \A k \in Msg : buf = BodyOf(k) <=> k = m
<1> SUFFICES ASSUME buf \in Seq(Unit), Len(buf) = Size[m],
                    \A i \in 1..Size[m] : buf[i] = <<m, i + 2>>,
                    NEW k \in Msg
             PROVE  buf = BodyOf(k) <=> k = m
  OBVIOUS
<1>1. PICK z \in Nat \ {0}, y \in Nat \ {0} : z = Size[m] /\ y = Size[k]
  BY FrameFacts
<1>2. PICK c \in Seq(Unit) :
        c = BodyOf(k) /\ Len(c) = y /\ \A i \in 1..y : c[i] = <<k, 2 + i>>
  BY <1>1, FrameFacts
<1>3. k = m => buf = c
  <2>1. ASSUME k = m PROVE Len(buf) = Len(c) /\ \A i \in 1..z : buf[i] = c[i]
    <3>1. \A i \in 1..z : 2 + i = i + 2
      OBVIOUS
    <3> QED
      BY <1>1, <1>2, <2>1, <3>1
  <2> QED
    BY <1>1, <2>1, SeqEqual
<1>4. buf = c => k = m
  <2>1. 1 \in 1..z /\ 1 \in 1..y
    OBVIOUS
  <2>2. buf[1] = <<m, 1 + 2>> /\ c[1] = <<k, 2 + 1>>
    BY <1>1, <1>2, <2>1
  <2> QED
    BY <2>2
<1> QED
  BY <1>2, <1>3, <1>4

\* recv_message takes the length of the next frame for its length, and gives the
\* connection up only when it is over the limit.
LEMMA LengthKeepsPlaces == FramingInv /\ ReadLength => FlowInv' /\ StaysInStep'
<1>0. SUFFICES ASSUME FramingInv, ReadLength PROVE FlowInv' /\ StaysInStep'
  OBVIOUS
<1>1. /\ TypeOK /\ reader = "length" /\ Len(buf) = 2 /\ Len(got) <= Len(log)
      /\ UNCHANGED <<mutex, left, log, stream, cut>>
  BY <1>0 DEF FramingInv, FlowInv, Awaited, ReadLength, Complete, writing, Prefix
<1>2. PICK g \in Nat, l \in Nat : g = Len(got) /\ l = Len(log)
  BY <1>1, LenProperties DEF TypeOK
<1>m. PICK m : m = log[g + 1]
  OBVIOUS
<1>3. PICK b \in [Nat -> Int] : Placed(b)
  BY <1>0, <1>1 DEF FramingInv, FlowInv
<1>4. Taken = 0
  BY <1>1 DEF Taken
<1>5. Aside(0, g, g)
  <2>1. Len(buf) > 0 /\ 0 \in {0, 2} /\ g \in {g, g + 1}
    BY <1>1
  <2> QED
    BY <1>1, <1>2, <1>m, <1>3, <1>4, <2>1, Front
<1>6. m \in Msg
  <2>1. g + 1 \in 1..Len(log)
    <3>1. g < l
      BY <1>2, <1>m, <1>5 DEF Aside
    <3> QED
      BY <1>2, <1>m, <3>1
  <2> QED
    BY <1>1, <1>2, <1>m, <2>1, ElementOfSeq DEF TypeOK
<1>7. PICK z \in Nat : z = Size[m]
  BY <1>6, FrameFacts
<1>8. Lengths = {z}
  <2>1. \A i \in 1..2 : i + 0 <= 2 + z /\ i + 0 = i
    OBVIOUS
  <2>2. \A i \in 1..2 : buf[i] = <<m, i>>
    BY <1>1, <1>2, <1>m, <1>5, <1>7, <2>1 DEF Aside
  <2> QED
    BY <1>1, <1>6, <1>7, <2>2, LengthSays DEF TypeOK
<1>9. IF z > Limit THEN Fail ELSE Await("body", z) /\ UNCHANGED got
  BY <1>0, <1>8 DEF ReadLength, TooLarge
<1>10. CASE z > Limit
  <2>1. reader' = "failed" /\ got' = got /\ log' = log
    BY <1>1, <1>9, <1>10 DEF Fail, Await
  <2>2. FlowInv'
    BY <1>1, <2>1 DEF FlowInv
  <2>3. StaysInStep'
    BY <1>2, <1>m, <1>5, <1>7, <1>10, <2>1 DEF StaysInStep, Aside
  <2> QED
    BY <2>2, <2>3
<1>11. CASE ~(z > Limit)
  <2>1. /\ reader' = "body" /\ want' = z /\ buf' = <<>> /\ got' = got /\ log' = log
        /\ cut' = cut
    BY <1>1, <1>9, <1>11 DEF Await
  <2>2. PICK r \in Seq(Unit) : r = stream \o Rest
    BY <1>1, RestTyped, ConcatProperties DEF TypeOK
  <2>3. Flow' = r
    <3>1. stream' = stream /\ Rest' = Rest
      BY <1>1 DEF Rest
    <3>2. <<>> \o r = r
      BY ConcatEmptySeq
    <3> QED
      BY <2>1, <2>2, <3>1, <3>2 DEF Flow
  <2>4. Awaited'
    BY <1>2, <1>m, <1>5, <1>7, <2>1 DEF Awaited, Aside
  <2>5. PICK d \in [Nat -> Int] :
          /\ Laid(d, r, Len(r), log, l, g)
          /\ d[g + 1] = 0 - 2
          /\ ~cut => Len(r) = d[l + 1]
    <3>1. (0 - 0) - 2 = 0 - 2
      OBVIOUS
    <3> QED
      BY <1>1, <1>2, <1>m, <1>5, <2>2, <3>1 DEF Aside
  <2>6. Placed(d)'
    <3>1. Taken' = 2 /\ Len(got') = g /\ Len(log') = l
      BY <1>2, <1>m, <2>1 DEF Taken
    <3> QED
      BY <2>1, <2>3, <2>5, <3>1 DEF Placed, Laid
  <2>7. FlowInv'
    BY <1>1, <2>1, <2>4, <2>6 DEF FlowInv
  <2>8. StaysInStep'
    BY <2>1 DEF StaysInStep
  <2> QED
    BY <2>7, <2>8
<1> QED
  BY <1>10, <1>11

\* recv_message takes the body of the next frame for its body.
LEMMA BodyIsNext ==
  FramingInv /\ ReadBody =>
    /\ Len(got) < Len(log)
    /\ got' = Append(got, log[Len(got) + 1])
    /\ reader' = "length" /\ want' = Prefix /\ buf' = <<>>
    /\ \E d \in [Nat -> Int] :
         /\ Laid(d, stream \o Rest, Len(stream \o Rest), log, Len(log), Len(got) + 1)
         /\ d[Len(got) + 2] = 0
         /\ ~cut => Len(stream \o Rest) = d[Len(log) + 1]
<1>0. SUFFICES
        ASSUME FramingInv, ReadBody
        PROVE  /\ Len(got) < Len(log)
               /\ got' = Append(got, log[Len(got) + 1])
               /\ reader' = "length" /\ want' = Prefix /\ buf' = <<>>
               /\ \E d \in [Nat -> Int] :
                    /\ Laid(d, stream \o Rest, Len(stream \o Rest), log, Len(log),
                            Len(got) + 1)
                    /\ d[Len(got) + 2] = 0
                    /\ ~cut => Len(stream \o Rest) = d[Len(log) + 1]
  OBVIOUS
<1>1. /\ TypeOK /\ reader = "body" /\ Len(got) < Len(log)
      /\ Len(buf) = Size[log[Len(got) + 1]]
  BY <1>0 DEF FramingInv, FlowInv, Awaited, ReadBody, Complete
<1>2. PICK g \in Nat, l \in Nat : g = Len(got) /\ l = Len(log)
  BY <1>1, LenProperties DEF TypeOK
<1>m. PICK m : m = log[g + 1]
  OBVIOUS
<1>3. PICK b \in [Nat -> Int] : Placed(b)
  BY <1>0, <1>1 DEF FramingInv, FlowInv
<1>4. Taken = 2
  BY <1>1 DEF Taken
<1>5. m \in Msg
  <2>1. g + 1 \in 1..Len(log)
    BY <1>1, <1>2, <1>m
  <2> QED
    BY <1>1, <1>2, <1>m, <2>1, ElementOfSeq DEF TypeOK
<1>6. PICK z \in Nat \ {0} : z = Size[m]
  BY <1>5, FrameFacts
<1>7. Len(buf) = z
  BY <1>1, <1>2, <1>m, <1>6
<1>8. Aside(2, g, g + 1)
  <2>1. /\ Len(buf) > 0 /\ 2 \in {0, 2} /\ g + 1 \in {g, g + 1}
        /\ Len(got) <= Len(log)
    BY <1>1, <1>2, <1>m, <1>7
  <2> QED
    BY <1>1, <1>2, <1>m, <1>3, <1>4, <2>1, Front
<1>9. \A k \in Msg : buf = BodyOf(k) <=> k = m
  <2>1. \A i \in 1..z : i + 2 <= 2 + z
    OBVIOUS
  <2>2. \A i \in 1..z : buf[i] = <<m, i + 2>>
    BY <1>2, <1>m, <1>6, <1>7, <1>8, <2>1 DEF Aside
  <2> QED
    BY <1>1, <1>5, <1>6, <1>7, <2>2, BodySays DEF TypeOK
<1>10. got' = Append(got, m) /\ reader' = "length" /\ want' = Prefix /\ buf' = <<>>
  <2>1. ~\A k \in Msg : buf # BodyOf(k)
    BY <1>5, <1>9
  <2>2. PICK k \in Msg :
          buf = BodyOf(k) /\ got' = Append(got, k) /\ Await("length", Prefix)
    BY <1>0, <2>1 DEF ReadBody
  <2> QED
    BY <1>9, <2>2 DEF Await
<1>11. PICK d \in [Nat -> Int] :
         /\ Laid(d, stream \o Rest, Len(stream \o Rest), log, Len(log), g + 1)
         /\ d[g + 2] = (2 + z - 2) - z
         /\ ~cut => Len(stream \o Rest) = d[Len(log) + 1]
  BY <1>2, <1>m, <1>6, <1>7, <1>8 DEF Aside
<1>12. d[g + 2] = 0
  BY <1>11
<1> QED
  BY <1>1, <1>2, <1>m, <1>10, <1>11, <1>12

\* After it, recv_message is at the beginning of a frame.
LEMMA BodyKeepsPlaces == FramingInv /\ ReadBody => FlowInv' /\ StaysInStep'
<1>0. SUFFICES ASSUME FramingInv, ReadBody PROVE FlowInv' /\ StaysInStep'
  OBVIOUS
<1>1. /\ Len(got) < Len(log)
      /\ got' = Append(got, log[Len(got) + 1])
      /\ reader' = "length" /\ want' = Prefix /\ buf' = <<>>
      /\ \E d \in [Nat -> Int] :
           /\ Laid(d, stream \o Rest, Len(stream \o Rest), log, Len(log), Len(got) + 1)
           /\ d[Len(got) + 2] = 0
           /\ ~cut => Len(stream \o Rest) = d[Len(log) + 1]
  BY <1>0, BodyIsNext
<1>2. TypeOK /\ UNCHANGED <<mutex, left, log, stream, cut>>
  BY <1>0 DEF FramingInv, ReadBody, writing
<1>3. PICK g \in Nat, l \in Nat : g = Len(got) /\ l = Len(log)
  BY <1>2, LenProperties DEF TypeOK
<1>4. Len(got') = g + 1 /\ g + 1 <= l
  <2>1. g + 1 \in 1..Len(log)
    BY <1>1, <1>3
  <2>2. log[g + 1] \in Msg
    BY <1>2, <2>1, ElementOfSeq DEF TypeOK
  <2>3. got' = Append(got, log[g + 1]) /\ got \in Seq(Msg)
    BY <1>1, <1>2, <1>3 DEF TypeOK
  <2>4. Len(got') = Len(got) + 1
    BY <2>2, <2>3, AppendProperties
  <2> QED
    BY <1>1, <1>3, <2>4
<1>5. PICK r \in Seq(Unit) : r = stream \o Rest
  BY <1>2, RestTyped, ConcatProperties DEF TypeOK
<1>6. Flow' = r
  <2>1. stream' = stream /\ Rest' = Rest
    BY <1>2 DEF Rest
  <2>2. <<>> \o r = r
    BY ConcatEmptySeq
  <2> QED
    BY <1>1, <1>5, <2>1, <2>2 DEF Flow
<1>7. PICK d \in [Nat -> Int] :
        /\ Laid(d, r, Len(r), log, l, g + 1)
        /\ d[g + 2] = 0
        /\ ~cut => Len(r) = d[l + 1]
  BY <1>1, <1>3, <1>5
<1>8. Placed(d)'
  <2>1. Taken' = 0 /\ Len(log') = l /\ (g + 1) + 1 = g + 2
    BY <1>1, <1>2, <1>3 DEF Taken
  <2>2. PICK k : k = log /\ k = log'
    BY <1>2
  <2>3. Laid(d, Flow', Len(Flow'), k, Len(log'), Len(got'))
    BY <1>4, <1>6, <1>7, <2>1, <2>2
  <2>4. d[Len(got') + 1] = 0 - Taken'
    BY <1>4, <1>7, <2>1
  <2>5. ~cut' => Len(Flow') = d[Len(log') + 1]
    BY <1>2, <1>6, <1>7, <2>1
  <2> QED
    BY <2>2, <2>3, <2>4, <2>5 DEF Placed, Laid
<1>9. Awaited'
  BY <1>1 DEF Awaited
<1>10. FlowInv'
  BY <1>2, <1>3, <1>4, <1>8, <1>9 DEF FlowInv
<1>11. StaysInStep'
  BY <1>1 DEF StaysInStep
<1> QED
  BY <1>10, <1>11

\* Only Lock puts a frame into a task's hands, and it takes the mutex.
LEMMA LockInvStep == TypeOK /\ LockInv /\ [Next]_vars => LockInv'
<1> SUFFICES ASSUME TypeOK, LockInv, [Next]_vars PROVE LockInv'
  OBVIOUS
<1>1. ASSUME NEW t \in Task, Lock(t) PROVE LockInv'
  BY <1>1, ConstantsAssumption DEF Lock, Free, LockInv, TypeOK
<1>2. ASSUME NEW t \in Task, WriteSome(t) PROVE LockInv'
  BY <1>2 DEF WriteSome, LockInv, TypeOK
<1>3. ASSUME NEW t \in Task, Return(t) PROVE LockInv'
  BY <1>3 DEF Return, LockInv, TypeOK
<1>4. CASE UNCHANGED <<mutex, left>>
  BY <1>4 DEF LockInv
<1> QED
  BY <1>1, <1>2, <1>3, <1>4
  DEF Next, Call, Cut, Receive, ReadSome, ReadLength, ReadBody, ReadEnd, writing, vars

\* Messages that were begun stay in the log, so a reader that gave up keeps its
\* reason.
LEMMA StaysInStepKept ==
  ASSUME TypeOK, StaysInStep, cut => cut', UNCHANGED <<reader, got>>,
         \/ UNCHANGED log
         \/ \E m \in Msg : log' = Append(log, m)
  PROVE  StaysInStep'
<1>1. PICK g \in Nat, l \in Nat : g = Len(got) /\ l = Len(log)
  BY LenProperties DEF TypeOK
<1>2. ASSUME NEW m \in Msg, log' = Append(log, m), g < l
      PROVE  Len(log') = l + 1 /\ log'[g + 1] = log[g + 1] /\ g < l + 1
  <2>1. log \in Seq(Msg)
    BY DEF TypeOK
  <2>2. g + 1 \in 1..Len(log)
    BY <1>1, <1>2
  <2> QED
    BY <1>1, <1>2, <2>1, <2>2, AppendProperties
<1> QED
  BY <1>1, <1>2 DEF StaysInStep

\* The invariant holds when the connection is made.
LEMMA FramingInvInit == Init => FramingInv
<1> SUFFICES ASSUME Init PROVE FramingInv
  OBVIOUS
<1>1. TypeOK
  BY FramingTypedInit
<1>2. LockInv /\ StaysInStep
  BY DEF Init, LockInv, StaysInStep
<1>3. FlowInv
  <2>1. PICK e \in Seq(Unit) : e = <<>> /\ Len(e) = 0 /\ e \o e = e
    BY EmptySeq, ConcatEmptySeq
  <2>2. Flow = e /\ Len(log) = 0 /\ Len(got) = 0 /\ Taken = 0
    BY <2>1, EmptySeq DEF Init, Flow, Rest, Taken
  <2>3. PICK b \in [Nat -> Int] : b = [p \in Nat |-> 0]
    <3>1. [p \in Nat |-> 0] \in [Nat -> Int]
      OBVIOUS
    <3> QED
      BY <3>1
  <2>4. b[1] = 0
    BY <2>3
  <2>5. Placed(b)
    BY <2>1, <2>2, <2>4 DEF Placed, Laid
  <2>6. Awaited
    BY DEF Init, Awaited
  <2> QED
    BY <2>2, <2>5, <2>6 DEF FlowInv
<1> QED
  BY <1>1, <1>2, <1>3 DEF FramingInv

\* Every step keeps the invariant.
LEMMA FramingInvStep == FramingInv /\ [Next]_vars => FramingInv'
<1>0. SUFFICES ASSUME FramingInv, [Next]_vars PROVE FramingInv'
  OBVIOUS
<1>1. TypeOK /\ LockInv /\ FlowInv /\ StaysInStep
  BY <1>0 DEF FramingInv
<1>2. TypeOK' /\ LockInv'
  BY <1>0, <1>1, FramingTypedStep, LockInvStep
<1> SUFFICES FlowInv' /\ StaysInStep'
  BY <1>2 DEF FramingInv
<1>3. ASSUME NEW t \in Task, NEW m \in Msg, Call(t, m) PROVE FlowInv' /\ StaysInStep'
  <2>1. Flow' = Flow /\ UNCHANGED <<cut, log, got, reader, want>>
    BY <1>3 DEF Call, reading, Flow, Rest
  <2> QED
    BY <1>1, <2>1, FlowKept, StaysInStepKept
<1>4. ASSUME NEW t \in Task, Lock(t) PROVE FlowInv' /\ StaysInStep'
  <2>1. sending[t] \in Msg /\ log' = Append(log, sending[t]) /\ UNCHANGED <<cut, reader, got>>
    BY <1>1, <1>4 DEF Lock, reading, TypeOK
  <2>2. StaysInStep'
    BY <1>1, <2>1, StaysInStepKept
  <2> QED
    BY <1>1, <1>4, <2>2, LockKeepsPlaces
<1>5. ASSUME NEW t \in Task, WriteSome(t) PROVE FlowInv' /\ StaysInStep'
  <2>1. UNCHANGED <<cut, log, got, reader, want>>
    BY <1>5 DEF WriteSome, reading
  <2>2. Flow' = Flow
    BY <1>1, <1>5, WriteKeepsFlow
  <2> QED
    BY <1>1, <2>1, <2>2, FlowKept, StaysInStepKept
<1>6. ASSUME NEW t \in Task, Return(t) PROVE FlowInv' /\ StaysInStep'
  <2>1. UNCHANGED <<cut, log, got, reader, want, buf, stream>>
    BY <1>6 DEF Return, reading
  <2>2. Rest = <<>> /\ Rest' = <<>>
    BY <1>6, <2>1 DEF Return, Released, Rest
  <2>3. Flow' = Flow
    BY <2>1, <2>2 DEF Flow
  <2> QED
    BY <1>1, <2>1, <2>3, FlowKept, StaysInStepKept
<1>7. CASE Cut
  <2>1. cut' = TRUE
    BY <1>7 DEF Cut
  <2> QED
    BY <1>1, <1>7, <2>1, CutKeepsPlaces DEF StaysInStep
<1>8. CASE ReadSome
  <2>1. UNCHANGED <<cut, log, got, reader, want>>
    BY <1>8 DEF ReadSome, writing
  <2>2. Flow' = Flow
    BY <1>1, <1>8, ReadKeepsFlow
  <2> QED
    BY <1>1, <2>1, <2>2, FlowKept, StaysInStepKept
<1>9. CASE ReadLength
  BY <1>0, <1>9, LengthKeepsPlaces
<1>10. CASE ReadBody
  BY <1>0, <1>10, BodyKeepsPlaces
<1>11. CASE ReadEnd
  <2>1. reader' = "failed" /\ cut' = TRUE /\ UNCHANGED <<log, got>>
    BY <1>1, <1>11 DEF ReadEnd, Fail, Await, writing, TypeOK
  <2> QED
    BY <1>1, <2>1 DEF FlowInv, StaysInStep
<1>12. CASE UNCHANGED vars
  <2>1. Flow' = Flow /\ UNCHANGED <<cut, log, got, reader, want>>
    BY <1>12 DEF vars, writing, reading, Flow, Rest
  <2> QED
    BY <1>1, <2>1, FlowKept, StaysInStepKept
<1> QED
  BY <1>0, <1>3, <1>4, <1>5, <1>6, <1>7, <1>8, <1>9, <1>10, <1>11, <1>12
  DEF Next, Receive

\* Every reachable state has it.
LEMMA FramingInvHolds == Spec => []FramingInv
  BY FramingInvInit, FramingInvStep, PTL DEF Spec

\* However writes, reads and a cut fall together, recv_message never takes part
\* of one frame for another.
THEOREM StaysInStepHolds == Spec => []StaysInStep
<1>1. FramingInv => StaysInStep
  BY DEF FramingInv
<1> QED
  BY <1>1, FramingInvHolds, PTL

\* A step of the connection is a step of Pipe, or changes neither what was sent
\* nor what was received.
LEMMA FramingRefinesStep ==
  FramingInv /\ [Next]_vars => [Messages!Send \/ Messages!Receive]_<<log, got>>
<1>0. SUFFICES ASSUME FramingInv, [Next]_vars
               PROVE  Messages!Send \/ Messages!Receive \/ UNCHANGED <<log, got>>
  OBVIOUS
<1>1. ASSUME NEW t \in Task, Lock(t) PROVE Messages!Send
  <2>1. sending[t] \in Msg /\ log' = Append(log, sending[t]) /\ UNCHANGED got
    BY <1>0, <1>1 DEF FramingInv, Lock, reading, TypeOK
  <2> QED
    BY <2>1 DEF Messages!Send
<1>2. CASE ReadBody
  <2>1. Len(got) < Len(log) /\ got' = Append(got, log[Len(got) + 1])
    BY <1>0, <1>2, BodyIsNext
  <2>2. UNCHANGED log
    BY <1>2 DEF ReadBody, writing
  <2> QED
    BY <2>1, <2>2 DEF Messages!Receive
<1>3. ASSUME NEW t \in Task, NEW m \in Msg, Call(t, m) PROVE UNCHANGED <<log, got>>
  BY <1>3 DEF Call, reading
<1>4. ASSUME NEW t \in Task, WriteSome(t) \/ Return(t) PROVE UNCHANGED <<log, got>>
  BY <1>4 DEF WriteSome, Return, reading
<1>5. CASE Cut
  BY <1>5 DEF Cut, writing, reading
<1>6. CASE ReadSome \/ ReadLength \/ ReadEnd
  BY <1>6 DEF ReadSome, ReadLength, ReadEnd, Fail, Await, writing
<1>7. CASE UNCHANGED vars
  BY <1>7 DEF vars, writing, reading
<1> QED
  BY <1>0, <1>1, <1>2, <1>3, <1>4, <1>5, <1>6, <1>7 DEF Next, Receive

\* A connection that writes and reads frames by parts gives those at its ends
\* what the other modules assume of one: whole messages, once, in order.
THEOREM ReceivesAsSentHolds == Spec => ReceivesAsSent
<1>1. Init => Messages!Init
  BY DEF Init, Messages!Init
<1> QED
  BY <1>1, FramingInvHolds, FramingRefinesStep, PTL
  DEF Spec, ReceivesAsSent, Messages!Spec

-----------------------------------------------------------------------------
(* A connection at rest *)

\* What was received is the beginning of what was begun.
Received == \A i \in 1..Len(got) : got[i] = log[i]

\* Pipe's steps keep it.
LEMMA ReceivedStep == FramingInv /\ Received /\ [Next]_vars => Received'
<1>0. SUFFICES ASSUME FramingInv, Received, [Next]_vars PROVE Received'
  OBVIOUS
<1>1. /\ log \in Seq(Msg) /\ got \in Seq(Msg) /\ Len(got) <= Len(log)
      /\ Len(log) \in Nat /\ Len(got) \in Nat
  BY <1>0, LenProperties DEF FramingInv, TypeOK, FlowInv
<1>2. CASE Messages!Send
  <2>1. PICK m \in Msg : log' = Append(log, m) /\ got' = got
    BY <1>2 DEF Messages!Send
  <2>2. \A i \in 1..Len(log) : Append(log, m)[i] = log[i]
    BY <1>1, AppendProperties
  <2>3. \A i \in 1..Len(got) : i \in 1..Len(log)
    BY <1>1
  <2> QED
    BY <1>0, <2>1, <2>2, <2>3 DEF Received
<1>3. CASE Messages!Receive
  <2>1. PICK n \in Nat : n = Len(got)
    BY <1>1
  <2>2. n < Len(log) /\ got' = Append(got, log[n + 1]) /\ log' = log
    BY <1>3, <2>1 DEF Messages!Receive
  <2>3. log[n + 1] \in Msg
    BY <1>1, <2>2, ElementOfSeq
  <2>4. /\ Len(got') = n + 1 /\ got'[n + 1] = log[n + 1]
        /\ \A i \in 1..n : got'[i] = got[i]
    BY <1>1, <2>1, <2>2, <2>3, AppendProperties
  <2>5. \A i \in 1..(n + 1) : i \in 1..n \/ i = n + 1
    OBVIOUS
  <2> QED
    BY <1>0, <2>1, <2>2, <2>4, <2>5 DEF Received
<1>4. CASE UNCHANGED <<log, got>>
  BY <1>0, <1>4 DEF Received
<1> QED
  BY <1>0, <1>2, <1>3, <1>4, FramingRefinesStep

\* When all that is under way is what the reader has, and he waits for more, it
\* is nothing: the next frame, were there one, would be there to its end.
LEMMA NothingUnderWay ==
  ASSUME FramingInv, ~cut, reader # "failed", ~Complete, Flow = buf
  PROVE  Len(got) = Len(log) /\ reader = "length" /\ buf = <<>>
<1>1. PICK g \in Nat, l \in Nat, n \in Nat :
        g = Len(got) /\ l = Len(log) /\ n = Len(buf)
  BY LenProperties DEF FramingInv, TypeOK
<1>2. PICK b \in [Nat -> Int] : Placed(b)
  BY DEF FramingInv, FlowInv
<1>3. g <= l /\ Awaited /\ n < want /\ want \in Nat
  <2>1. /\ want \in 1..(IF reader = "body" THEN Limit ELSE Prefix)
        /\ Len(buf) <= want /\ Len(buf) # want
    BY DEF FramingInv, TypeOK, Complete
  <2>2. want \in Nat
    BY <2>1
  <2> QED
    BY <1>1, <2>1, <2>2 DEF FramingInv, FlowInv
<1>4. /\ Laid(b, buf, n, log, l, g)
      /\ b[g + 1] = 0 - Taken
      /\ n = b[l + 1]
  BY <1>1, <1>2 DEF Placed
<1>5. ASSUME g < l PROVE FALSE
  <2>1. g + 1 \in (g + 1)..l /\ (g + 1) + 1 = g + 2
    BY <1>5
  <2>2. log[g + 1] \in Msg
    BY <1>1, <1>5, ElementOfSeq DEF FramingInv, TypeOK
  <2>3. PICK z \in Nat : z = Size[log[g + 1]]
    BY <2>2, FrameFacts
  <2>4. b[g + 2] = b[g + 1] + 2 + z /\ b[g + 2] <= b[l + 1]
    BY <1>4, <2>1, <2>3 DEF Laid, Prefix
  <2>5. b[g + 1] = 0 - Taken /\ b[l + 1] = n
    BY <1>4
  <2>6. CASE reader = "body"
    <3>1. Taken = 2 /\ want = z
      BY <1>1, <1>3, <2>3, <2>6 DEF Taken, Awaited
    <3> QED
      BY <1>3, <2>4, <2>5, <3>1
  <2>7. CASE reader = "length"
    <3>1. Taken = 0 /\ want = 2
      BY <1>3, <2>7 DEF Taken, Awaited, Prefix
    <3> QED
      BY <1>3, <2>4, <2>5, <3>1
  <2> QED
    BY <2>6, <2>7 DEF FramingInv, TypeOK
<1>6. g = l
  BY <1>3, <1>5
<1>7. reader = "length"
  BY <1>1, <1>3, <1>6 DEF Awaited, FramingInv, TypeOK
<1>8. n = 0
  <2>1. Taken = 0
    BY <1>7 DEF Taken
  <2> QED
    BY <1>4, <1>6, <2>1
<1>9. buf = <<>>
  BY <1>1, <1>8, EmptySeq DEF FramingInv, TypeOK
<1> QED
  BY <1>1, <1>6, <1>7, <1>9

\* No frame's end is left behind, and the reader of an unbroken connection
\* never waits for what nobody will write, for any tasks, sizes and sockets.
THEOREM QuietMeansDeliveredHolds == Spec => []QuietMeansDelivered
<1>1. Init => Received
  <2>1. ASSUME Init PROVE Received
    <3>1. got = <<>> /\ Len(got) = 0
      BY <2>1, EmptySeq DEF Init
    <3> QED
      BY <3>1 DEF Received
  <2> QED
    BY <2>1
<1>2. FramingInv /\ Received => QuietMeansDelivered
  <2>1. SUFFICES
          ASSUME FramingInv, Received, ~cut, reader # "failed", ~Complete,
                 stream = <<>>, \A t \in Task : left[t] = <<>>
          PROVE  got = log /\ reader = "length" /\ buf = <<>>
    BY DEF QuietMeansDelivered
  <2>2. Rest = <<>>
    BY <2>1 DEF Rest, FramingInv, TypeOK
  <2>3. Flow = buf
    <3>1. buf \in Seq(Unit) /\ <<>> \o <<>> = <<>> /\ buf \o <<>> = buf
      BY <2>1, EmptySeq, ConcatEmptySeq DEF FramingInv, TypeOK
    <3> QED
      BY <2>1, <2>2, <3>1 DEF Flow
  <2>4. Len(got) = Len(log) /\ reader = "length" /\ buf = <<>>
    BY <2>1, <2>3, NothingUnderWay
  <2>5. got = log
    <3>1. /\ got \in Seq(Msg) /\ log \in Seq(Msg)
          /\ \A i \in 1..Len(got) : got[i] = log[i]
      BY <2>1 DEF FramingInv, TypeOK, Received
    <3> QED
      BY <2>4, <3>1, SeqEqual
  <2> QED
    BY <2>4, <2>5
<1> QED
  BY <1>1, <1>2, FramingInvHolds, ReceivedStep, PTL DEF Spec

=============================================================================
