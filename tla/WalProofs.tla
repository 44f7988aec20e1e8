------------------------------ MODULE WalProofs ------------------------------
(***************************************************************************)
(* What WALReader makes of a file that appends were cut short in, for any  *)
(* header and payload size and any number of appends, torn appends,        *)
(* crashes, restarts and rotations.                                        *)
(*                                                                         *)
(* The invariant names where the reader gets to: the first n records of    *)
(* the log lie whole, one after the other, from the start of the file; the *)
(* file ends there, or a record that was cut short begins.                 *)
(***************************************************************************)
EXTENDS WalFile, SequenceTheorems, WellFoundedInduction, TLAPS

CellType == [id : Nat, at : Nat, size : Nat \ {0}]

(* The first `count` cells of record id lie after position p of f. *)
LiesAt(f, p, count, id, size) ==
    \A j \in 1 .. count : f[p + j] = [id |-> id, at |-> j, size |-> size]

(* The first n records of log l lie whole in f and end at b[1], b[2] ... *)
Parses(f, l, n, b) ==
    /\ n \in 0 .. Len(l) /\ b \in [0 .. n -> 0 .. Len(f)] /\ b[0] = 0
    /\ \A i \in 1 .. n : /\ HeaderCells <= b[i] - b[i - 1]
                         /\ LiesAt(f, b[i - 1], b[i] - b[i - 1], l[i], b[i] - b[i - 1])

(* w cells of a record that has more follow position c, then the file ends *)
(* or another record begins.                                               *)
TornAt(f, c, w) ==
    /\ w \in Nat \ {0} /\ c + w <= Len(f)
    /\ \E id \in Nat, size \in Nat : w < size /\ LiesAt(f, c, w, id, size)
    /\ c + w < Len(f) => f[c + w + 1].at = 1

Stopped(n, b) ==
    \/ b[n] = Len(file) /\ n = Len(logged)
    \/ \E w \in Nat : /\ TornAt(file, b[n], w)
                      /\ ~buried => n = Len(logged) /\ b[n] + w = Len(file)

WalInv ==
    /\ file \in Seq(CellType) /\ logged \in Seq(1 .. MaxRecords)
    /\ attempts \in 0 .. MaxRecords /\ buried \in BOOLEAN
    /\ \E n, b : Parses(file, logged, n, b) /\ Stopped(n, b)

-----------------------------------------------------------------------------
(* A set of naturals that is not empty has a least element: induction for  *)
(* the recursion of the reader.                                            *)
LEMMA LeastNat ==
    ASSUME NEW T \in SUBSET Nat, T # {}
    PROVE  \E x \in T : \A y \in T : x <= y
<1>1. PICK x \in T : \A y \in T : <<y, x>> \notin OpToRel(<, Nat)
    BY NatLessThanWellFounded, WFMin, ZenonT(20)
<1>2. \A y \in T : ~(y < x)
    BY <1>1, ZenonT(20) DEF OpToRel
<1> QED
    BY <1>2

(* Counting down from n, one reaches 0. *)
LEMMA CountDown ==
    ASSUME NEW n \in Nat, NEW S, n \in S, \A i \in 1 .. n : i \in S => i - 1 \in S
    PROVE  0 \in S
<1> DEFINE Left == {i \in 0 .. n : i \in S}
<1>1. Left \in SUBSET Nat /\ n \in Left
    OBVIOUS
<1>2. PICK x \in Left : \A y \in Left : x <= y
  <2> HIDE DEF Left
  <2> QED
    BY <1>1, LeastNat
<1>3. CASE x = 0
    BY <1>2, <1>3
<1>4. CASE x # 0
  <2>1. x \in 1 .. n /\ x - 1 \in 0 .. n /\ ~(x <= x - 1)
    BY <1>2, <1>4
  <2> QED
    BY <1>2, <2>1
<1> QED
    BY <1>3, <1>4

(* One turn of the reader at p, when g says what it reads further on. *)
Turn(f, g, p) ==
    IF p + HeaderCells - 1 > Len(f) THEN <<>>
    ELSE IF ~WholeAt(f, p, HeaderCells) THEN <<Garbled>>
    ELSE IF p + f[p].size - 1 > Len(f) THEN <<>>
    ELSE IF WholeAt(f, p, f[p].size) THEN <<f[p].id>> \o g[p + f[p].size]
    ELSE <<Garbled>>

Reads(f, g, k) == \A p \in k .. Len(f) + 1 : g[p] = Turn(f, g, p)

(* A turn looks only at what is read further on, and not beyond the end. *)
LEMMA TurnLooksAhead ==
    ASSUME NEW f \in Seq(CellType), NEW p \in 1 .. Len(f) + 1, NEW g, NEW h,
           \A q \in p + 1 .. Len(f) + 1 : g[q] = h[q]
    PROVE  Turn(f, g, p) = Turn(f, h, p)
<1>1. Len(f) \in Nat /\ HeaderCells \in Nat \ {0}
    BY WalConstants, LenProperties
<1>2. ASSUME ~(p + HeaderCells - 1 > Len(f)), ~(p + f[p].size - 1 > Len(f))
      PROVE  p + f[p].size \in p + 1 .. Len(f) + 1
  <2>1. p \in 1 .. Len(f)
    BY <1>1, <1>2
  <2>2. f[p] \in CellType
    BY <2>1, ElementOfSeq
  <2>3. f[p].size \in Nat \ {0}
    BY <2>2 DEF CellType
  <2> QED
    BY <1>1, <1>2, <2>1, <2>3
<1> QED
    BY <1>2, ZenonT(20) DEF Turn

(* What is read of a file exists: from the end backwards, one position at  *)
(* a time.                                                                 *)
LEMMA ReadingExists ==
    ASSUME NEW f \in Seq(CellType)
    PROVE  \E g : Reads(f, g, 1)
<1>1. Len(f) \in Nat
    BY LenProperties
<1> DEFINE S == {k \in 0 .. Len(f) + 1 : \E g : Reads(f, g, k + 1)}
<1>2. Len(f) + 1 \in S
    BY <1>1 DEF Reads
<1>3. ASSUME NEW k \in 1 .. Len(f) + 1, k \in S PROVE k - 1 \in S
  <2>1. PICK g : Reads(f, g, k + 1)
    BY <1>3
  <2> DEFINE h == [p \in k .. Len(f) + 1 |-> IF p = k THEN Turn(f, g, k) ELSE g[p]]
  <2>2. ASSUME NEW p \in k .. Len(f) + 1 PROVE h[p] = Turn(f, h, p)
    <3>1. /\ h[k] = Turn(f, g, k)
          /\ \A q \in p + 1 .. Len(f) + 1 : h[q] = g[q]
          /\ p # k => h[p] = g[p] /\ p \in k + 1 .. Len(f) + 1
      BY <1>1
    <3>2. p \in 1 .. Len(f) + 1
      BY <1>1
    <3> HIDE DEF h
    <3>3. Turn(f, g, p) = Turn(f, h, p)
      BY <3>1, <3>2, TurnLooksAhead
    <3>4. h[p] = Turn(f, g, p)
      BY <2>1, <3>1 DEF Reads
    <3> QED
      BY <3>3, <3>4
  <2>3. Reads(f, h, k)
    BY <2>2 DEF Reads
  <2> HIDE DEF h
  <2>4. k - 1 \in 0 .. Len(f) + 1 /\ (k - 1) + 1 = k
    BY <1>1
  <2> QED
    BY <2>3, <2>4
<1>4. 0 \in S
  <2> HIDE DEF S
  <2>1. Len(f) + 1 \in Nat
    BY <1>1
  <2> QED
    BY <1>2, <1>3, <2>1, CountDown
<1>5. 0 + 1 = 1
    OBVIOUS
<1> QED
    BY <1>4, <1>5

(* The reader takes those turns. *)
LEMMA ReplayedReads ==
    ASSUME NEW f \in Seq(CellType)
    PROVE  \E g : Reads(f, g, 1) /\ Replayed(f) = g[1]
<1>1. Len(f) \in Nat
    BY LenProperties
<1> DEFINE Def(g) == [p \in 1 .. Len(f) + 1 |-> Turn(f, g, p)]
           Read == CHOOSE g : g = Def(g)
<1>2. PICK g : Reads(f, g, 1)
    BY ReadingExists
<1> DEFINE h == [p \in 1 .. Len(f) + 1 |-> g[p]]
<1>3. h = Def(h)
  <2>1. \A p \in 1 .. Len(f) + 1 : h[p] = g[p]
    OBVIOUS
  <2>2. ASSUME NEW p \in 1 .. Len(f) + 1 PROVE g[p] = Turn(f, h, p)
    <3>1. \A q \in p + 1 .. Len(f) + 1 : g[q] = h[q]
      BY <1>1, <2>1
    <3> HIDE DEF h
    <3>2. Turn(f, g, p) = Turn(f, h, p)
      BY <3>1, TurnLooksAhead
    <3> QED
      BY <1>2, <3>2 DEF Reads
  <2> QED
    BY <2>2, ZenonT(20)
<1>4. Read = Def(Read)
  <2> HIDE DEF h
  <2>1. \E x : x = Def(x)
    BY <1>3, ZenonT(20)
  <2> QED
    BY <2>1, ZenonT(20)
<1>5. Replayed(f) = Read[1]
    BY ZenonT(20) DEF Replayed, Turn
<1> HIDE DEF Read
<1>6. Reads(f, Read, 1)
    BY <1>4, ZenonT(20) DEF Reads
<1> QED
    BY <1>5, <1>6

-----------------------------------------------------------------------------
(* At p the reader yields id and goes on at q. *)
GoesOn(g, p, id, q) == g[p] = <<id>> \o g[q]

(* A record that lies whole is read, and the reader goes on behind it. *)
LEMMA ReadsWhole ==
    ASSUME NEW f \in Seq(CellType), NEW g, Reads(f, g, 1), NEW s \in 0 .. Len(f),
           NEW size \in Nat, HeaderCells <= size, s + size <= Len(f),
           NEW id, LiesAt(f, s, size, id, size)
    PROVE  GoesOn(g, s + 1, id, s + size + 1)
<1>1. Len(f) \in Nat /\ HeaderCells \in Nat \ {0}
    BY WalConstants, LenProperties
<1> DEFINE p == s + 1
<1>2. ASSUME NEW j \in 0 .. size - 1 PROVE f[p + j].id = id /\ f[p + j].at = j + 1
  <2>1. j + 1 \in 1 .. size /\ p + j = s + (j + 1)
    BY <1>1
  <2>2. f[p + j] = [id |-> id, at |-> j + 1, size |-> size]
    BY <2>1 DEF LiesAt
  <2> QED
    BY <2>2
<1>3. f[p] = [id |-> id, at |-> 1, size |-> size]
  <2>1. 1 \in 1 .. size
    BY <1>1
  <2> QED
    BY <2>1 DEF LiesAt
<1>4. f[p].id = id /\ f[p].size = size
    BY <1>3
<1>5. \A j \in 0 .. HeaderCells - 1 : j \in 0 .. size - 1
    BY <1>1
<1>6. WholeAt(f, p, size) /\ WholeAt(f, p, HeaderCells)
    BY <1>2, <1>4, <1>5, ZenonT(20) DEF WholeAt
<1>7. /\ ~(p + HeaderCells - 1 > Len(f)) /\ ~(p + size - 1 > Len(f))
      /\ p \in 1 .. Len(f) + 1 /\ p + size = s + size + 1
    BY <1>1
<1>8. g[p] = Turn(f, g, p)
    BY <1>7 DEF Reads
<1>9. Turn(f, g, p) = <<f[p].id>> \o g[p + f[p].size]
    BY <1>4, <1>6, <1>7, ZenonT(20) DEF Turn
<1> QED
    BY <1>4, <1>7, <1>8, <1>9 DEF GoesOn

(* One more record in front of what is read. *)
LEMMA OneMore ==
    ASSUME NEW S, NEW x \in S, NEW u \in Seq(S), NEW t \in Seq(S)
    PROVE  <<x>> \o (u \o t) = (<<x>> \o u) \o t
<1>1. <<x>> \in Seq(S)
    OBVIOUS
<1>2. PICK s : s = <<x>>
    OBVIOUS
<1>3. s \in Seq(S)
    BY <1>1, <1>2
<1>4. (s \o u) \o t = s \o (u \o t)
    BY ONLY <1>3, ConcatAssociative, u \in Seq(S), t \in Seq(S)
<1> QED
    BY <1>2, <1>4, Zenon

(* The reader yields the first n records of log l, then t. *)
Yields(r, l, n, t) == r = SubSeq(l, 1, n) \o t

(* Over the whole records of a parse, the reader yields the log. *)
LEMMA ReadsTheLog ==
    ASSUME NEW f \in Seq(CellType), NEW l \in Seq(1 .. MaxRecords), NEW n, NEW b, NEW g,
           Parses(f, l, n, b), Reads(f, g, 1),
           NEW stop \in Seq({Garbled}), stop = g[b[n] + 1]
    PROVE  Yields(g[1], l, n, stop)
<1>1. /\ Len(f) \in Nat /\ Len(l) \in Nat /\ n \in 0 .. Len(l) /\ b[0] = 0
      /\ HeaderCells \in Nat \ {0} /\ \A i \in 0 .. n : b[i] \in 0 .. Len(f)
    BY WalConstants, LenProperties DEF Parses
<1> DEFINE S == {i \in 0 .. n : g[b[i] + 1] = SubSeq(l, i + 1, n) \o stop}
<1>2. n \in S
  <2>1. SubSeq(l, n + 1, n) = <<>>
    BY <1>1, SubSeqEmpty
  <2>2. <<>> \o stop = stop
    BY ConcatEmptySeq
  <2> QED
    BY <1>1, <2>1, <2>2
<1>3. ASSUME NEW i \in 1 .. n, i \in S PROVE i - 1 \in S
  <2>1. PICK s : s = b[i - 1]
    OBVIOUS
  <2>2. PICK size : size = b[i] - b[i - 1]
    OBVIOUS
  <2>3. i \in 0 .. n /\ i - 1 \in 0 .. n /\ (i - 1) + 1 = i /\ i \in 1 .. Len(l)
    BY <1>1
  <2>4. s \in 0 .. Len(f) /\ b[i] \in 0 .. Len(f)
    BY <1>1, <2>1, <2>3
  <2>5. HeaderCells <= size /\ LiesAt(f, s, size, l[i], size)
    BY <2>1, <2>2, ZenonT(20) DEF Parses
  <2>6. size \in Nat /\ s + size = b[i]
    <3>1. PICK e : e = b[i]
      OBVIOUS
    <3>2. s \in Nat /\ e \in Nat /\ size = e - s /\ HeaderCells <= size /\ HeaderCells \in Nat
      BY <1>1, <2>1, <2>2, <2>4, <2>5, <3>1
    <3> QED
      BY ONLY <3>1, <3>2
  <2>7. g[s + 1] = <<l[i]>> \o g[b[i] + 1]
    <3>1. s + size <= Len(f)
      BY <1>1, <2>4, <2>6
    <3>2. GoesOn(g, s + 1, l[i], s + size + 1)
      BY <2>4, <2>5, <2>6, <3>1, ReadsWhole, ZenonT(20)
    <3> QED
      BY <2>6, <3>2 DEF GoesOn
  <2>8. g[b[i] + 1] = SubSeq(l, i + 1, n) \o stop
    BY <1>3
  <2>9. <<l[i]>> \o (SubSeq(l, i + 1, n) \o stop) = SubSeq(l, i, n) \o stop
    <3> DEFINE A == 1 .. MaxRecords \cup {Garbled}
    <3>1. stop \in Seq(A)
      BY SeqMonotonic
    <3>2. PICK x : x = l[i]
      OBVIOUS
    <3>3. x \in A
      BY <2>3, <3>2, ElementOfSeq
    <3>4. PICK u : u = SubSeq(l, i + 1, n)
      OBVIOUS
    <3>5. u \in Seq(A)
      <4>1. i + 1 \in 1 .. Len(l) + 1 /\ n \in i .. Len(l) /\ n \in 0 .. Len(l)
        BY <1>1, <2>3
      <4>2. \A j \in i + 1 .. n : j \in 1 .. Len(l)
        BY <4>1
      <4>3. \A j \in i + 1 .. n : l[j] \in 1 .. MaxRecords
        BY <4>2, ElementOfSeq
      <4>4. i + 1 \in Int /\ n \in Int
        BY <4>1
      <4>5. u \in Seq(1 .. MaxRecords)
        BY ONLY <3>4, <4>3, <4>4, SubSeqProperties
      <4> QED
        BY <4>5, SeqMonotonic
    <3>6. SubSeq(l, i, n) = <<l[i]>> \o u
      <4>1. n \in i .. Len(l)
        BY <1>1, <2>3
      <4> QED
        BY <2>3, <3>4, <4>1, SubSeqRecursiveFirst
    <3> HIDE DEF A
    <3>7. <<x>> \o (u \o stop) = (<<x>> \o u) \o stop
      BY ONLY <3>1, <3>3, <3>5, OneMore
    <3> QED
      BY <3>2, <3>4, <3>6, <3>7, Zenon
  <2> QED
    BY <2>1, <2>3, <2>7, <2>8, <2>9
<1>4. 0 \in S
  <2> HIDE DEF S
  <2> QED
    BY <1>1, <1>2, <1>3, CountDown
<1>5. b[0] + 1 = 1 /\ 0 + 1 = 1
    BY <1>1
<1> QED
    BY <1>4, <1>5 DEF Yields

(* Where the parse stops the reader yields nothing more: it ends at a      *)
(* record that reaches the end of the file, and raises at one that another *)
(* record follows.                                                         *)
LEMMA ReaderStops ==
    ASSUME NEW f \in Seq(CellType), NEW c \in 0 .. Len(f), NEW g, Reads(f, g, 1)
    PROVE  /\ c = Len(f) => g[c + 1] = <<>>
           /\ \A w : TornAt(f, c, w) => /\ g[c + 1] \in {<<>>, <<Garbled>>}
                                        /\ c + w = Len(f) => g[c + 1] = <<>>
<1>1. Len(f) \in Nat /\ HeaderCells \in Nat \ {0} /\ c + 1 \in 1 .. Len(f) + 1
    BY WalConstants, LenProperties
<1> DEFINE p == c + 1
<1>2. g[p] = Turn(f, g, p)
    BY <1>1 DEF Reads
<1>3. CASE c = Len(f)
  <2>1. p + HeaderCells - 1 > Len(f)
    BY <1>1, <1>3
  <2>2. g[p] = <<>>
    BY <1>2, <2>1 DEF Turn
  <2>3. \A w : ~TornAt(f, c, w)
    BY <1>1, <1>3 DEF TornAt
  <2> QED
    BY <2>2, <2>3
<1>4. ASSUME NEW w, TornAt(f, c, w)
      PROVE  g[p] \in {<<>>, <<Garbled>>} /\ (c + w = Len(f) => g[p] = <<>>) /\ c # Len(f)
  <2>1. PICK id \in Nat, size \in Nat : w < size /\ LiesAt(f, c, w, id, size)
    BY <1>4 DEF TornAt
  <2>2. w \in Nat \ {0} /\ c + w <= Len(f) /\ (c + w < Len(f) => f[c + w + 1].at = 1)
    BY <1>4 DEF TornAt
  <2>3. f[p].size = size /\ f[p].id = id /\ f[p].at = 1
    <3>1. 1 \in 1 .. w
      BY <2>2
    <3>2. f[p] = [id |-> id, at |-> 1, size |-> size]
      BY <2>1, <3>1, ZenonT(20) DEF LiesAt
    <3> QED
      BY <3>2
  <2>4. \A j \in 0 .. w - 1 : f[p + j].id = id /\ f[p + j].at = j + 1
    <3> SUFFICES ASSUME NEW j \in 0 .. w - 1 PROVE f[p + j].id = id /\ f[p + j].at = j + 1
      OBVIOUS
    <3>1. j + 1 \in 1 .. w /\ p + j = c + (j + 1)
      BY <1>1, <2>2
    <3>2. f[p + j] = [id |-> id, at |-> j + 1, size |-> size]
      BY <2>1, <3>1 DEF LiesAt
    <3> QED
      BY <3>2
  <2>5. ~(p + size - 1 > Len(f)) => ~WholeAt(f, p, size)
    <3> SUFFICES ASSUME ~(p + size - 1 > Len(f)), WholeAt(f, p, size) PROVE FALSE
      OBVIOUS
    <3>1. w \in 0 .. size - 1 /\ p + w = c + w + 1 /\ c + w < Len(f)
      BY <1>1, <2>1, <2>2
    <3>2. f[p + w].at = w + 1
      BY <3>1 DEF WholeAt
    <3> QED
      BY <2>2, <3>1, <3>2
  <2>6. g[p] \in {<<>>, <<Garbled>>}
    BY <1>2, <2>3, <2>5 DEF Turn
  <2>7. ASSUME c + w = Len(f) PROVE g[p] = <<>>
    <3>1. p + size - 1 > Len(f)
      BY <1>1, <2>1, <2>2, <2>7
    <3>2. ~(p + HeaderCells - 1 > Len(f)) => WholeAt(f, p, HeaderCells)
      <4>1. ~(p + HeaderCells - 1 > Len(f)) => \A j \in 0 .. HeaderCells - 1 : j \in 0 .. w - 1
        BY <1>1, <2>2, <2>7
      <4> QED
        BY <2>3, <2>4, <4>1 DEF WholeAt
    <3> QED
      BY <1>2, <2>3, <3>1, <3>2 DEF Turn
  <2>8. c # Len(f)
    BY <1>1, <2>2
  <2> QED
    BY <2>6, <2>7, <2>8
<1> QED
    BY <1>3, <1>4

-----------------------------------------------------------------------------
(* The cells of a record ... *)
LEMMA CellsAre ==
    ASSUME NEW id \in Nat, NEW size \in Nat
    PROVE  /\ Cells(id, size) \in Seq(CellType) /\ Len(Cells(id, size)) = size
           /\ \A j \in 1 .. size : Cells(id, size)[j] = [id |-> id, at |-> j, size |-> size]
<1>1. \A j \in 1 .. size : [id |-> id, at |-> j, size |-> size] \in CellType
    BY DEF CellType
<1> QED
    BY <1>1 DEF Cells

(* ... and of one cut short. *)
LEMMA CutCells ==
    ASSUME NEW id \in Nat, NEW size \in Nat, NEW w \in 1 .. size
    PROVE  LET x == SubSeq(Cells(id, size), 1, w)
           IN  /\ x \in Seq(CellType) /\ Len(x) = w
               /\ \A j \in 1 .. w : x[j] = [id |-> id, at |-> j, size |-> size]
<1> DEFINE c == Cells(id, size)
           x == SubSeq(c, 1, w)
<1>1. /\ c \in Seq(CellType) /\ Len(c) = size
      /\ \A j \in 1 .. size : c[j] = [id |-> id, at |-> j, size |-> size]
    BY CellsAre
<1> HIDE DEF c
<1>2. /\ x \in Seq(CellType) /\ Len(x) = IF 1 <= w THEN w - 1 + 1 ELSE 0
      /\ \A j \in 1 .. w - 1 + 1 : x[j] = c[1 + j - 1]
    BY <1>1, SubSeqProperties
<1> HIDE DEF x
<1>3. Len(x) = w
    BY <1>2
<1>4. ASSUME NEW j \in 1 .. w PROVE x[j] = [id |-> id, at |-> j, size |-> size]
  <2>1. j \in 1 .. w - 1 + 1 /\ 1 + j - 1 = j /\ j \in 1 .. size
    OBVIOUS
  <2> QED
    BY <1>1, <1>2, <2>1
<1> QED
    BY <1>2, <1>3, <1>4 DEF x, c

(* What a file holds when x is appended to it. *)
LEMMA Appended ==
    ASSUME NEW f \in Seq(CellType), NEW x \in Seq(CellType)
    PROVE  /\ f \o x \in Seq(CellType) /\ Len(f) \in Nat /\ Len(x) \in Nat
           /\ Len(f \o x) = Len(f) + Len(x)
           /\ \A i \in 1 .. Len(f) : (f \o x)[i] = f[i]
           /\ \A j \in 1 .. Len(x) : (f \o x)[Len(f) + j] = x[j]
<1>1. Len(f) \in Nat /\ Len(x) \in Nat
    BY LenProperties
<1>2. f \o x \in Seq(CellType) /\ Len(f \o x) = Len(f) + Len(x)
    BY ConcatProperties
<1>3. \A i \in 1 .. Len(f) : (f \o x)[i] = f[i]
    BY <1>1
<1>4. \A j \in 1 .. Len(x) : (f \o x)[Len(f) + j] = x[j]
    BY <1>1
<1> QED
    BY <1>1, <1>2, <1>3, <1>4

(* What lies in a file still lies there when the file grows. *)
LEMMA LiesOn ==
    ASSUME NEW f \in Seq(CellType), NEW x \in Seq(CellType), NEW p \in Nat, NEW count \in Nat,
           p + count <= Len(f), NEW id, NEW size, LiesAt(f, p, count, id, size)
    PROVE  LiesAt(f \o x, p, count, id, size)
<1> SUFFICES ASSUME NEW j \in 1 .. count
             PROVE  (f \o x)[p + j] = [id |-> id, at |-> j, size |-> size]
    BY DEF LiesAt
<1>1. p + j \in 1 .. Len(f)
    BY Appended
<1>2. (f \o x)[p + j] = f[p + j]
    BY <1>1, Appended
<1> QED
    BY <1>2 DEF LiesAt

(* The parse of a file is one of the longer file and log. *)
LEMMA ParsesOn ==
    ASSUME NEW f \in Seq(CellType), NEW x \in Seq(CellType),
           NEW l \in Seq(1 .. MaxRecords), NEW k \in Seq(1 .. MaxRecords),
           Len(l) <= Len(k), \A i \in 1 .. Len(l) : k[i] = l[i],
           NEW n, NEW b, Parses(f, l, n, b)
    PROVE  Parses(f \o x, k, n, b)
<1>1. /\ Len(f) \in Nat /\ Len(f \o x) \in Nat /\ Len(f) <= Len(f \o x)
      /\ Len(l) \in Nat /\ Len(k) \in Nat /\ n \in 0 .. Len(l) /\ HeaderCells \in Nat \ {0}
    BY Appended, LenProperties, WalConstants DEF Parses
<1>2. n \in 0 .. Len(k) /\ b \in [0 .. n -> 0 .. Len(f \o x)] /\ b[0] = 0
    BY <1>1 DEF Parses
<1>3. ASSUME NEW i \in 1 .. n
      PROVE  /\ HeaderCells <= b[i] - b[i - 1]
             /\ LiesAt(f \o x, b[i - 1], b[i] - b[i - 1], k[i], b[i] - b[i - 1])
  <2>1. PICK s, e : s = b[i - 1] /\ e = b[i]
    OBVIOUS
  <2>2. i \in 0 .. n /\ i - 1 \in 0 .. n /\ k[i] = l[i]
    BY <1>1
  <2>3. s \in 0 .. Len(f) /\ e \in 0 .. Len(f)
    BY <2>1, <2>2 DEF Parses
  <2>4. HeaderCells <= e - s /\ LiesAt(f, s, e - s, l[i], e - s)
    BY <2>1, ZenonT(20) DEF Parses
  <2>5. s \in Nat /\ e - s \in Nat /\ s + (e - s) <= Len(f)
    BY <1>1, <2>3, <2>4
  <2>6. LiesAt(f \o x, s, e - s, l[i], e - s)
    BY <2>4, <2>5, LiesOn
  <2> QED
    BY <2>1, <2>2, <2>4, <2>6
<1> QED
    BY <1>2, <1>3, ZenonT(20) DEF Parses

(* A torn record stays torn when another one is written behind it. *)
LEMMA TornOn ==
    ASSUME NEW f \in Seq(CellType), NEW x \in Seq(CellType), Len(x) # 0, x[1].at = 1,
           NEW c \in Nat, NEW w, TornAt(f, c, w)
    PROVE  TornAt(f \o x, c, w)
<1>1. /\ Len(f) \in Nat /\ Len(x) \in Nat /\ Len(f \o x) = Len(f) + Len(x)
      /\ w \in Nat \ {0} /\ c + w <= Len(f) /\ c + w <= Len(f \o x)
    BY Appended DEF TornAt
<1>2. PICK id \in Nat, size \in Nat : w < size /\ LiesAt(f, c, w, id, size)
    BY DEF TornAt
<1>3. LiesAt(f \o x, c, w, id, size)
    BY <1>1, <1>2, LiesOn
<1>4. (f \o x)[c + w + 1].at = 1
  <2>1. CASE c + w < Len(f)
    <3>1. c + w + 1 \in 1 .. Len(f)
      BY <1>1, <2>1
    <3>2. f[c + w + 1].at = 1
      BY <2>1 DEF TornAt
    <3> QED
      BY <3>1, <3>2, Appended
  <2>2. CASE c + w = Len(f)
    <3>1. 1 \in 1 .. Len(x)
      BY <1>1
    <3>2. (f \o x)[Len(f) + 1] = x[1]
      BY <3>1, Appended
    <3> QED
      BY <2>2, <3>2
  <2> QED
    BY <1>1, <2>1, <2>2
<1> QED
    BY <1>1, <1>2, <1>3, <1>4 DEF TornAt

(* The whole log lies in the file, and nothing else. *)
Clean(f, l) == \E n, b : Parses(f, l, n, b) /\ b[n] = Len(f) /\ n = Len(l)

(* A record written whole behind whole records makes the parse longer. *)
LEMMA WholeRecord ==
    ASSUME NEW f \in Seq(CellType), NEW l \in Seq(1 .. MaxRecords), Clean(f, l),
           NEW id \in 1 .. MaxRecords, NEW size \in Nat, HeaderCells <= size,
           NEW x \in Seq(CellType), Len(x) = size,
           \A j \in 1 .. size : x[j] = [id |-> id, at |-> j, size |-> size]
    PROVE  Clean(f \o x, Append(l, id))
<1>1. PICK n, b : Parses(f, l, n, b) /\ b[n] = Len(f) /\ n = Len(l)
    BY DEF Clean
<1> DEFINE k == Append(l, id)
           e == f \o x
           c == [i \in 0 .. n + 1 |-> IF i = n + 1 THEN Len(e) ELSE b[i]]
<1>2. /\ Len(f) \in Nat /\ n \in Nat /\ HeaderCells \in Nat \ {0}
      /\ e \in Seq(CellType) /\ Len(e) = Len(f) + size
    BY <1>1, Appended, LenProperties, WalConstants
<1>3. /\ k \in Seq(1 .. MaxRecords) /\ Len(k) = n + 1 /\ k[n + 1] = id
      /\ \A i \in 1 .. Len(l) : k[i] = l[i]
    BY <1>1, <1>2, AppendProperties
<1>4. LiesAt(e, Len(f), size, id, size)
    BY Appended DEF LiesAt
<1> HIDE DEF k
<1>5. Parses(e, k, n, b)
  <2>1. Len(l) <= Len(k)
    BY <1>1, <1>2, <1>3
  <2> QED
    BY <1>1, <1>3, <2>1, ParsesOn
<1> HIDE DEF e
<1>6. /\ c[n + 1] = Len(e) /\ \A i \in 0 .. n : c[i] = b[i]
      /\ n + 1 \in 0 .. Len(k)
    BY <1>2, <1>3
<1>7. c \in [0 .. n + 1 -> 0 .. Len(e)]
  <2>1. \A i \in 0 .. n : b[i] \in 0 .. Len(e)
    BY <1>5 DEF Parses
  <2>2. Len(e) \in 0 .. Len(e) /\ \A i \in 0 .. n + 1 : i = n + 1 \/ i \in 0 .. n
    BY <1>2
  <2> QED
    BY <2>1, <2>2
<1> HIDE DEF c
<1>8. ASSUME NEW i \in 1 .. n + 1
      PROVE  /\ HeaderCells <= c[i] - c[i - 1]
             /\ LiesAt(e, c[i - 1], c[i] - c[i - 1], k[i], c[i] - c[i - 1])
  <2>1. CASE i = n + 1
    <3>1. i - 1 = n /\ n \in 0 .. n
      BY <1>2, <2>1
    <3>2. c[i - 1] = Len(f) /\ c[i] = Len(e) /\ k[i] = id
      BY <1>1, <1>3, <1>6, <2>1, <3>1
    <3>3. Len(e) - Len(f) = size
      BY <1>2
    <3>4. c[i] - c[i - 1] = size
      BY <3>2, <3>3
    <3> QED
      BY <1>4, <3>2, <3>4
  <2>2. CASE i # n + 1
    <3>1. i \in 1 .. n /\ i \in 0 .. n /\ i - 1 \in 0 .. n
      BY <1>2, <2>2
    <3>2. c[i] = b[i] /\ c[i - 1] = b[i - 1]
      BY <1>6, <3>1
    <3> QED
      BY <1>5, <3>1, <3>2, ZenonT(20) DEF Parses
  <2> QED
    BY <2>1, <2>2
<1>9. c[0] = 0
  <2>1. 0 \in 0 .. n
    BY <1>2
  <2> QED
    BY <1>5, <1>6, <2>1 DEF Parses
<1>10. Parses(e, k, n + 1, c)
    BY <1>6, <1>7, <1>8, <1>9, ZenonT(20) DEF Parses
<1> QED
    BY <1>3, <1>6, <1>10, ZenonT(20) DEF Clean, e, k

(* A record cut short behind whole records is where the parse ends. *)
LEMMA TornRecord ==
    ASSUME NEW f \in Seq(CellType), NEW id \in Nat, NEW size \in Nat, NEW w \in 1 .. size - 1,
           NEW x \in Seq(CellType), Len(x) = w,
           \A j \in 1 .. w : x[j] = [id |-> id, at |-> j, size |-> size]
    PROVE  TornAt(f \o x, Len(f), w) /\ Len(f) + w = Len(f \o x)
<1>1. /\ Len(f) \in Nat /\ w \in Nat \ {0} /\ w < size
      /\ Len(f \o x) = Len(f) + w
  <2>1. Len(f) \in Nat /\ Len(f \o x) = Len(f) + w
    BY Appended, Zenon
  <2>2. w \in Nat \ {0} /\ w < size
    OBVIOUS
  <2> QED
    BY <2>1, <2>2
<1>2. LiesAt(f \o x, Len(f), w, id, size)
    BY Appended DEF LiesAt
<1>3. Len(f) + w <= Len(f \o x) /\ ~(Len(f) + w < Len(f \o x))
    BY <1>1
<1> QED
    BY <1>1, <1>2, <1>3 DEF TornAt

(* A file that ends inside the record the parse stops at has a torn tail. *)
LEMMA TornEnds ==
    ASSUME file \in Seq(CellType), NEW c \in Nat, NEW w, TornAt(file, c, w), c + w = Len(file)
    PROVE  TornTail
<1>1. PICK id \in Nat, size \in Nat : w < size /\ LiesAt(file, c, w, id, size)
    BY DEF TornAt
<1>2. w \in Nat \ {0} /\ w \in 1 .. w
    BY DEF TornAt
<1>3. file[Len(file)] = [id |-> id, at |-> w, size |-> size]
    BY <1>1, <1>2 DEF LiesAt
<1>4. file # <<>>
  <2>1. Len(file) # 0
    BY <1>2
  <2> QED
    BY <2>1
<1> QED
    BY <1>1, <1>3, <1>4 DEF TornTail

-----------------------------------------------------------------------------
(* Before anything is written. *)
LEMMA EmptyParses == Parses(<<>>, <<>>, 0, [i \in {0} |-> 0])
    BY WalConstants DEF Parses

(* The invariant holds at the start ... *)
LEMMA InitWal ==
    ASSUME Init PROVE WalInv
<1>1. file = <<>> /\ logged = <<>> /\ Len(file) = 0 /\ Len(logged) = 0
    BY DEF Init
<1>2. Stopped(0, [i \in {0} |-> 0])
    BY <1>1 DEF Stopped
<1>3. file \in Seq(CellType) /\ logged \in Seq(1 .. MaxRecords)
    BY <1>1
<1>4. attempts \in 0 .. MaxRecords
  <2>1. attempts = 0 /\ MaxRecords \in Nat
    BY WalConstants, Zenon DEF Init
  <2> QED
    BY <2>1
<1>5. buried \in BOOLEAN
    BY Zenon DEF Init
<1> QED
    BY <1>1, <1>2, <1>3, <1>4, <1>5, EmptyParses, ZenonT(20) DEF WalInv

(* ... and after a rotation. *)
LEMMA RotateKeeps ==
    ASSUME WalInv, Rotate PROVE WalInv'
<1>1. file' = <<>> /\ logged' = <<>> /\ Len(file') = 0 /\ Len(logged') = 0
    BY DEF Rotate
<1>2. Stopped(0, [i \in {0} |-> 0])'
    BY <1>1 DEF Stopped
<1>3. file' \in Seq(CellType) /\ logged' \in Seq(1 .. MaxRecords)
    BY <1>1
<1>4. attempts' \in 0 .. MaxRecords /\ buried' \in BOOLEAN
    BY Zenon DEF Rotate, WalInv
<1>5. Parses(file', logged', 0, [i \in {0} |-> 0])
    BY <1>1, EmptyParses
<1> QED
    BY <1>2, <1>3, <1>4, <1>5, ZenonT(20) DEF WalInv

(* A record is written whole. *)
LEMMA WriteKeeps ==
    ASSUME WalInv, NEW size \in Sizes, WriteRecord(size) PROVE WalInv'
<1>1. PICK id : id = attempts + 1
    OBVIOUS
<1>2. PICK x : x = Cells(id, size)
    OBVIOUS
<1>3. /\ id \in 1 .. MaxRecords /\ id \in Nat /\ attempts' \in 0 .. MaxRecords
      /\ size \in Nat \ {0} /\ HeaderCells <= size
    BY <1>1, WalConstants DEF WalInv, WriteRecord, Sizes
<1>4. /\ x \in Seq(CellType) /\ Len(x) = size
      /\ \A j \in 1 .. size : x[j] = [id |-> id, at |-> j, size |-> size]
    BY <1>2, <1>3, CellsAre
<1>5. file' = file \o x /\ logged' = Append(logged, id) /\ buried' = (buried \/ TornTail)
    BY <1>1, <1>2 DEF WriteRecord
<1>6. file \in Seq(CellType) /\ logged \in Seq(1 .. MaxRecords)
    BY DEF WalInv
<1>7. /\ file' \in Seq(CellType) /\ logged' \in Seq(1 .. MaxRecords)
      /\ buried' \in BOOLEAN
    BY <1>3, <1>4, <1>5, <1>6, Appended, AppendProperties DEF TornTail
<1>8. PICK n, b : Parses(file, logged, n, b) /\ Stopped(n, b)
    BY DEF WalInv
<1>9. CASE b[n] = Len(file) /\ n = Len(logged)
  <2>1. size \in Nat
    BY <1>3
  <2>2. Clean(file, logged)
    BY <1>8, <1>9, ZenonT(20) DEF Clean
  <2>3. Clean(file \o x, Append(logged, id))
    BY <1>3, <1>4, <1>6, <2>1, <2>2, WholeRecord, ZenonT(20)
  <2>4. Clean(file', logged')
    BY <1>5, <2>3
  <2> QED
    BY <1>3, <1>7, <2>4, ZenonT(20) DEF Clean, WalInv, Stopped
<1>10. CASE \E w \in Nat : /\ TornAt(file, b[n], w)
                           /\ ~buried => n = Len(logged) /\ b[n] + w = Len(file)
  <2>1. PICK w \in Nat : /\ TornAt(file, b[n], w)
                         /\ ~buried => n = Len(logged) /\ b[n] + w = Len(file)
    BY <1>10, Zenon
  <2>2. b[n] \in Nat
    BY <1>6, <1>8, LenProperties DEF Parses
  <2>3. buried'
    BY <1>5, <1>6, <2>1, <2>2, TornEnds
  <2>4. TornAt(file', b[n], w)
    <3>1. Len(x) # 0 /\ x[1].at = 1
      BY <1>3, <1>4
    <3> QED
      BY <1>4, <1>5, <1>6, <2>1, <2>2, <3>1, TornOn
  <2>5. Parses(file', logged', n, b)
    <3>1. /\ Append(logged, id) \in Seq(1 .. MaxRecords)
          /\ Len(logged) <= Len(Append(logged, id))
          /\ \A i \in 1 .. Len(logged) : Append(logged, id)[i] = logged[i]
      BY <1>3, <1>6, AppendProperties, LenProperties
    <3> QED
      BY <1>4, <1>5, <1>6, <1>8, <3>1, ParsesOn
  <2> QED
    BY <1>3, <1>7, <2>1, <2>3, <2>4, <2>5, ZenonT(20) DEF WalInv, Stopped
<1> QED
    BY <1>8, <1>9, <1>10 DEF Stopped

(* A record is cut short. *)
LEMMA TearKeeps ==
    ASSUME WalInv, NEW size \in Sizes, NEW written \in 1 .. size - 1, TearRecord(size, written)
    PROVE  WalInv'
<1>1. PICK id : id = attempts + 1
    OBVIOUS
<1>2. PICK x : x = SubSeq(Cells(id, size), 1, written)
    OBVIOUS
<1>3. /\ id \in Nat /\ attempts' \in 0 .. MaxRecords /\ size \in Nat
      /\ written \in 1 .. size /\ written \in Nat \ {0}
    BY <1>1, WalConstants DEF WalInv, TearRecord, Sizes
<1>4. /\ x \in Seq(CellType) /\ Len(x) = written
      /\ \A j \in 1 .. written : x[j] = [id |-> id, at |-> j, size |-> size]
    BY <1>2, <1>3, CutCells
<1>5. file' = file \o x /\ logged' = logged /\ buried' = (buried \/ TornTail)
    BY <1>1, <1>2 DEF TearRecord
<1>6. file \in Seq(CellType) /\ logged \in Seq(1 .. MaxRecords)
    BY DEF WalInv
<1>7. /\ file' \in Seq(CellType) /\ logged' \in Seq(1 .. MaxRecords)
      /\ buried' \in BOOLEAN
    BY <1>4, <1>5, <1>6, Appended DEF TornTail
<1>8. PICK n, b : Parses(file, logged, n, b) /\ Stopped(n, b)
    BY DEF WalInv
<1>9. Parses(file', logged', n, b)
  <2>1. Len(logged) <= Len(logged)
    BY <1>6, LenProperties
  <2> QED
    BY <1>4, <1>5, <1>6, <1>8, <2>1, ParsesOn
<1>10. CASE b[n] = Len(file) /\ n = Len(logged)
  <2>1. TornAt(file \o x, Len(file), written) /\ Len(file) + written = Len(file \o x)
    BY <1>3, <1>4, <1>6, TornRecord, SMTT(20)
  <2>2. TornAt(file', b[n], written) /\ b[n] + written = Len(file')
    BY <1>5, <1>10, <2>1, Zenon
  <2> QED
    BY <1>3, <1>5, <1>7, <1>9, <1>10, <2>2, ZenonT(20) DEF WalInv, Stopped
<1>11. CASE \E w \in Nat : /\ TornAt(file, b[n], w)
                           /\ ~buried => n = Len(logged) /\ b[n] + w = Len(file)
  <2>1. PICK w \in Nat : /\ TornAt(file, b[n], w)
                         /\ ~buried => n = Len(logged) /\ b[n] + w = Len(file)
    BY <1>11, Zenon
  <2>2. b[n] \in Nat
    BY <1>6, <1>8, LenProperties DEF Parses
  <2>3. buried'
    BY <1>5, <1>6, <2>1, <2>2, TornEnds
  <2>4. TornAt(file', b[n], w)
    <3>1. Len(x) # 0 /\ x[1].at = 1
      BY <1>3, <1>4
    <3> QED
      BY <1>4, <1>5, <1>6, <2>1, <2>2, <3>1, TornOn
  <2> QED
    BY <1>3, <1>7, <1>9, <2>1, <2>3, <2>4, ZenonT(20) DEF WalInv, Stopped
<1> QED
    BY <1>8, <1>10, <1>11 DEF Stopped

(* Every step keeps the invariant; a crash and a restart leave the file    *)
(* as it is.                                                               *)
LEMMA NextWal ==
    ASSUME WalInv, [Next]_vars PROVE WalInv'
<1>1. ASSUME NEW size \in Sizes, WriteRecord(size) PROVE WalInv'
    BY <1>1, WriteKeeps
<1>2. ASSUME NEW size \in Sizes, NEW written \in 1 .. size - 1, TearRecord(size, written)
      PROVE  WalInv'
    BY <1>2, TearKeeps
<1>3. CASE Rotate
    BY <1>3, RotateKeeps
<1>4. CASE UNCHANGED <<file, logged, attempts, buried>>
  <2>1. file' = file /\ logged' = logged /\ attempts' = attempts /\ buried' = buried
    BY <1>4
  <2> QED
    BY <2>1, ZenonT(20) DEF WalInv, Stopped
<1>5. Crash \/ Restart \/ UNCHANGED vars => UNCHANGED <<file, logged, attempts, buried>>
    BY DEF Crash, Restart, vars
<1> QED
    BY <1>1, <1>2, <1>3, <1>4, <1>5 DEF Next

(* What the reader yields: the first records of the log, and perhaps one   *)
(* that does not decode; all of the log when nothing was written behind a  *)
(* record that was cut short.                                              *)
LEMMA ReadsBack ==
    ASSUME WalInv
    PROVE  \E n \in 0 .. Len(logged), t \in {<<>>, <<Garbled>>} :
              /\ Yields(Replayed(file), logged, n, t)
              /\ ~buried => n = Len(logged) /\ t = <<>>
<1>1. file \in Seq(CellType) /\ logged \in Seq(1 .. MaxRecords) /\ Len(file) \in Nat
    BY LenProperties DEF WalInv
<1>2. PICK n, b : Parses(file, logged, n, b) /\ Stopped(n, b)
    BY DEF WalInv
<1>3. PICK g : Reads(file, g, 1) /\ Replayed(file) = g[1]
    BY <1>1, ReplayedReads
<1>4. PICK c, t : c = b[n] /\ t = g[c + 1]
    OBVIOUS
<1>5. n \in 0 .. Len(logged) /\ c \in 0 .. Len(file)
    BY <1>1, <1>2, <1>4 DEF Parses
<1>6. /\ c = Len(file) => t = <<>>
      /\ \A w : TornAt(file, c, w) => /\ t \in {<<>>, <<Garbled>>}
                                      /\ c + w = Len(file) => t = <<>>
    BY <1>1, <1>3, <1>4, <1>5, ReaderStops, ZenonT(20)
<1>7. t \in {<<>>, <<Garbled>>} /\ (~buried => n = Len(logged) /\ t = <<>>)
    BY <1>2, <1>4, <1>6, ZenonT(20) DEF Stopped
<1>8. Yields(g[1], logged, n, t)
  <2>1. <<>> \in Seq({Garbled}) /\ <<Garbled>> \in Seq({Garbled})
    OBVIOUS
  <2>2. t \in Seq({Garbled}) /\ t = g[b[n] + 1]
    BY <1>4, <1>7, <2>1, Zenon
  <2> QED
    BY <1>1, <1>2, <1>3, <2>2, ReadsTheLog, ZenonT(20)
<1> QED
    BY <1>3, <1>5, <1>7, <1>8, ZenonT(20)

-----------------------------------------------------------------------------
(* The reader gets to the first record that was cut short, and no further. *)
THEOREM WalReadable == Spec => []WalInv
<1>1. Init => WalInv
    BY InitWal
<1>2. WalInv /\ [Next]_vars => WalInv'
    BY NextWal
<1> QED
    BY <1>1, <1>2, PTL DEF Spec

(* A record that a crash or a full disk cut short is skipped: as long as   *)
(* nothing is written behind it, WALReader.records gives back exactly the  *)
(* records written since the last rotation.                                *)
THEOREM TornRecordIsSkipped == Spec => []CleanStop
<1>1. WalInv => CleanStop
  <2> SUFFICES ASSUME WalInv, ~buried PROVE Replayed(file) = logged
    BY DEF CleanStop
  <2>1. Replayed(file) = SubSeq(logged, 1, Len(logged)) \o <<>>
    BY ReadsBack, ZenonT(20) DEF Yields
  <2>2. logged \in Seq(1 .. MaxRecords)
    BY DEF WalInv
  <2>3. SubSeq(logged, 1, Len(logged)) = logged
    BY <2>2, SubSeqFull
  <2>4. logged \o <<>> = logged
    BY <2>2, ConcatEmptySeq
  <2> QED
    BY <2>1, <2>3, <2>4, Zenon
<1> QED
    BY <1>1, WalReadable, PTL

(* Whatever was cut short and whatever was written behind it, the reader   *)
(* yields no record that was not written, none twice and none out of       *)
(* order: up to where it stops or raises it yields a prefix of the log.    *)
THEOREM ReaderInventsNothing == Spec => []NothingInvented
<1>1. WalInv => NothingInvented
  <2> SUFFICES ASSUME WalInv PROVE NothingInvented
    OBVIOUS
  <2>1. PICK n \in 0 .. Len(logged), t \in {<<>>, <<Garbled>>} :
           Replayed(file) = SubSeq(logged, 1, n) \o t
    BY ReadsBack, ZenonT(20) DEF Yields
  <2>2. logged \in Seq(1 .. MaxRecords) /\ Len(logged) \in Nat
    BY LenProperties DEF WalInv
  <2>3. PICK p : p = SubSeq(logged, 1, n)
    OBVIOUS
  <2>4. /\ p \in Seq(1 .. MaxRecords) /\ Len(p) = n
        /\ \A i \in 1 .. n : p[i] = logged[i]
    <3>1. \A i \in 1 .. n : i \in 1 .. Len(logged)
      BY <2>2
    <3>2. \A i \in 1 .. n : logged[i] \in 1 .. MaxRecords
      BY <2>2, <3>1, ElementOfSeq
    <3>3. /\ p \in Seq(1 .. MaxRecords) /\ Len(p) = IF 1 <= n THEN n - 1 + 1 ELSE 0
          /\ \A i \in 1 .. n - 1 + 1 : p[i] = logged[1 + i - 1]
      BY <2>2, <2>3, <3>2, SubSeqProperties
    <3>4. \A i \in 1 .. n : i \in 1 .. n - 1 + 1 /\ 1 + i - 1 = i
      BY <2>2
    <3> QED
      BY <2>2, <3>3, <3>4
  <2>5. IsPrefix(p, logged)
    <3>1. SubSeq(p, 1, Len(p)) = p
      BY <2>4, SubSeqFull
    <3> QED
      BY <2>2, <2>3, <2>4, <3>1 DEF IsPrefix
  <2>6. CASE t = <<>>
    <3>1. Replayed(file) = p
      <4>1. p \o <<>> = p
        BY <2>4, ConcatEmptySeq
      <4> QED
        BY <2>1, <2>3, <2>6, <4>1, Zenon
    <3>2. Garbled \notin Range(p)
      BY <2>4, WalConstants DEF Range
    <3> QED
      BY <2>5, <3>1, <3>2, Zenon DEF NothingInvented
  <2>7. CASE t = <<Garbled>>
    <3>1. PICK r : r = p \o <<Garbled>>
      OBVIOUS
    <3>2. /\ Len(r) = n + 1 /\ r[n + 1] = Garbled /\ DOMAIN r = 1 .. n + 1
          /\ \A i \in 1 .. n : r[i] = p[i]
      BY <2>4, <3>1
    <3>3. Garbled \in Range(r)
      BY <3>2 DEF Range
    <3>4. Front(r) = p
      BY <2>4, <3>2 DEF Front
    <3>5. Replayed(file) = r
      BY <2>1, <2>3, <2>7, <3>1, Zenon
    <3> QED
      BY <2>5, <3>3, <3>4, <3>5, Zenon DEF NothingInvented
  <2> QED
    BY <2>6, <2>7
<1> QED
    BY <1>1, WalReadable, PTL

=============================================================================
