--------------------------- MODULE FlatFileProofs ---------------------------
(***************************************************************************)
(* A flat file keeps every entry whose call returned, through kills,       *)
(* failing writes and repairs.                                             *)
(***************************************************************************)
EXTENDS FlatFile, TLAPS

-----------------------------------------------------------------------------
(* What the operators on files do.                                         *)

\* A write changes the cells it is given and no others.
LEMMA WriteAtFacts ==
    ASSUME NEW d \in Seq(Cell), NEW n \in Nat, n <= Len(d), NEW cells \in Seq(Cell)
    PROVE  LET w == WriteAt(d, n, cells) IN
           /\ w \in Seq(Cell)
           /\ Len(w) = IF Len(d) > n + Len(cells) THEN Len(d) ELSE n + Len(cells)
           /\ \A i \in 1 .. Len(w) :
                w[i] = IF i > n /\ i <= n + Len(cells) THEN cells[i - n] ELSE d[i]
<1> DEFINE len == IF Len(d) > n + Len(cells) THEN Len(d) ELSE n + Len(cells)
<1>1. len \in Nat
  OBVIOUS
<1>2. \A i \in 1 .. len : /\ i > n /\ i <= n + Len(cells) => cells[i - n] \in Cell
                          /\ ~(i > n /\ i <= n + Len(cells)) => i <= Len(d) /\ d[i] \in Cell
  OBVIOUS
<1> QED
  BY <1>1, <1>2 DEF WriteAt

\* Truncating a file keeps its first cells.
LEMMA TruncateFacts ==
    ASSUME NEW S, NEW f \in Seq(S), NEW n \in 0 .. Len(f)
    PROVE  /\ Truncate(f, n) \in Seq(S) /\ Len(Truncate(f, n)) = n
           /\ \A i \in 1 .. n : Truncate(f, n)[i] = f[i]
BY DEF Truncate

\* The cells of a call are cells.
LEMMA CellFacts ==
    ASSUME NEW payload \in Seq(Nat), NEW n \in Nat, NEW x \in Nat
    PROVE  /\ <<Magic, Size(Len(payload))>> \in Seq(Cell)
           /\ Cells(payload) \in Seq(Cell) /\ Len(Cells(payload)) = Len(payload)
           /\ \A i \in 1 .. Len(payload) : Cells(payload)[i] = Byte(payload[i])
           /\ <<Byte(x)>> \in Seq(Cell)
           /\ \A j \in 1 .. 2 + Len(payload) : CellOf(payload, j) \in Cell
BY DEF Magic, Size, Byte, Cells, Cell, CellOf

\* Sequences are equal when they are cell by cell.
LEMMA SameSequence ==
    ASSUME NEW S, NEW s \in Seq(S), NEW t \in Seq(S), Len(s) = Len(t),
           \A i \in 1 .. Len(s) : s[i] = t[i]
    PROVE  s = t
OBVIOUS

-----------------------------------------------------------------------------
(* What files hold.                                                        *)

\* The end of each entry is a position of the file, and no later than that of
\* the last one.
LEMMA EndFacts ==
    ASSUME NEW o \in Seq(Nat), NEW d \in Seq(Cell), NEW c, Laid(o, d, c)
    PROVE  /\ c \in Seq(Seq(Nat)) /\ Len(c) \in Nat
           /\ \A h \in 0 .. Len(c) : End(o, c, h) \in Nat
           /\ \A h \in 0 .. Len(c) : End(o, c, h) <= End(o, c, Len(c))
           /\ End(o, c, Len(c)) <= Len(d)
           /\ \A h \in 1 .. Len(c) : o[h + 1] \in Nat /\ c[h] \in Seq(Nat) /\ Len(c[h]) \in Nat
<1>1. c \in Seq(Seq(Nat)) /\ Len(c) \in Nat
  BY DEF Laid
<1>2. \A h \in 1 .. Len(c) : o[h + 1] \in Nat /\ c[h] \in Seq(Nat) /\ Len(c[h]) \in Nat
  <2> TAKE h \in 1 .. Len(c)
  <2>1. Len(o) \in Nat /\ Len(o) >= Len(c) + 1
    BY DEF Laid
  <2>2. h + 1 \in 1 .. Len(o)
    BY <1>1, <2>1
  <2>3. o[h + 1] \in Nat
    BY <2>2
  <2>4. c[h] \in Seq(Nat)
    BY <1>1
  <2> QED
    BY <2>3, <2>4
<1>3. \A h \in 0 .. Len(c) : End(o, c, h) \in Nat
  <2> TAKE h \in 0 .. Len(c)
  <2>1. h = 0 \/ h \in 1 .. Len(c)
    BY <1>1
  <2>2. CASE h = 0
    BY <2>2 DEF End
  <2>3. CASE h # 0
    <3> DEFINE at == o[h + 1]
               len == Len(c[h])
    <3>1. at \in Nat /\ len \in Nat
      BY <1>2, <2>1, <2>3
    <3>2. End(o, c, h) = at + 2 + len
      BY <2>3 DEF End
    <3> HIDE DEF at, len
    <3> QED
      BY <3>1, <3>2
  <2> QED
    BY <2>2, <2>3
<1>4. End(o, c, Len(c)) <= Len(d)
  <2>1. CASE Len(c) = 0
    BY <2>1 DEF End
  <2>2. CASE Len(c) # 0
    <3>1. Len(c) \in 1 .. Len(c)
      BY <1>1, <2>2
    <3>2. Holds(d, o[Len(c) + 1], c[Len(c)])
      BY <3>1 DEF Laid
    <3> QED
      BY <2>2, <3>2 DEF End, Holds
  <2> QED
    BY <2>1, <2>2
<1>5. \A h \in 0 .. Len(c) : End(o, c, h) <= End(o, c, Len(c))
  <2> SUFFICES ASSUME NEW h \in 0 .. Len(c), h # 0, h # Len(c)
               PROVE  End(o, c, h) <= End(o, c, Len(c))
    BY <1>1, <1>3 DEF End
  <2>1. h \in 1 .. Len(c) /\ Len(c) \in 1 .. Len(c) /\ h < Len(c)
    BY <1>1
  <2>2. End(o, c, h) <= o[Len(c) + 1]
    BY <2>1 DEF Laid
  <2>3. o[Len(c) + 1] \in Nat /\ Len(c[Len(c)]) \in Nat /\ End(o, c, h) \in Nat
    BY <2>1, <1>2, <1>3
  <2>4. End(o, c, Len(c)) = o[Len(c) + 1] + 2 + Len(c[Len(c)])
    BY <2>1 DEF End
  <2> DEFINE at == o[Len(c) + 1]
             len == Len(c[Len(c)])
             e == End(o, c, h)
             f == End(o, c, Len(c))
  <2>5. e <= at /\ at \in Nat /\ len \in Nat /\ e \in Nat /\ f = at + 2 + len
    BY <2>2, <2>3, <2>4
  <2> HIDE DEF at, len, e, f
  <2>6. e <= f
    BY <2>5
  <2> QED
    BY <2>6 DEF e, f
<1> QED
  BY <1>1, <1>2, <1>3, <1>4, <1>5

\* An entry is found where it is.
LEMMA HoldsRead ==
    ASSUME NEW d \in Seq(Cell), NEW at \in Nat, NEW payload \in Seq(Nat), Holds(d, at, payload)
    PROVE  EntryAt(d, at) = payload /\ payload # ReadFailed
<1>1. d[at + 1] = Magic /\ d[at + 2].v = Len(payload) /\ Len(d) >= at + 2 + Len(payload)
  BY DEF Holds
<1>2. EntryAt(d, at) = [i \in 1 .. Len(payload) |-> d[at + 2 + i].v]
  <2>1. ~(Len(d) < at + 2) /\ ~(Len(d) < at + 2 + Len(payload))
    BY <1>1
  <2> QED
    BY <1>1, <2>1 DEF EntryAt
<1>3. [i \in 1 .. Len(payload) |-> d[at + 2 + i].v] = payload
  BY DEF Holds
<1>4. payload # ReadFailed
  <2> SUFFICES ASSUME payload = ReadFailed PROVE FALSE
    OBVIOUS
  <2>1. Len(payload) = 1 /\ payload[1] = -1
    BY DEF ReadFailed
  <2>2. 1 \in 1 .. Len(payload)
    BY <2>1
  <2>3. payload[1] \in Nat
    BY <2>2
  <2>4. -1 \notin Nat
    OBVIOUS
  <2> QED
    BY <2>1, <2>3, <2>4
<1> QED
  BY <1>2, <1>3, <1>4

\* What lies behind the entries does not matter to them, neither in the data
\* file nor in the offsets.
LEMMA LaidKept ==
    ASSUME NEW o \in Seq(Nat), NEW d \in Seq(Cell), NEW c, Laid(o, d, c),
           NEW o2 \in Seq(Nat), Len(o2) >= Len(c) + 1,
           \A h \in 1 .. Len(c) + 1 : o2[h] = o[h],
           NEW d2 \in Seq(Cell), Len(d2) >= End(o, c, Len(c)),
           \A i \in 1 .. End(o, c, Len(c)) : d2[i] = d[i]
    PROVE  Laid(o2, d2, c) /\ End(o2, c, Len(c)) = End(o, c, Len(c))
<1>0. /\ c \in Seq(Seq(Nat)) /\ Len(c) \in Nat
      /\ \A h \in 0 .. Len(c) : End(o, c, h) \in Nat /\ End(o, c, h) <= End(o, c, Len(c))
      /\ \A h \in 1 .. Len(c) : o[h + 1] \in Nat /\ c[h] \in Seq(Nat) /\ Len(c[h]) \in Nat
  BY EndFacts
<1>1. \A h \in 1 .. Len(c) : o2[h + 1] = o[h + 1]
  BY <1>0
<1>2. \A h \in 0 .. Len(c) : End(o2, c, h) = End(o, c, h)
  <2> TAKE h \in 0 .. Len(c)
  <2>1. h = 0 \/ h \in 1 .. Len(c)
    BY <1>0
  <2> QED
    BY <1>1, <2>1 DEF End
<1>3. ASSUME NEW h \in 1 .. Len(c)
      PROVE  Holds(d2, o2[h + 1], c[h]) /\ o2[h + 1] = End(o2, c, h - 1)
  <2> DEFINE at == o[h + 1]
             len == Len(c[h])
             end == End(o, c, Len(c))
  <2>1. at \in Nat /\ len \in Nat /\ end \in Nat /\ at + 2 + len <= end
    <3>1. h \in 0 .. Len(c) /\ Len(c) \in 0 .. Len(c)
      BY <1>0
    <3>2. End(o, c, h) = at + 2 + len
      BY DEF End
    <3> QED
      BY <1>0, <3>1, <3>2
  <2>2. Holds(d, at, c[h]) /\ at = End(o, c, h - 1)
    BY DEF Laid
  <2>3. h - 1 \in 0 .. Len(c)
    BY <1>0
  <2>4. \A i \in 1 .. end : d2[i] = d[i]
    OBVIOUS
  <2>5. Len(d2) \in Nat /\ Len(d2) >= end
    OBVIOUS
  <2> HIDE DEF at, len, end
  <2>6. /\ at + 1 \in 1 .. end /\ at + 2 \in 1 .. end
        /\ \A i \in 1 .. len : at + 2 + i \in 1 .. end
    BY <2>1
  <2>7. Holds(d2, at, c[h])
    <3>1. /\ d[at + 1] = Magic /\ d[at + 2].v = len
          /\ \A i \in 1 .. len : d[at + 2 + i].v = c[h][i]
      BY <2>2 DEF Holds, len
    <3>2. d2[at + 1] = Magic /\ d2[at + 2].v = len
      BY <2>4, <2>6, <3>1
    <3>3. \A i \in 1 .. len : d2[at + 2 + i].v = c[h][i]
      BY <2>4, <2>6, <3>1
    <3>4. at + 2 + len <= Len(d2)
      BY <2>1, <2>5
    <3> QED
      BY <3>2, <3>3, <3>4 DEF Holds, len
  <2> QED
    BY <1>1, <1>2, <2>2, <2>3, <2>7 DEF at
<1>4. \A h, k \in 1 .. Len(c) : h < k => End(o2, c, h) <= o2[k + 1]
  <2> TAKE h, k \in 1 .. Len(c)
  <2>1. h \in 0 .. Len(c)
    BY <1>0
  <2>2. h < k => End(o, c, h) <= o[k + 1]
    BY DEF Laid
  <2> QED
    BY <1>1, <1>2, <2>1, <2>2
<1>5. Laid(o2, d2, c)
  BY <1>0, <1>3, <1>4 DEF Laid
<1> QED
  BY <1>0, <1>2, <1>5

\* The same, when only the offsets change.
LEMMA OffsetsKept ==
    ASSUME NEW o \in Seq(Nat), NEW d \in Seq(Cell), NEW c, Laid(o, d, c),
           NEW o2 \in Seq(Nat), Len(o2) >= Len(c) + 1,
           \A h \in 1 .. Len(c) + 1 : o2[h] = o[h]
    PROVE  Laid(o2, d, c) /\ End(o2, c, Len(c)) = End(o, c, Len(c))
<1> DEFINE d2 == d
<1>1. Len(d) >= End(o, c, Len(c))
  BY EndFacts
<1>2. /\ d2 \in Seq(Cell) /\ Len(d2) >= End(o, c, Len(c))
      /\ \A i \in 1 .. End(o, c, Len(c)) : d2[i] = d[i]
  BY <1>1
<1> HIDE DEF d2
<1>a. /\ o \in Seq(Nat) /\ d \in Seq(Cell) /\ Laid(o, d, c)
      /\ o2 \in Seq(Nat) /\ Len(o2) >= Len(c) + 1 /\ \A h \in 1 .. Len(c) + 1 : o2[h] = o[h]
  OBVIOUS
<1>3. Laid(o2, d2, c) /\ End(o2, c, Len(c)) = End(o, c, Len(c))
  BY <1>2, <1>a, LaidKept, SMTT(60), ZenonT(60)
<1> QED
  BY <1>3 DEF d2

\* An entry behind the last one makes the contents longer by it.
LEMMA LaidAppend ==
    ASSUME NEW o \in Seq(Nat), NEW d \in Seq(Cell), NEW c, Laid(o, d, c),
           Len(o) = Len(c) + 2, o[Len(o)] = End(o, c, Len(c)),
           NEW payload \in Seq(Nat), Holds(d, o[Len(o)], payload)
    PROVE  /\ Laid(o, d, Append(c, payload))
           /\ End(o, Append(c, payload), Len(c) + 1) = o[Len(o)] + 2 + Len(payload)
<1> DEFINE e == Append(c, payload)
           n == Len(c)
<1>1. /\ n \in Nat /\ e \in Seq(Seq(Nat)) /\ Len(e) = n + 1 /\ e[n + 1] = payload
      /\ \A h \in 1 .. n : e[h] = c[h]
  BY EndFacts
<1>2. \A h \in 0 .. n : End(o, e, h) = End(o, c, h)
  BY <1>1 DEF End
<1>3. End(o, e, n + 1) = o[n + 2] + 2 + Len(payload)
  BY <1>1 DEF End
<1>4. ASSUME NEW h \in 1 .. n + 1
      PROVE  Holds(d, o[h + 1], e[h]) /\ o[h + 1] = End(o, e, h - 1)
  <2>1. CASE h \in 1 .. n
    <3>1. h - 1 \in 0 .. n
      BY <2>1, <1>1
    <3> QED
      BY <2>1, <3>1, <1>1, <1>2 DEF Laid
  <2>2. CASE h = n + 1
    <3>1. h + 1 = n + 2 /\ h - 1 = n /\ n \in 0 .. n
      BY <2>2, <1>1
    <3> QED
      BY <2>2, <3>1, <1>1, <1>2
  <2> QED
    BY <2>1, <2>2, <1>1
<1>5. ASSUME NEW h \in 1 .. n + 1, NEW k \in 1 .. n + 1, h < k
      PROVE  End(o, e, h) <= o[k + 1]
  <2>1. h \in 1 .. n /\ h \in 0 .. n
    BY <1>1, <1>5
  <2>2. CASE k \in 1 .. n
    BY <2>1, <2>2, <1>2, <1>5 DEF Laid
  <2>3. CASE k = n + 1
    <3>1. End(o, c, h) <= End(o, c, n)
      BY <2>1, EndFacts
    <3>2. k + 1 = n + 2 /\ o[n + 2] = End(o, c, n)
      BY <2>3, <1>1
    <3> QED
      BY <2>1, <3>1, <3>2, <1>2
  <2> QED
    BY <2>2, <2>3, <1>1
<1> HIDE DEF e
<1>6. Laid(o, d, e)
  BY <1>1, <1>4, <1>5 DEF Laid
<1> QED
  BY <1>1, <1>3, <1>6 DEF e

\* Without its last entry, the rest of a file is as before.
LEMMA LaidFront ==
    ASSUME NEW o \in Seq(Nat), NEW d \in Seq(Cell), NEW c, Laid(o, d, c), Len(c) > 0
    PROVE  LET b == DropLast(c)
               n == Len(c) - 1
           IN /\ b \in Seq(Seq(Nat)) /\ Len(b) = n /\ Append(b, c[Len(c)]) = c
              /\ Laid(o, d, b) /\ o[n + 2] = End(o, b, n)
<1> DEFINE b == DropLast(c)
           n == Len(c) - 1
<1>1. /\ n \in Nat /\ c \in Seq(Seq(Nat)) /\ Len(c) = n + 1
  BY EndFacts
<1>2. /\ b \in Seq(Seq(Nat)) /\ Len(b) = n
      /\ \A h \in 1 .. n : b[h] = c[h]
  BY <1>1 DEF DropLast, Truncate
<1>3. Append(b, c[Len(c)]) = c
  <2> DEFINE e == Append(b, c[Len(c)])
  <2>1. c[Len(c)] \in Seq(Nat)
    BY <1>1
  <2> HIDE DEF b, n
  <2>2. /\ e \in Seq(Seq(Nat)) /\ Len(e) = n + 1 /\ e[n + 1] = c[Len(c)]
        /\ \A h \in 1 .. n : e[h] = b[h]
    BY <1>1, <1>2, <2>1
  <2> HIDE DEF e
  <2>3. \A h \in 1 .. n + 1 : e[h] = c[h]
    <3> TAKE h \in 1 .. n + 1
    <3>1. h \in 1 .. n \/ h = n + 1
      BY <1>1
    <3> QED
      BY <1>1, <1>2, <2>2, <3>1
  <2>4. e = c
    BY <1>1, <2>2, <2>3, SameSequence
  <2> QED
    BY <2>4 DEF e
<1>4. \A h \in 0 .. n : End(o, b, h) = End(o, c, h)
  <2> HIDE DEF b
  <2> SUFFICES ASSUME NEW h \in 0 .. n, h # 0
               PROVE  End(o, b, h) = End(o, c, h)
    BY DEF End
  <2>1. h \in 1 .. n
    BY <1>1
  <2>2. b[h] = c[h]
    BY <1>2, <2>1
  <2> QED
    BY <2>2 DEF End
<1>5. \A h \in 1 .. n : Holds(d, o[h + 1], b[h]) /\ o[h + 1] = End(o, b, h - 1)
  <2> TAKE h \in 1 .. n
  <2>1. h \in 1 .. Len(c) /\ h - 1 \in 0 .. n
    BY <1>1
  <2> QED
    BY <2>1, <1>2, <1>4 DEF Laid
<1>6. \A h, k \in 1 .. n : h < k => End(o, b, h) <= o[k + 1]
  <2> TAKE h, k \in 1 .. n
  <2>1. h \in 1 .. Len(c) /\ k \in 1 .. Len(c) /\ h \in 0 .. n
    BY <1>1
  <2>2. h < k => End(o, c, h) <= o[k + 1]
    BY <2>1 DEF Laid
  <2> QED
    BY <2>1, <2>2, <1>4
<1>7. o[n + 2] = End(o, b, n)
  <2>1. n + 1 \in 1 .. Len(c) /\ n + 1 + 1 = n + 2 /\ n + 1 - 1 = n /\ n \in 0 .. n
    BY <1>1
  <2>2. o[n + 1 + 1] = End(o, c, n + 1 - 1)
    BY <2>1 DEF Laid
  <2> QED
    BY <2>1, <2>2, <1>4
<1> HIDE DEF b
<1>8. Laid(o, d, b)
  BY <1>1, <1>2, <1>5, <1>6 DEF Laid
<1> QED
  BY <1>2, <1>3, <1>7, <1>8 DEF b

\* However much of an entry StoreData has written, the files hold what they held
\* before, or that and the entry.
LEMMA WrittenParts ==
    ASSUME NEW o \in Seq(Nat), NEW d \in Seq(Cell), NEW c, Laid(o, d, c),
           Len(o) = Len(c) + 2, o[Len(o)] = End(o, c, Len(c)),
           NEW payload \in Seq(Nat), Written(d, End(o, c, Len(c)), payload)
    PROVE  /\ Partly(o, d, c) \/ Whole(o, d, Append(c, payload))
           /\ Len(d) = End(o, c, Len(c)) + 2 + Len(payload) => Whole(o, d, Append(c, payload))
<1> DEFINE end == End(o, c, Len(c))
           len == Len(payload)
<1>1. end \in Nat /\ len \in Nat /\ Len(d) \in Nat /\ Len(d) >= end /\ Len(d) <= end + 2 + len
  BY EndFacts DEF Written
<1>2. \A i \in end + 1 .. Len(d) : d[i] = CellOf(payload, i - end)
  BY DEF Written
<1> HIDE DEF end, len
<1>3. CASE Len(d) = end + 2 + len
  <2>1. d[end + 1] = Magic
    <3>1. end + 1 \in end + 1 .. Len(d) /\ end + 1 - end = 1
      BY <1>1, <1>3
    <3>2. d[end + 1] = CellOf(payload, end + 1 - end)
      BY <1>1, <1>2, <3>1
    <3>3. CellOf(payload, 1) = Magic
      BY DEF CellOf
    <3> QED
      BY <3>1, <3>2, <3>3
  <2>2. d[end + 2] = Size(len)
    <3>1. end + 2 \in end + 1 .. Len(d) /\ end + 2 - end = 2
      BY <1>1, <1>3
    <3>2. d[end + 2] = CellOf(payload, end + 2 - end)
      BY <1>1, <1>2, <3>1
    <3>3. CellOf(payload, 2) = Size(len)
      BY DEF CellOf, len
    <3> QED
      BY <3>1, <3>2, <3>3
  <2>3. \A i \in 1 .. len : d[end + 2 + i] = Byte(payload[i])
    <3> TAKE i \in 1 .. len
    <3>1. end + 2 + i \in end + 1 .. Len(d) /\ end + 2 + i - end = 2 + i /\ 2 + i - 2 = i
          /\ 2 + i # 1 /\ 2 + i # 2
      BY <1>1, <1>3
    <3>2. d[end + 2 + i] = CellOf(payload, end + 2 + i - end)
      BY <1>1, <1>2, <3>1
    <3>3. CellOf(payload, 2 + i) = Byte(payload[i])
      BY <3>1 DEF CellOf
    <3> QED
      BY <3>1, <3>2, <3>3
  <2>4. Holds(d, end, payload)
    <3>1. d[end + 2].v = len /\ \A i \in 1 .. len : d[end + 2 + i].v = payload[i]
      <4>1. d[end + 2].v = len
        BY <2>2 DEF Size
      <4>2. \A i \in 1 .. len : d[end + 2 + i].v = payload[i]
        <5> TAKE i \in 1 .. len
        <5>1. d[end + 2 + i] = Byte(payload[i])
          BY <2>3
        <5> QED
          BY <5>1 DEF Byte
      <4> QED
        BY <4>1, <4>2
    <3>2. end + 2 + len <= Len(d)
      BY <1>1, <1>3
    <3> QED
      BY <2>1, <3>1, <3>2 DEF Holds, len
  <2>5. o[Len(o)] = end
    BY DEF end
  <2>6. Laid(o, d, Append(c, payload)) /\ End(o, Append(c, payload), Len(c) + 1) = end + 2 + len
    BY <2>4, <2>5, LaidAppend DEF len
  <2>7. Len(Append(c, payload)) = Len(c) + 1 /\ Len(c) \in Nat
    BY EndFacts
  <2> QED
    BY <1>3, <2>6, <2>7 DEF Whole
<1>4. CASE Len(d) < end + 2 + len
  <2>1. EntryAt(d, end) = ReadFailed
    <3>1. CASE Len(d) < end + 2
      BY <3>1 DEF EntryAt
    <3>2. CASE Len(d) >= end + 2
      <4>1. end + 2 \in end + 1 .. Len(d) /\ end + 2 - end = 2
        BY <1>1, <3>2
      <4>2. d[end + 2].v = len
        <5>1. d[end + 2] = CellOf(payload, end + 2 - end)
          BY <1>1, <1>2, <4>1
        <5>2. CellOf(payload, 2) = Size(len)
          BY DEF CellOf, len
        <5> QED
          BY <4>1, <5>1, <5>2 DEF Size
      <4> QED
        BY <4>2, <1>4, <1>1 DEF EntryAt
    <3> QED
      BY <3>1, <3>2, <1>1
  <2> QED
    BY <2>1, <1>1, <1>4 DEF Partly, end, len
<1> QED
  BY <1>1, <1>3, <1>4 DEF end, len

\* Files that hold all of their contents, and a state in memory that is theirs:
\* a reader finds the contents.
LEMMA WholeContents ==
    ASSUME NEW c, offsetFile.entries \in Seq(Nat), dataFile \in Seq(Cell),
           Whole(offsetFile.entries, dataFile, c), InMemory(c)
    PROVE  /\ Contents = c
           /\ \A h \in 1 .. Len(c) : FetchData(state, h) = c[h] /\ c[h] # ReadFailed
<1> DEFINE o == offsetFile.entries
<1>1. Laid(o, dataFile, c) /\ state.currentHeight = Len(c) /\ state.offsets = o
  BY DEF Whole, InMemory
<1>2. c \in Seq(Seq(Nat)) /\ Len(c) \in Nat
  BY <1>1, EndFacts
<1>3. \A h \in 1 .. Len(c) : FetchData(state, h) = c[h] /\ c[h] # ReadFailed
  <2> TAKE h \in 1 .. Len(c)
  <2>1. o[h + 1] \in Nat /\ c[h] \in Seq(Nat) /\ Holds(dataFile, o[h + 1], c[h])
    BY <1>1, EndFacts DEF Laid
  <2>2. EntryAt(dataFile, o[h + 1]) = c[h] /\ c[h] # ReadFailed
    BY <2>1, HoldsRead
  <2> QED
    BY <1>1, <1>2, <2>2 DEF FetchData, Offset
<1>4. Contents = c
  BY <1>1, <1>2, <1>3 DEF Contents
<1> QED
  BY <1>3, <1>4

\* The writes of a call, one after the other.
LEMMA Lists ==
    ASSUME NEW a, NEW b, NEW c, NEW d
    PROVE  /\ Tail(<<a, b, c, d>>) = <<b, c, d>> /\ Head(<<a, b, c, d>>) = a
           /\ Tail(<<b, c, d>>) = <<c, d>> /\ Head(<<b, c, d>>) = b
           /\ Tail(<<c, d>>) = <<d>> /\ Head(<<c, d>>) = c
           /\ Tail(<<d>>) = <<>> /\ Head(<<d>>) = d
           /\ <<a, b, c, d>> # <<>> /\ <<b, c, d>> # <<>> /\ <<c, d>> # <<>> /\ <<d>> # <<>>
OBVIOUS

LEMMA StoreLists ==
    ASSUME NEW height, NEW offset, NEW payload
    PROVE  LET w == StoreWrites(height, offset, payload) IN
           /\ w # <<>> /\ Head(w) = [file |-> "offset", at |-> height, cells |-> <<Size(offset)>>]
           /\ Tail(w) # <<>>
           /\ Head(Tail(w)) = [file |-> "data", at |-> offset, cells |-> <<Magic, Size(Len(payload))>>]
           /\ Tail(Tail(w)) # <<>>
           /\ Head(Tail(Tail(w))) = [file |-> "data", at |-> offset + 2, cells |-> Cells(payload)]
           /\ Tail(Tail(Tail(w))) = <<w[4]>> /\ <<w[4]>> # <<>> /\ Tail(<<w[4]>>) = <<>>
           /\ Head(<<w[4]>>) = [file |-> "stored", at |-> Len(payload) + 2, cells |-> <<>>]
<1> DEFINE a == [file |-> "offset", at |-> height, cells |-> <<Size(offset)>>]
           b == [file |-> "data", at |-> offset, cells |-> <<Magic, Size(Len(payload))>>]
           c == [file |-> "data", at |-> offset + 2, cells |-> Cells(payload)]
           d == [file |-> "stored", at |-> Len(payload) + 2, cells |-> <<>>]
<1>1. StoreWrites(height, offset, payload) = <<a, b, c, d>>
  BY DEF StoreWrites
<1> HIDE DEF a, b, c, d
<1>2. <<a, b, c, d>>[4] = d
  OBVIOUS
<1>3. LET w == StoreWrites(height, offset, payload) IN
      /\ w # <<>> /\ Head(w) = a /\ Tail(w) # <<>> /\ Head(Tail(w)) = b
      /\ Tail(Tail(w)) # <<>> /\ Head(Tail(Tail(w))) = c /\ Tail(Tail(Tail(w))) = <<w[4]>>
      /\ <<w[4]>> # <<>> /\ Tail(<<w[4]>>) = <<>> /\ Head(<<w[4]>>) = d
  BY <1>1, <1>2, Lists
<1> QED
  BY <1>3 DEF a, b, c, d

LEMMA OverLists ==
    ASSUME NEW offset, NEW x
    PROVE  /\ OverWrites(offset, x) # <<>>
           /\ Head(OverWrites(offset, x)) = [file |-> "data", at |-> offset, cells |-> <<Byte(x)>>]
           /\ OverWrites(offset, x)[1] = [file |-> "data", at |-> offset, cells |-> <<Byte(x)>>]
           /\ Tail(OverWrites(offset, x)) = Tail(OverWrites(0, 0))
           /\ Tail(OverWrites(0, 0)) # <<>> /\ Tail(Tail(OverWrites(0, 0))) = <<>>
           /\ Head(Tail(OverWrites(0, 0))) = [file |-> "overwritten", at |-> 0, cells |-> <<>>]
<1> DEFINE a == [file |-> "data", at |-> offset, cells |-> <<Byte(x)>>]
           c == [file |-> "data", at |-> 0, cells |-> <<Byte(0)>>]
           b == [file |-> "overwritten", at |-> 0, cells |-> <<>>]
<1>1. OverWrites(offset, x) = <<a, b>> /\ OverWrites(0, 0) = <<c, b>>
  BY DEF OverWrites
<1> HIDE DEF a, b, c
<1>2. /\ OverWrites(offset, x) # <<>> /\ Head(OverWrites(offset, x)) = a /\ OverWrites(offset, x)[1] = a
  BY <1>1
<1>3. Tail(<<a, b>>) = <<b>>
  BY Lists
<1>4. Tail(<<c, b>>) = <<b>>
  BY Lists
<1>5. <<b>> # <<>> /\ Tail(<<b>>) = <<>> /\ Head(<<b>>) = b
  BY Lists
<1>6. /\ Tail(OverWrites(offset, x)) = Tail(OverWrites(0, 0))
      /\ Tail(OverWrites(0, 0)) # <<>> /\ Tail(Tail(OverWrites(0, 0))) = <<>>
      /\ Head(Tail(OverWrites(0, 0))) = b
  BY <1>1, <1>3, <1>4, <1>5
<1> QED
  BY <1>2, <1>6 DEF a, b, c

LEMMA RemoveLists ==
    ASSUME NEW length, NEW heights
    PROVE  LET w == RemoveWrites(length, heights) IN
           /\ w # <<>> /\ Head(w) = [file |-> "dataEnd", at |-> length, cells |-> <<>>]
           /\ Tail(w) # <<>> /\ Head(Tail(w)) = [file |-> "offsetEnd", at |-> heights, cells |-> <<>>]
           /\ Tail(Tail(w)) = <<w[3]>> /\ <<w[3]>> # <<>> /\ Tail(<<w[3]>>) = <<>>
           /\ Head(<<w[3]>>) = [file |-> "removed", at |-> 0, cells |-> <<>>]
<1> DEFINE a == [file |-> "dataEnd", at |-> length, cells |-> <<>>]
           b == [file |-> "offsetEnd", at |-> heights, cells |-> <<>>]
           c == [file |-> "removed", at |-> 0, cells |-> <<>>]
<1>1. RemoveWrites(length, heights) = <<a, b, c>>
  BY DEF RemoveWrites
<1> HIDE DEF a, b, c
<1>2. <<a, b, c>>[3] = c
  OBVIOUS
<1>3. LET w == RemoveWrites(length, heights) IN
      /\ w # <<>> /\ Head(w) = a /\ Tail(w) # <<>> /\ Head(Tail(w)) = b
      /\ Tail(Tail(w)) = <<w[3]>> /\ <<w[3]>> # <<>> /\ Tail(<<w[3]>>) = <<>> /\ Head(<<w[3]>>) = c
  BY <1>1, <1>2, Lists
<1> QED
  BY <1>3 DEF a, b, c

\* A call in progress has something left to do.
LEMMA CallsAreBusy ==
    ASSUME NEW c, NEW payload, Storing(c, payload) \/ Overwriting(c) \/ Removing(c)
    PROVE  todo # <<>>
<1>1. CASE Storing(c, payload)
  BY <1>1, StoreLists DEF Storing
<1>2. CASE Overwriting(c)
  BY <1>2, OverLists DEF Overwriting
<1>3. CASE Removing(c)
  BY <1>3, RemoveLists DEF Removing
<1> QED
  BY <1>1, <1>2, <1>3

\* Between calls the files are whole and memory agrees with them.
LEMMA IdleWhole ==
    ASSUME FileInv, Idle
    PROVE  \E c \in allowed : Whole(offsetFile.entries, dataFile, c) /\ InMemory(c)
<1>1. PICK c \in allowed : Phase(c)
  BY DEF FileInv
<1>2. ~ \E payload \in Payloads : Storing(c, payload)
  BY CallsAreBusy DEF Idle
<1>3. ~Overwriting(c) /\ ~Removing(c)
  BY CallsAreBusy DEF Idle
<1> QED
  BY <1>1, <1>2, <1>3 DEF Idle, Phase

-----------------------------------------------------------------------------
(* Calls begin.                                                            *)

LEMMA StoreDataStep ==
    ASSUME FileInv, Payloads \subseteq Seq(Nat), NEW payload \in Payloads, StoreData(payload)
    PROVE  FileInv'
<1> DEFINE o == offsetFile.entries
<1>1. Idle
  BY DEF StoreData
<1>2. PICK c \in allowed : Whole(o, dataFile, c) /\ InMemory(c)
  BY <1>1, IdleWhole
<1>3. o \in Seq(Nat) /\ dataFile \in Seq(Cell) /\ payload \in Seq(Nat)
  BY DEF FileInv
<1>4. Contents = c
  BY <1>2, <1>3, WholeContents
<1>5. /\ state.offsets = o /\ state.currentHeight = Len(c)
      /\ state.currentOffset = End(o, c, Len(c)) /\ Len(o) = Len(c) + 1
  BY <1>2 DEF Whole, InMemory
<1>6. /\ state' = [state EXCEPT !.offsets = Append(@, state.currentOffset)]
      /\ allowed' = {c, Append(c, payload)}
      /\ todo' = StoreWrites(Len(c) + 1, End(o, c, Len(c)), payload)
      /\ offsetFile' = offsetFile /\ dataFile' = dataFile /\ state.mode = "up"
  BY <1>4, <1>5 DEF StoreData, Idle
<1>7. /\ state'.offsets = Append(o, End(o, c, Len(c))) /\ state'.currentHeight = Len(c)
      /\ state'.currentOffset = End(o, c, Len(c)) /\ state'.mode = "up"
      /\ state' \in [mode : {"down", "abandoned", "recover", "up"}, currentHeight : Int,
                    currentOffset : Nat, offsets : Seq(Nat)]
  <2>1. state \in [mode : {"down", "abandoned", "recover", "up"}, currentHeight : Int,
                   currentOffset : Nat, offsets : Seq(Nat)]
    BY DEF FileInv
  <2>2. Append(state.offsets, state.currentOffset) \in Seq(Nat)
    BY <2>1
  <2> QED
    BY <1>5, <1>6, <2>1, <2>2
<1>8. Len(c) \in Nat /\ End(o, c, Len(c)) \in Nat
  BY <1>2, <1>3, EndFacts DEF Whole
<1>9. OneAhead(state'.offsets, o, c)
  <2> DEFINE o2 == Append(o, End(o, c, Len(c)))
  <2>1. Len(o2) = Len(o) + 1 /\ o2[Len(o) + 1] = End(o, c, Len(c)) /\ \A h \in 1 .. Len(o) : o2[h] = o[h]
    BY <1>3, <1>8
  <2> HIDE DEF o2
  <2>2. Len(o) + 1 = Len(c) + 2
    BY <1>5, <1>8
  <2>3. state'.offsets = o2
    BY <1>7 DEF o2
  <2> QED
    BY <1>5, <2>1, <2>2, <2>3 DEF OneAhead
<1>10. Storing(c, payload)'
  BY <1>2, <1>6, <1>7, <1>9 DEF Storing
<1>11. Phase(c)'
  BY <1>7, <1>10 DEF Phase
<1> QED
  BY <1>6, <1>7, <1>11 DEF FileInv

LEMMA OverWriteStep ==
    ASSUME FileInv, NEW height \in Nat, NEW i \in Nat, NEW x \in Nat, OverWrite(height, i, x)
    PROVE  FileInv'
<1> DEFINE o == offsetFile.entries
<1>1. Idle
  BY DEF OverWrite
<1>2. PICK c \in allowed : Whole(o, dataFile, c) /\ InMemory(c)
  BY <1>1, IdleWhole
<1>3. o \in Seq(Nat) /\ dataFile \in Seq(Cell)
  BY DEF FileInv
<1>4. Contents = c /\ \A h \in 1 .. Len(c) : FetchData(state, h) = c[h]
  BY <1>2, <1>3, WholeContents
<1>5. state.offsets = o /\ state.currentHeight = Len(c)
  BY <1>2 DEF InMemory
<1>6. height \in 1 .. Len(c) /\ i \in 1 .. Len(c[height])
  BY <1>4, <1>5 DEF OverWrite
<1>7. /\ todo' = OverWrites(o[height + 1] + 1 + i, x)
      /\ allowed' = {c, [c EXCEPT ![height][i] = x]}
      /\ offsetFile' = offsetFile /\ dataFile' = dataFile /\ state' = state
      /\ state.mode = "up"
  BY <1>4, <1>5 DEF OverWrite, Idle, Offset
<1>8. todo'[1].cells[1].v = x /\ Head(todo').file = "data"
  <2>1. /\ todo'[1] = [file |-> "data", at |-> o[height + 1] + 1 + i, cells |-> <<Byte(x)>>]
        /\ Head(todo') = todo'[1]
    BY <1>7, OverLists
  <2>2. todo'[1].cells = <<Byte(x)>> /\ todo'[1].file = "data"
    BY <2>1
  <2>3. <<Byte(x)>>[1] = Byte(x)
    OBVIOUS
  <2> QED
    BY <2>1, <2>2, <2>3 DEF Byte
<1>9. InMemory(c)'
  BY <1>2, <1>7 DEF InMemory
<1>10. Overwriting(c)'
  <2>1. \E k \in 1 .. Len(c) : \E l \in 1 .. Len(c[k]) :
          /\ todo' = OverWrites(o[k + 1] + 1 + l, x) /\ [c EXCEPT ![k][l] = x] \in allowed'
    BY <1>6, <1>7
  <2> QED
    BY <1>2, <1>7, <1>8, <1>9, <2>1 DEF Overwriting
<1>11. Phase(c)'
  BY <1>7, <1>10 DEF Phase
<1> QED
  BY <1>7, <1>11 DEF FileInv

LEMMA DisconnectBlockStep ==
    ASSUME FileInv, DisconnectBlock
    PROVE  FileInv'
<1> DEFINE o == offsetFile.entries
<1>1. Idle
  BY DEF DisconnectBlock
<1>2. PICK c \in allowed : Whole(o, dataFile, c) /\ InMemory(c)
  BY <1>1, IdleWhole
<1>3. o \in Seq(Nat) /\ dataFile \in Seq(Cell)
  BY DEF FileInv
<1>4. Contents = c /\ \A h \in 1 .. Len(c) : FetchData(state, h) = c[h]
  BY <1>2, <1>3, WholeContents
<1>5. /\ state.offsets = o /\ state.currentHeight = Len(c) /\ Laid(o, dataFile, c)
      /\ Len(o) = Len(c) + 1 /\ Len(dataFile) = End(o, c, Len(c)) /\ Len(c) > 0
  BY <1>2 DEF InMemory, Whole, DisconnectBlock
<1> DEFINE b == DropLast(c)
           n == Len(c) - 1
           last == c[Len(c)]
<1>6. /\ b \in Seq(Seq(Nat)) /\ Len(b) = n /\ Append(b, last) = c
      /\ Laid(o, dataFile, b) /\ o[n + 2] = End(o, b, n)
  BY <1>3, <1>5, LaidFront
<1>7. Len(c) \in 1 .. Len(c) /\ n \in Nat /\ Len(c) = n + 1 /\ last \in Seq(Nat) /\ o[n + 2] \in Nat
  <2>1. /\ Len(c) \in Nat
        /\ \A h \in 1 .. Len(c) : o[h + 1] \in Nat /\ c[h] \in Seq(Nat)
    BY <1>3, <1>5, EndFacts
  <2>2. Len(c) \in 1 .. Len(c) /\ n \in Nat /\ Len(c) = n + 1
    BY <1>5, <2>1
  <2>3. o[Len(c) + 1] \in Nat /\ c[Len(c)] \in Seq(Nat)
    BY <2>1, <2>2
  <2>4. n + 2 = Len(c) + 1
    BY <2>1
  <2> QED
    BY <2>2, <2>3, <2>4
<1>8. EntryAt(dataFile, o[n + 2]) = last
  <2> DEFINE at == o[n + 2]
  <2>1. n + 2 = Len(c) + 1
    BY <1>7
  <2>2. Holds(dataFile, o[Len(c) + 1], c[Len(c)])
    BY <1>5, <1>7 DEF Laid
  <2>3. at \in Nat /\ last \in Seq(Nat) /\ Holds(dataFile, at, last) /\ dataFile \in Seq(Cell)
    BY <1>3, <1>7, <2>1, <2>2
  <2> HIDE DEF at, last
  <2> QED
    BY <2>3, HoldsRead DEF at
<1>9. End(o, c, Len(c)) = o[n + 2] + 2 + Len(last)
  BY <1>7 DEF End
<1>10. Len(dataFile) - (Len(last) + 2) = End(o, b, n) /\ Len(o) - 1 = n + 1
  BY <1>5, <1>6, <1>7, <1>9
<1>11. /\ todo' = RemoveWrites(End(o, b, n), n + 1)
       /\ allowed' = {c, b}
       /\ offsetFile' = offsetFile /\ dataFile' = dataFile /\ state' = state
       /\ state.mode = "up"
  BY <1>4, <1>5, <1>7, <1>10 DEF DisconnectBlock, Removal, Idle
<1> HIDE DEF b, last
<1>12. OneAhead(state.offsets, o, b)
  BY <1>5, <1>6, <1>7 DEF OneAhead
<1>13. Removing(b)'
  <2>1. /\ todo' = RemoveWrites(End(o, b, Len(b)), Len(b) + 1)
        /\ Len(o) = Len(b) + 2 /\ o[Len(b) + 2] = End(o, b, Len(b))
        /\ state.currentHeight = Len(b) + 1
    BY <1>5, <1>6, <1>7, <1>11
  <2>2. /\ EntryAt(dataFile, o[Len(b) + 2]) = last
        /\ Append(b, last) \in allowed' /\ Whole(o, dataFile, Append(b, last))
    BY <1>2, <1>6, <1>8, <1>11
  <2> HIDE DEF n
  <2> QED
    BY <1>6, <1>11, <1>12, <2>1, <2>2 DEF Removing
<1>14. Phase(b)'
  BY <1>11, <1>13 DEF Phase
<1> QED
  BY <1>11, <1>14 DEF FileInv

-----------------------------------------------------------------------------
(* Writes.                                                                 *)

\* Writing more of an entry at the end of the data file.
LEMMA PartWritten ==
    ASSUME NEW o \in Seq(Nat), NEW d \in Seq(Cell), NEW c, Laid(o, d, c),
           NEW payload \in Seq(Nat), Written(d, End(o, c, Len(c)), payload),
           NEW cells \in Seq(Cell),
           Len(d) + Len(cells) <= End(o, c, Len(c)) + 2 + Len(payload),
           \A j \in 1 .. Len(cells) : cells[j] = CellOf(payload, Len(d) - End(o, c, Len(c)) + j)
    PROVE  LET w == WriteAt(d, Len(d), cells) IN
           /\ w \in Seq(Cell) /\ Len(w) = Len(d) + Len(cells)
           /\ Laid(o, w, c) /\ Written(w, End(o, c, Len(c)), payload)
<1> DEFINE w == WriteAt(d, Len(d), cells)
           end == End(o, c, Len(c))
<1>1. end \in Nat /\ end <= Len(d) /\ Len(d) \in Nat /\ Len(cells) \in Nat /\ Len(payload) \in Nat
  BY EndFacts
<1>2. /\ w \in Seq(Cell) /\ Len(w) = Len(d) + Len(cells)
      /\ \A i \in 1 .. Len(w) : w[i] = IF i > Len(d) THEN cells[i - Len(d)] ELSE d[i]
  <2>1. /\ w \in Seq(Cell)
        /\ Len(w) = IF Len(d) > Len(d) + Len(cells) THEN Len(d) ELSE Len(d) + Len(cells)
        /\ \A i \in 1 .. Len(w) :
              w[i] = IF i > Len(d) /\ i <= Len(d) + Len(cells) THEN cells[i - Len(d)] ELSE d[i]
    <3> DEFINE n == Len(d)
    <3>1. n \in Nat /\ n <= Len(d)
      BY <1>1
    <3> HIDE DEF n
    <3>2. LET v == WriteAt(d, n, cells) IN
          /\ v \in Seq(Cell)
          /\ Len(v) = IF Len(d) > n + Len(cells) THEN Len(d) ELSE n + Len(cells)
          /\ \A i \in 1 .. Len(v) :
                v[i] = IF i > n /\ i <= n + Len(cells) THEN cells[i - n] ELSE d[i]
      BY <1>1, <3>1, WriteAtFacts
    <3> QED
      BY <3>2 DEF n
  <2> HIDE DEF w
  <2> QED
    BY <1>1, <2>1
<1> HIDE DEF w, end
<1>3. \A i \in 1 .. end : w[i] = d[i]
  <2> TAKE i \in 1 .. end
  <2>1. i \in 1 .. Len(w) /\ ~(i > Len(d))
    BY <1>1, <1>2
  <2> QED
    BY <1>2, <2>1
<1>4. Laid(o, w, c)
  <2>1. Len(o) >= Len(c) + 1
    BY DEF Laid
  <2>2. Len(w) >= end
    BY <1>1, <1>2
  <2> QED
    BY <2>1, <2>2, <1>2, <1>3, LaidKept DEF end
<1>5. Len(w) \in end .. end + 2 + Len(payload)
  BY <1>1, <1>2 DEF end
<1>6. ASSUME NEW i \in end + 1 .. Len(w)
      PROVE  w[i] = CellOf(payload, i - end)
  <2>1. CASE i <= Len(d)
    <3>1. i \in end + 1 .. Len(d) /\ i \in 1 .. Len(w) /\ ~(i > Len(d))
      BY <1>1, <1>2, <2>1
    <3>2. d[i] = CellOf(payload, i - end)
      BY <3>1 DEF Written, end
    <3> QED
      BY <3>1, <3>2, <1>2
  <2>2. CASE i > Len(d)
    <3>1. i - Len(d) \in 1 .. Len(cells) /\ i \in 1 .. Len(w)
          /\ Len(d) - end + (i - Len(d)) = i - end
      BY <1>1, <1>2, <2>2
    <3>2. cells[i - Len(d)] = CellOf(payload, Len(d) - end + (i - Len(d)))
      BY <3>1 DEF end
    <3> QED
      BY <3>1, <3>2, <1>2, <2>2
  <2> QED
    BY <2>1, <2>2, <1>1, <1>2
<1>7. Written(w, end, payload)
  BY <1>5, <1>6 DEF Written
<1> QED
  BY <1>2, <1>4, <1>7 DEF w, end

\* The first cells of the header, of the data.
LEMMA HeaderCells ==
    ASSUME NEW payload \in Seq(Nat), NEW n \in 0 .. 2
    PROVE  LET s == SubSeq(<<Magic, Size(Len(payload))>>, 1, n) IN
           s \in Seq(Cell) /\ Len(s) = n /\ \A j \in 1 .. n : s[j] = CellOf(payload, j)
<1> DEFINE f == <<Magic, Size(Len(payload))>>
<1>1. f \in Seq(Cell) /\ Len(f) = 2 /\ f[1] = Magic /\ f[2] = Size(Len(payload))
  BY CellFacts
<1> HIDE DEF f
<1>2. /\ SubSeq(f, 1, n) \in Seq(Cell) /\ Len(SubSeq(f, 1, n)) = n
      /\ \A j \in 1 .. n : SubSeq(f, 1, n)[j] = f[j]
  <2>1. n \in 0 .. Len(f)
    BY <1>1
  <2>2. /\ Truncate(f, n) \in Seq(Cell) /\ Len(Truncate(f, n)) = n
        /\ \A j \in 1 .. n : Truncate(f, n)[j] = f[j]
    BY <1>1, <2>1, TruncateFacts
  <2> QED
    BY <2>2 DEF Truncate
<1>3. \A j \in 1 .. n : j = 1 \/ j = 2
  OBVIOUS
<1> QED
  BY <1>1, <1>2, <1>3 DEF CellOf, f

LEMMA DataCells ==
    ASSUME NEW payload \in Seq(Nat), NEW n \in 0 .. Len(payload)
    PROVE  LET s == SubSeq(Cells(payload), 1, n) IN
           s \in Seq(Cell) /\ Len(s) = n /\ \A j \in 1 .. n : s[j] = CellOf(payload, 2 + j)
<1> DEFINE f == Cells(payload)
<1>1. f \in Seq(Cell) /\ Len(f) = Len(payload) /\ \A i \in 1 .. Len(payload) : f[i] = Byte(payload[i])
  BY CellFacts
<1> HIDE DEF f
<1>2. /\ SubSeq(f, 1, n) \in Seq(Cell) /\ Len(SubSeq(f, 1, n)) = n
      /\ \A j \in 1 .. n : SubSeq(f, 1, n)[j] = f[j]
  <2>1. n \in 0 .. Len(f)
    BY <1>1
  <2>2. /\ Truncate(f, n) \in Seq(Cell) /\ Len(Truncate(f, n)) = n
        /\ \A j \in 1 .. n : Truncate(f, n)[j] = f[j]
    BY <1>1, <2>1, TruncateFacts
  <2> QED
    BY <2>2 DEF Truncate
<1>3. \A j \in 1 .. n : 2 + j # 1 /\ 2 + j # 2 /\ 2 + j - 2 = j /\ j \in 1 .. Len(payload)
  OBVIOUS
<1> QED
  BY <1>1, <1>2, <1>3 DEF CellOf, f

\* Replacing a byte of an entry.
LEMMA ByteWritten ==
    ASSUME NEW o \in Seq(Nat), NEW d \in Seq(Cell), NEW c, Whole(o, d, c),
           NEW h \in 1 .. Len(c), NEW i \in 1 .. Len(c[h]), NEW x \in Nat
    PROVE  LET w == WriteAt(d, o[h + 1] + 1 + i, <<Byte(x)>>) IN
           /\ w \in Seq(Cell) /\ Len(w) = Len(d)
           /\ Whole(o, w, [c EXCEPT ![h][i] = x])
<1> DEFINE w == WriteAt(d, o[h + 1] + 1 + i, <<Byte(x)>>)
           e == [c EXCEPT ![h][i] = x]
           new == [c[h] EXCEPT ![i] = x]
           p == o[h + 1] + 2 + i
<1>1. /\ Laid(o, d, c) /\ c \in Seq(Seq(Nat)) /\ Len(c) \in Nat
      /\ \A k \in 1 .. Len(c) : o[k + 1] \in Nat /\ c[k] \in Seq(Nat) /\ Len(c[k]) \in Nat
      /\ \A k \in 0 .. Len(c) : End(o, c, k) \in Nat
  BY EndFacts DEF Whole
<1>2. /\ e \in Seq(Seq(Nat)) /\ Len(e) = Len(c)
      /\ \A k \in 1 .. Len(c) : Len(e[k]) = Len(c[k])
      /\ \A k \in 1 .. Len(c) : k # h => e[k] = c[k]
      /\ \A j \in 1 .. Len(c[h]) : e[h][j] = IF j = i THEN x ELSE c[h][j]
  <2>1. c[h] \in Seq(Nat)
    BY <1>1
  <2>2. /\ new \in Seq(Nat) /\ Len(new) = Len(c[h])
        /\ \A j \in 1 .. Len(c[h]) : new[j] = IF j = i THEN x ELSE c[h][j]
    BY <2>1
  <2>3. e = [c EXCEPT ![h] = new]
    OBVIOUS
  <2> HIDE DEF new, e
  <2>4. e \in Seq(Seq(Nat)) /\ Len(e) = Len(c)
    BY <1>1, <2>2, <2>3
  <2>5. e[h] = new /\ \A k \in 1 .. Len(c) : k # h => e[k] = c[k]
    BY <1>1, <2>3
  <2>6. \A k \in 1 .. Len(c) : Len(e[k]) = Len(c[k])
    BY <2>2, <2>5
  <2> QED
    BY <2>2, <2>4, <2>5, <2>6
<1> HIDE DEF e, new
<1>3. \A k \in 0 .. Len(c) : End(o, e, k) = End(o, c, k)
  <2> TAKE k \in 0 .. Len(c)
  <2>1. k = 0 \/ k \in 1 .. Len(c)
    BY <1>1
  <2> QED
    BY <1>2, <2>1 DEF End
<1>4. \A k \in 1 .. Len(c) : Holds(d, o[k + 1], c[k]) /\ o[k + 1] = End(o, c, k - 1)
  BY <1>1 DEF Laid
<1>5. p \in Nat /\ p - 1 = o[h + 1] + 1 + i /\ p <= Len(d) /\ p - 1 \in Nat /\ p - 1 <= Len(d)
  <2>1. o[h + 1] \in Nat /\ Len(c[h]) \in Nat
    BY <1>1
  <2>2. o[h + 1] + 2 + Len(c[h]) <= Len(d) /\ Len(d) \in Nat
    BY <1>4 DEF Holds
  <2> DEFINE at == o[h + 1]
             len == Len(c[h])
             size == Len(d)
  <2>3. /\ at \in Nat /\ len \in Nat /\ i \in Nat /\ i <= len /\ size \in Nat
        /\ at + 2 + len <= size /\ p = at + 2 + i
    BY <2>1, <2>2
  <2> HIDE DEF at, len, size, p
  <2>4. p \in Nat /\ p - 1 = at + 1 + i /\ p <= size
    BY <2>3
  <2>5. p - 1 \in Nat /\ p - 1 <= size
    BY <2>3, <2>4
  <2> QED
    BY <2>4, <2>5 DEF at, size
<1>7. /\ w \in Seq(Cell) /\ Len(w) = Len(d)
      /\ \A j \in 1 .. Len(d) : w[j] = IF j = p THEN Byte(x) ELSE d[j]
  <2> DEFINE cells == <<Byte(x)>>
  <2>1. cells \in Seq(Cell) /\ Len(cells) = 1 /\ cells[1] = Byte(x)
    BY DEF Byte, Cell
  <2>2. w = WriteAt(d, p - 1, cells)
    BY <1>5
  <2> HIDE DEF cells, w, p
  <2> DEFINE q == p - 1
  <2>6. q \in Nat /\ q <= Len(d) /\ w = WriteAt(d, q, cells)
    BY <1>5, <2>2
  <2> HIDE DEF q
  <2>7. /\ w \in Seq(Cell)
        /\ Len(w) = IF Len(d) > q + Len(cells) THEN Len(d) ELSE q + Len(cells)
        /\ \A j \in 1 .. Len(w) : w[j] = IF j > q /\ j <= q + Len(cells)
                                         THEN cells[j - q] ELSE d[j]
    BY <2>1, <2>6, WriteAtFacts
  <2>3. /\ w \in Seq(Cell)
        /\ Len(w) = IF Len(d) > p - 1 + Len(cells) THEN Len(d) ELSE p - 1 + Len(cells)
        /\ \A j \in 1 .. Len(w) : w[j] = IF j > p - 1 /\ j <= p - 1 + Len(cells)
                                         THEN cells[j - (p - 1)] ELSE d[j]
    BY <2>7 DEF q
  <2>4. Len(w) = Len(d)
    <3> DEFINE len == Len(d)
    <3>1. /\ Len(w) = (IF len > p - 1 + 1 THEN len ELSE p - 1 + 1)
          /\ p \in Nat /\ p <= len
      BY <1>5, <2>1, <2>3
    <3>2. len \in Nat
      OBVIOUS
    <3> HIDE DEF len
    <3>3. Len(w) = len
      BY <3>1, <3>2
    <3> QED
      BY <3>3 DEF len
  <2>5. ASSUME NEW j \in 1 .. Len(d)
        PROVE  w[j] = IF j = p THEN Byte(x) ELSE d[j]
    <3>0. p \in Nat /\ j \in Nat
      BY <1>5
    <3>1. (j > p - 1 /\ j <= p - 1 + 1) <=> j = p
      BY <3>0
    <3>2. j = p => j - (p - 1) = 1
      BY <3>0
    <3> QED
      BY <2>1, <2>3, <2>4, <3>1, <3>2
  <2> QED
    BY <2>3, <2>4, <2>5
<1> HIDE DEF w
<1>8. ASSUME NEW k \in 1 .. Len(c)
      PROVE  Holds(w, o[k + 1], e[k])
  <2> DEFINE at == o[k + 1]
             len == Len(c[k])
  <2>1. at \in Nat /\ len \in Nat /\ Len(e[k]) = len /\ Len(d) \in Nat
    BY <1>1, <1>2
  <2>2. /\ at + 2 + len <= Len(d) /\ d[at + 1] = Magic /\ d[at + 2].v = len
        /\ \A j \in 1 .. len : d[at + 2 + j].v = c[k][j]
    BY <1>4 DEF Holds
  <2>3. /\ p # at + 1 /\ p # at + 2
        /\ \A j \in 1 .. len : p = at + 2 + j <=> (k = h /\ j = i)
    <3> DEFINE ah == o[h + 1]
               lh == Len(c[h])
    <3>1. ah \in Nat /\ lh \in Nat /\ i \in 1 .. lh /\ p = ah + 2 + i
      BY <1>1
    <3>2. k = h => ah = at
      OBVIOUS
    <3>3. k < h => at + 2 + len <= ah
      <4>1. End(o, c, k) = at + 2 + len
        BY DEF End
      <4> QED
        BY <1>1, <4>1 DEF Laid
    <3>4. h < k => ah + 2 + lh <= at
      <4>1. End(o, c, h) = ah + 2 + lh
        BY DEF End
      <4> QED
        BY <1>1, <4>1 DEF Laid
    <3> HIDE DEF at, len, ah, lh, p
    <3>5. p # at + 1 /\ p # at + 2
      <4>1. k = h \/ k < h \/ h < k
        BY <1>1
      <4> QED
        BY <2>1, <3>1, <3>2, <3>3, <3>4, <4>1
    <3>6. ASSUME NEW j \in 1 .. len
          PROVE  p = at + 2 + j <=> (k = h /\ j = i)
      <4>1. CASE k = h
        BY <2>1, <3>1, <3>2, <4>1
      <4>2. CASE k < h
        BY <2>1, <3>1, <3>3, <4>2
      <4>3. CASE h < k
        BY <2>1, <3>1, <3>4, <4>3
      <4> QED
        BY <1>1, <4>1, <4>2, <4>3
    <3> QED
      BY <3>5, <3>6
  <2>4. \A j \in 1 .. len : e[k][j] = IF k = h /\ j = i THEN x ELSE c[k][j]
    BY <1>2
  <2> HIDE DEF at, len, p
  <2>5. at + 1 \in 1 .. Len(d) /\ at + 2 \in 1 .. Len(d) /\ \A j \in 1 .. len : at + 2 + j \in 1 .. Len(d)
    <3> DEFINE size == Len(d)
    <3>1. at \in Nat /\ len \in Nat /\ size \in Nat /\ at + 2 + len <= size
      BY <2>1, <2>2
    <3> HIDE DEF size
    <3>2. at + 1 \in 1 .. size /\ at + 2 \in 1 .. size
      BY <3>1
    <3>3. \A j \in 1 .. len : at + 2 + j \in 1 .. size
      BY <3>1
    <3> QED
      BY <3>2, <3>3 DEF size
  <2>6. w[at + 1] = Magic /\ w[at + 2].v = len
    BY <1>7, <2>2, <2>3, <2>5
  <2>7. ASSUME NEW j \in 1 .. len
        PROVE  w[at + 2 + j].v = e[k][j]
    <3>1. w[at + 2 + j] = IF at + 2 + j = p THEN Byte(x) ELSE d[at + 2 + j]
      BY <1>7, <2>5
    <3>2. CASE k = h /\ j = i
      BY <2>3, <2>4, <3>1, <3>2 DEF Byte
    <3>3. CASE ~(k = h /\ j = i)
      BY <2>2, <2>3, <2>4, <3>1, <3>3
    <3> QED
      BY <3>2, <3>3
  <2>8. at + 2 + len <= Len(w)
    BY <1>7, <2>2
  <2> QED
    BY <2>1, <2>6, <2>7, <2>8 DEF Holds, at
<1>9. \A k \in 1 .. Len(c) : o[k + 1] = End(o, e, k - 1)
  BY <1>1, <1>3, <1>4
<1>10. \A k, m \in 1 .. Len(c) : k < m => End(o, e, k) <= o[m + 1]
  <2> TAKE k, m \in 1 .. Len(c)
  <2>1. k \in 0 .. Len(c)
    BY <1>1
  <2>2. k < m => End(o, c, k) <= o[m + 1]
    BY <1>1 DEF Laid
  <2> QED
    BY <1>3, <2>1, <2>2
<1>11. Laid(o, w, e)
  BY <1>1, <1>2, <1>8, <1>9, <1>10 DEF Laid
<1>12. Whole(o, w, e)
  BY <1>1, <1>2, <1>3, <1>7, <1>11 DEF Whole
<1> QED
  BY <1>7, <1>12 DEF w, e

\* A sequence is all of itself.
LEMMA AllOf ==
    ASSUME NEW S, NEW s \in Seq(S)
    PROVE  SubSeq(s, 1, Len(s)) = s
<1> DEFINE n == Len(s)
<1>1. n \in 0 .. Len(s)
  OBVIOUS
<1> HIDE DEF n
<1>2. /\ Truncate(s, n) \in Seq(S) /\ Len(Truncate(s, n)) = n
      /\ \A i \in 1 .. n : Truncate(s, n)[i] = s[i]
  BY <1>1, TruncateFacts
<1>3. Truncate(s, n) = s
  BY <1>2, SameSequence DEF n
<1> QED
  BY <1>3 DEF Truncate, n

\* What a step of a call does, by the kind of the write.
LEMMA WriteIs ==
    ASSUME Write
    PROVE  LET w == Head(todo) IN
           /\ w.file = "offset" /\ Len(w.cells) # 0 =>
                /\ offsetFile' = [entries |-> Append(Truncate(offsetFile.entries, w.at), w.cells[1].v),
                                  torn |-> FALSE]
                /\ dataFile' = dataFile /\ state' = state
           /\ w.file = "data" =>
                /\ dataFile' = WriteAt(dataFile, w.at, SubSeq(w.cells, 1, Len(w.cells)))
                /\ offsetFile' = offsetFile /\ state' = state
           /\ w.file = "dataEnd" =>
                dataFile' = Truncate(dataFile, w.at) /\ offsetFile' = offsetFile /\ state' = state
           /\ w.file = "offsetEnd" =>
                /\ offsetFile' = [offsetFile EXCEPT !.entries = Truncate(@, w.at)]
                /\ dataFile' = dataFile /\ state' = state
           /\ w.file \in {"stored", "overwritten", "removed"} =>
                dataFile' = dataFile /\ offsetFile' = offsetFile
           /\ w.file = "stored" =>
                state' = [state EXCEPT !.currentOffset = @ + w.at, !.currentHeight = @ + 1]
           /\ w.file = "removed" =>
                state' = [state EXCEPT !.currentOffset = state.offsets[Len(state.offsets)], !.offsets = DropLast(@),
                                       !.currentHeight = @ - 1]
           /\ w.file = "overwritten" => state' = state
<1> DEFINE w == Head(todo)
<1>1. Wrote(w, Len(w.cells)) /\ state' = IF IsEnd(w) THEN Finished(state, w) ELSE state
  BY DEF Write
<1> HIDE DEF w
<1>2. CASE w.file = "offset"
  BY <1>1, <1>2 DEF Wrote, IsEnd, w
<1>3. CASE w.file = "data"
  BY <1>1, <1>3 DEF Wrote, IsEnd, w
<1>4. CASE w.file = "dataEnd"
  BY <1>1, <1>4 DEF Wrote, IsEnd, w
<1>5. CASE w.file = "offsetEnd"
  BY <1>1, <1>5 DEF Wrote, IsEnd, w
<1>6. CASE w.file = "stored"
  BY <1>1, <1>6 DEF Wrote, IsEnd, Finished, w
<1>7. CASE w.file = "removed"
  BY <1>1, <1>7 DEF Wrote, IsEnd, Finished, w
<1>8. CASE w.file = "overwritten"
  BY <1>1, <1>8 DEF Wrote, IsEnd, Finished, w
<1> QED
  BY <1>2, <1>3, <1>4, <1>5, <1>6, <1>7, <1>8 DEF w

-----------------------------------------------------------------------------
(* The writes of a call.                                                   *)

\* StoreData makes its next write, or returns.
LEMMA StoreWriteStep ==
    ASSUME FileInv, Payloads \subseteq Seq(Nat), Write,
           NEW c \in allowed, NEW payload \in Payloads, Storing(c, payload)
    PROVE  FileInv'
<1> DEFINE o == offsetFile.entries
           end == End(o, c, Len(c))
           height == Len(c) + 1
           writes == StoreWrites(height, end, payload)
           States == [mode : {"down", "abandoned", "recover", "up"}, currentHeight : Int,
                      currentOffset : Nat, offsets : Seq(Nat)]
<1>1. /\ o \in Seq(Nat) /\ dataFile \in Seq(Cell) /\ payload \in Seq(Nat) /\ state \in States
      /\ offsetFile \in [entries : Seq(Nat), torn : BOOLEAN] /\ state.mode = "up" /\ ~offsetFile.torn
      /\ allowed' = allowed /\ todo' = Tail(todo)
  BY DEF FileInv, Write
<1>2. Laid(o, dataFile, c)
  BY DEF Storing, Whole
<1>3. /\ c \in Seq(Seq(Nat)) /\ Len(c) \in Nat /\ end \in Nat /\ end <= Len(dataFile)
  BY <1>1, <1>2, EndFacts
<1>4. /\ Append(c, payload) \in allowed /\ OneAhead(state.offsets, o, c)
      /\ state.currentHeight = Len(c) /\ state.currentOffset = end
  BY DEF Storing
<1>9. Len(payload) \in Nat /\ Len(dataFile) \in Nat
  BY <1>1
<1> HIDE DEF end, height
<1>10. /\ Head(writes) = [file |-> "offset", at |-> height, cells |-> <<Size(end)>>]
       /\ Head(Tail(writes)) = [file |-> "data", at |-> end, cells |-> <<Magic, Size(Len(payload))>>]
       /\ Head(Tail(Tail(writes))) = [file |-> "data", at |-> end + 2, cells |-> Cells(payload)]
       /\ Tail(Tail(Tail(writes))) = <<writes[4]>> /\ Tail(<<writes[4]>>) = <<>>
       /\ Head(<<writes[4]>>) = [file |-> "stored", at |-> Len(payload) + 2, cells |-> <<>>]
  BY StoreLists
<1> HIDE DEF writes
<1>5. CASE todo = writes /\ Whole(o, dataFile, c)
  <2> DEFINE n == Len(c) + 1
             t == Truncate(o, n)
             o2 == Append(t, end)
  <2>3. Len(o) = n /\ Len(dataFile) = end /\ n \in Nat
    BY <1>3, <1>5 DEF Whole, end
  <2>1. /\ Head(todo).file = "offset" /\ Head(todo).at = n
        /\ Len(Head(todo).cells) # 0 /\ Head(todo).cells[1].v = end
    <3>1. Len(<<Size(end)>>) = 1 /\ <<Size(end)>>[1].v = end
      BY DEF Size
    <3>2. /\ Head(todo).file = "offset" /\ Head(todo).at = height
          /\ Head(todo).cells = <<Size(end)>>
      BY <1>5, <1>10
    <3> QED
      BY <3>1, <3>2 DEF height
  <2>2. offsetFile' = [entries |-> o2, torn |-> FALSE] /\ dataFile' = dataFile /\ state' = state
    BY <2>1, WriteIs
  <2> HIDE DEF n
  <2>4. t \in Seq(Nat) /\ Len(t) = n /\ \A h \in 1 .. n : t[h] = o[h]
    <3>1. n \in 0 .. Len(o)
      BY <2>3
    <3> QED
      BY <1>1, <3>1 DEF Truncate
  <2> HIDE DEF t
  <2>5. /\ o2 \in Seq(Nat) /\ Len(o2) = n + 1 /\ o2[n + 1] = end
        /\ \A h \in 1 .. n : o2[h] = o[h]
    BY <1>3, <2>4
  <2> HIDE DEF o2
  <2>12. n = Len(c) + 1 /\ n + 1 = Len(c) + 2 /\ Len(o2) >= Len(c) + 1
    BY <1>3, <2>5 DEF n
  <2>6. Laid(o2, dataFile, c) /\ End(o2, c, Len(c)) = end
    <3>1. /\ o2 \in Seq(Nat) /\ Len(o2) >= Len(c) + 1
          /\ \A h \in 1 .. Len(c) + 1 : o2[h] = o[h]
      BY <2>5, <2>12
    <3>2. Laid(o2, dataFile, c) /\ End(o2, c, Len(c)) = End(o, c, Len(c))
      BY <1>1, <1>2, <1>3, <3>1, OffsetsKept
    <3> QED
      BY <3>2 DEF end
  <2>7. Written(dataFile, end, payload)
    BY <1>3, <1>9, <2>3 DEF Written
  <2>8. OneAhead(state.offsets, o2, c)
    BY <1>4, <2>5, <2>6, <2>12 DEF OneAhead, end
  <2>9. todo' = Tail(StoreWrites(Len(c) + 1, End(o2, c, Len(c)), payload))
    BY <1>1, <1>5, <2>6 DEF writes, height
  <2>10. Storing(c, payload)'
    <3>1. /\ offsetFile'.entries = o2 /\ Len(o2) = Len(c) + 2 /\ o2[Len(o2)] = End(o2, c, Len(c))
          /\ Len(dataFile) = End(o2, c, Len(c)) /\ state.currentOffset = End(o2, c, Len(c))
          /\ Written(dataFile, End(o2, c, Len(c)), payload)
      BY <1>4, <2>2, <2>3, <2>5, <2>6, <2>7, <2>12
    <3> QED
      BY <1>1, <1>4, <2>2, <2>6, <2>8, <2>9, <3>1 DEF Storing
  <2>11. Phase(c)'
    BY <1>1, <2>2, <2>10 DEF Phase
  <2> QED
    BY <1>1, <2>2, <2>5, <2>11 DEF FileInv
<1>6. ASSUME Len(o) = Len(c) + 2, o[Len(o)] = end, Written(dataFile, end, payload),
             todo = Tail(writes) /\ Len(dataFile) = end
      PROVE  FileInv'
  <2> DEFINE cells == <<Magic, Size(Len(payload))>>
             d2 == WriteAt(dataFile, Len(dataFile), cells)
  <2>1. /\ Head(todo) = [file |-> "data", at |-> Len(dataFile), cells |-> cells]
        /\ Tail(todo) = Tail(Tail(writes))
    BY <1>6, <1>10
  <2>2. Len(cells) = 2 /\ cells \in Seq(Cell)
    BY <1>1, CellFacts
  <2>12. \A j \in 1 .. 2 : cells[j] = CellOf(payload, j)
    <3>1. cells[1] = Magic /\ cells[2] = Size(Len(payload))
      OBVIOUS
    <3>2. CellOf(payload, 1) = Magic /\ CellOf(payload, 2) = Size(Len(payload))
      BY DEF CellOf
    <3>3. \A j \in 1 .. 2 : j = 1 \/ j = 2
      OBVIOUS
    <3> HIDE DEF cells
    <3> QED
      BY <3>1, <3>2, <3>3
  <2> HIDE DEF cells
  <2>3. dataFile' = d2 /\ offsetFile' = offsetFile /\ state' = state
    <3>1. Head(todo).file = "data" /\ Head(todo).at = Len(dataFile) /\ Head(todo).cells = cells
      BY <2>1
    <3>2. SubSeq(cells, 1, Len(cells)) = cells
      BY <2>2, AllOf
    <3> QED
      BY <3>1, <3>2, WriteIs
  <2>5. \A j \in 1 .. Len(cells) : cells[j] = CellOf(payload, Len(dataFile) - end + j)
    <3>1. \A j \in 1 .. 2 : Len(dataFile) - end + j = j
      BY <1>3, <1>6
    <3> QED
      BY <2>2, <2>12, <3>1
  <2>6. Len(dataFile) + Len(cells) <= end + 2 + Len(payload)
    BY <1>3, <1>6, <1>9, <2>2
  <2>7. /\ d2 \in Seq(Cell) /\ Len(d2) = Len(dataFile) + Len(cells)
        /\ Laid(o, d2, c) /\ Written(d2, end, payload)
    BY <1>1, <1>2, <1>6, <2>2, <2>5, <2>6, PartWritten DEF end
  <2> HIDE DEF d2
  <2>8. Storing(c, payload)'
    BY <1>1, <1>4, <1>6, <2>1, <2>2, <2>3, <2>7 DEF Storing, end, writes, height
  <2>9. Phase(c)'
    BY <1>1, <2>3, <2>8 DEF Phase
  <2> QED
    BY <1>1, <2>3, <2>7, <2>9 DEF FileInv
<1>7. ASSUME Len(o) = Len(c) + 2, o[Len(o)] = end, Written(dataFile, end, payload),
             todo = Tail(Tail(writes)) /\ Len(dataFile) = end + 2
      PROVE  FileInv'
  <2> DEFINE cells == Cells(payload)
             d2 == WriteAt(dataFile, Len(dataFile), cells)
  <2>1. /\ Head(todo) = [file |-> "data", at |-> Len(dataFile), cells |-> cells]
        /\ Tail(todo) = <<writes[4]>>
    BY <1>7, <1>10
  <2>2. /\ cells \in Seq(Cell) /\ Len(cells) = Len(payload)
        /\ \A j \in 1 .. Len(payload) : cells[j] = Byte(payload[j])
    BY <1>1, CellFacts
  <2> HIDE DEF cells
  <2>3. dataFile' = d2 /\ offsetFile' = offsetFile /\ state' = state
    <3>1. Head(todo).file = "data" /\ Head(todo).at = Len(dataFile) /\ Head(todo).cells = cells
      BY <2>1
    <3>2. SubSeq(cells, 1, Len(cells)) = cells
      BY <2>2, AllOf
    <3> QED
      BY <3>1, <3>2, WriteIs
  <2>5. ASSUME NEW j \in 1 .. Len(cells)
        PROVE  cells[j] = CellOf(payload, Len(dataFile) - end + j)
    <3>1. Len(dataFile) - end + j = 2 + j /\ 2 + j # 1 /\ 2 + j # 2 /\ 2 + j - 2 = j
      BY <1>3, <1>7
    <3>2. CellOf(payload, 2 + j) = Byte(payload[j])
      BY <3>1 DEF CellOf
    <3> QED
      BY <2>2, <3>1, <3>2
  <2>6. Len(dataFile) + Len(cells) <= end + 2 + Len(payload)
    BY <1>3, <1>7, <1>9, <2>2
  <2>7. /\ d2 \in Seq(Cell) /\ Len(d2) = Len(dataFile) + Len(cells)
        /\ Laid(o, d2, c) /\ Written(d2, end, payload)
    BY <1>1, <1>2, <1>7, <2>2, <2>5, <2>6, PartWritten DEF end
  <2> HIDE DEF d2
  <2>8. Storing(c, payload)'
    BY <1>1, <1>4, <1>7, <2>1, <2>2, <2>3, <2>7 DEF Storing, end, writes, height
  <2>9. Phase(c)'
    BY <1>1, <2>3, <2>8 DEF Phase
  <2> QED
    BY <1>1, <2>3, <2>7, <2>9 DEF FileInv
<1>8. ASSUME Len(o) = Len(c) + 2, o[Len(o)] = end, Written(dataFile, end, payload),
             todo = <<writes[4]>> /\ Len(dataFile) = end + 2 + Len(payload)
      PROVE  FileInv'
  <2>1. /\ Head(todo).file = "stored" /\ Head(todo).at = Len(payload) + 2
        /\ Tail(todo) = <<>>
    BY <1>8, <1>10
  <2>2. /\ dataFile' = dataFile /\ offsetFile' = offsetFile
        /\ state' = [state EXCEPT !.currentOffset = @ + (Len(payload) + 2), !.currentHeight = @ + 1]
    BY <2>1, WriteIs
  <2>3. Whole(o, dataFile, Append(c, payload))
    BY <1>1, <1>2, <1>8, WrittenParts DEF end
  <2>4. state.offsets = o
    <3>1. /\ Len(state.offsets) = Len(o) /\ state.offsets \in Seq(Nat)
          /\ state.offsets[Len(c) + 2] = o[Len(c) + 2]
          /\ \A h \in 1 .. Len(c) + 1 : state.offsets[h] = o[h]
      BY <1>1, <1>4, <1>8 DEF OneAhead, end
    <3>2. \A h \in 1 .. Len(o) : h \in 1 .. Len(c) + 1 \/ h = Len(c) + 2
      BY <1>3, <1>8
    <3>3. \A h \in 1 .. Len(o) : state.offsets[h] = o[h]
      BY <3>1, <3>2
    <3> QED
      BY <1>1, <3>1, <3>3, SameSequence
  <2>5. /\ state'.offsets = o /\ state'.currentHeight = Len(c) + 1
        /\ state'.currentOffset = Len(dataFile) /\ state'.mode = "up" /\ state' \in States
    <3>1. /\ state'.offsets = o /\ state'.currentHeight = Len(c) + 1
          /\ state'.currentOffset = end + (Len(payload) + 2) /\ state'.mode = "up"
      BY <1>1, <1>4, <2>2, <2>4
    <3>2. end + (Len(payload) + 2) = Len(dataFile) /\ end + (Len(payload) + 2) \in Nat /\ Len(c) + 1 \in Int
      BY <1>3, <1>8, <1>9
    <3> QED
      BY <1>1, <1>4, <2>2, <3>1, <3>2
  <2>6. InMemory(Append(c, payload))'
    <3>1. Len(Append(c, payload)) = Len(c) + 1
      BY <1>1, <1>3
    <3> QED
      BY <2>2, <2>5, <3>1 DEF InMemory
  <2>7. Phase(Append(c, payload))'
    BY <1>1, <2>1, <2>2, <2>3, <2>5, <2>6 DEF Phase
  <2> QED
    BY <1>1, <1>4, <2>2, <2>5, <2>7 DEF FileInv
<1> QED
  BY <1>5, <1>6, <1>7, <1>8 DEF Storing, end, writes, height

\* OverWrite makes its write, or returns.
LEMMA OverWriteWriteStep ==
    ASSUME FileInv, Write, NEW c \in allowed, Overwriting(c)
    PROVE  FileInv'
<1> DEFINE o == offsetFile.entries
<1>1. /\ o \in Seq(Nat) /\ dataFile \in Seq(Cell) /\ state.mode = "up" /\ ~offsetFile.torn
      /\ allowed' = allowed /\ todo' = Tail(todo)
      /\ Whole(o, dataFile, c) /\ InMemory(c)
  BY DEF FileInv, Write, Overwriting
<1>2. ASSUME NEW h \in 1 .. Len(c), NEW i \in 1 .. Len(c[h]), NEW x \in Nat,
             todo = OverWrites(o[h + 1] + 1 + i, x), [c EXCEPT ![h][i] = x] \in allowed
      PROVE  FileInv'
  <2> DEFINE e == [c EXCEPT ![h][i] = x]
             d2 == WriteAt(dataFile, o[h + 1] + 1 + i, <<Byte(x)>>)
  <2>1. /\ Head(todo) = [file |-> "data", at |-> o[h + 1] + 1 + i, cells |-> <<Byte(x)>>]
        /\ Tail(todo) = Tail(OverWrites(0, 0))
    BY <1>2, OverLists
  <2>2. SubSeq(<<Byte(x)>>, 1, Len(<<Byte(x)>>)) = <<Byte(x)>>
    <3> DEFINE cells == <<Byte(x)>>
    <3>1. cells \in Seq(Cell)
      BY DEF Cell, Byte
    <3> HIDE DEF cells
    <3>2. SubSeq(cells, 1, Len(cells)) = cells
      BY <3>1, AllOf
    <3> QED
      BY <3>2 DEF cells
  <2>3. dataFile' = d2 /\ offsetFile' = offsetFile /\ state' = state
    <3>1. /\ Head(todo).file = "data" /\ Head(todo).at = o[h + 1] + 1 + i
          /\ Head(todo).cells = <<Byte(x)>>
      BY <2>1
    <3> QED
      BY <2>2, <3>1, WriteIs
  <2>4. d2 \in Seq(Cell) /\ Len(d2) = Len(dataFile) /\ Whole(o, d2, e)
    BY <1>1, ByteWritten
  <2>5. Len(e) = Len(c)
    BY <1>1, EndFacts DEF Whole
  <2> HIDE DEF d2, e
  <2>6. InMemory(e)'
    BY <1>1, <2>3, <2>4, <2>5 DEF InMemory
  <2>7. Overwriting(e)'
    BY <1>1, <2>1, <2>3, <2>4, <2>6 DEF Overwriting
  <2>8. Phase(e)'
    BY <1>1, <2>3, <2>7 DEF Phase
  <2> QED
    BY <1>1, <1>2, <2>3, <2>4, <2>8 DEF FileInv, e
<1>3. CASE todo = Tail(OverWrites(0, 0))
  <2>1. Head(todo).file = "overwritten" /\ Tail(todo) = <<>>
    <3> DEFINE t == Tail(OverWrites(0, 0))
               w == Head(t)
    <3>1. w = [file |-> "overwritten", at |-> 0, cells |-> <<>>] /\ Tail(t) = <<>>
      BY OverLists
    <3> HIDE DEF w
    <3>4. w.file = "overwritten"
      BY <3>1
    <3>2. Head(todo).file = "overwritten"
      BY <1>3, <3>4 DEF w
    <3>3. Tail(todo) = <<>>
      BY <1>3, <3>1
    <3> QED
      BY <3>2, <3>3
  <2>2. dataFile' = dataFile /\ offsetFile' = offsetFile /\ state' = state
    BY <2>1, WriteIs
  <2>3. InMemory(c)'
    BY <1>1, <2>2 DEF InMemory
  <2>4. Phase(c)'
    BY <1>1, <2>1, <2>2, <2>3 DEF Phase
  <2> QED
    BY <1>1, <2>2, <2>4 DEF FileInv
<1> QED
  BY <1>2, <1>3 DEF Overwriting

\* DisconnectBlock makes its next write, or returns.
LEMMA RemoveWriteStep ==
    ASSUME FileInv, Write, NEW c \in allowed, Removing(c)
    PROVE  FileInv'
<1> DEFINE o == offsetFile.entries
           n == Len(c)
           end == End(o, c, n)
           States == [mode : {"down", "abandoned", "recover", "up"}, currentHeight : Int,
                      currentOffset : Nat, offsets : Seq(Nat)]
           heights == n + 1
           writes == RemoveWrites(end, heights)
<1>1. /\ o \in Seq(Nat) /\ dataFile \in Seq(Cell) /\ state \in States
      /\ offsetFile \in [entries : Seq(Nat), torn : BOOLEAN] /\ state.mode = "up" /\ ~offsetFile.torn
      /\ allowed' = allowed /\ todo' = Tail(todo)
  BY DEF FileInv, Write
<1>2. state.currentHeight = n + 1 /\ OneAhead(state.offsets, o, c) /\ Laid(o, dataFile, c)
  BY DEF Removing, Whole, Partly
<1>3. n \in Nat /\ end \in Nat /\ end <= Len(dataFile)
  BY <1>1, <1>2, EndFacts
<1> HIDE DEF end, heights
<1>7. /\ Head(writes) = [file |-> "dataEnd", at |-> end, cells |-> <<>>]
      /\ Head(Tail(writes)) = [file |-> "offsetEnd", at |-> heights, cells |-> <<>>]
      /\ Tail(Tail(writes)) = <<writes[3]>> /\ Tail(<<writes[3]>>) = <<>>
      /\ Head(<<writes[3]>>) = [file |-> "removed", at |-> 0, cells |-> <<>>]
  BY RemoveLists
<1>8. heights = n + 1 /\ heights \in Nat
  BY <1>3 DEF heights
<1> HIDE DEF writes
<1>4. ASSUME todo = writes, Len(o) = n + 2, o[n + 2] = end
      PROVE  FileInv'
  <2> DEFINE d2 == Truncate(dataFile, end)
  <2>1. Head(todo) = [file |-> "dataEnd", at |-> end, cells |-> <<>>] /\ Tail(todo) = Tail(writes)
    BY <1>4, <1>7
  <2>2. dataFile' = d2 /\ offsetFile' = offsetFile /\ state' = state
    BY <2>1, WriteIs
  <2>3. d2 \in Seq(Cell) /\ Len(d2) = end /\ \A i \in 1 .. end : d2[i] = dataFile[i]
    BY <1>1, <1>3 DEF Truncate
  <2> HIDE DEF d2
  <2>4. Laid(o, d2, c)
    <3>1. /\ Len(o) >= Len(c) + 1 /\ Len(d2) >= End(o, c, Len(c))
          /\ \A h \in 1 .. Len(c) + 1 : o[h] = o[h]
          /\ \A i \in 1 .. End(o, c, Len(c)) : d2[i] = dataFile[i]
      BY <1>3, <1>4, <2>3 DEF end
    <3> QED
      BY <1>1, <1>2, <2>3, <3>1, LaidKept
  <2>5. EntryAt(d2, end) = ReadFailed
    BY <1>3, <2>3 DEF EntryAt
  <2>6. Partly(o, d2, c)
    <3>1. Len(o) = Len(c) + 2 /\ o[Len(o)] = end /\ Len(d2) >= end
      BY <1>3, <1>4, <2>3
    <3> QED
      BY <2>4, <2>5, <3>1 DEF Partly, end
  <2>7. Removing(c)'
    BY <1>1, <1>2, <2>1, <2>2, <2>3, <2>6 DEF Removing, end, writes, heights
  <2>8. Phase(c)'
    BY <1>1, <2>2, <2>7 DEF Phase
  <2> QED
    BY <1>1, <2>2, <2>3, <2>8 DEF FileInv
<1>5. ASSUME todo = Tail(writes), Partly(o, dataFile, c), Len(dataFile) = end
      PROVE  FileInv'
  <2> DEFINE o2 == Truncate(o, heights)
  <2>1. /\ Head(todo) = [file |-> "offsetEnd", at |-> heights, cells |-> <<>>]
        /\ Tail(todo) = <<writes[3]>>
    BY <1>5, <1>7
  <2>2. offsetFile' = [offsetFile EXCEPT !.entries = o2] /\ dataFile' = dataFile /\ state' = state
    BY <2>1, WriteIs
  <2>3. Len(o) = n + 2
    BY <1>5 DEF Partly
  <2>4. o2 \in Seq(Nat) /\ Len(o2) = n + 1 /\ \A h \in 1 .. n + 1 : o2[h] = o[h]
    <3>1. /\ o2 \in Seq(Nat) /\ Len(o2) = heights
          /\ \A h \in 1 .. heights : o2[h] = o[h]
      <4>1. heights \in 0 .. Len(o)
        BY <1>3, <1>8, <2>3
      <4> QED
        BY <1>1, <4>1 DEF Truncate
    <3> QED
      BY <1>8, <3>1
  <2> HIDE DEF o2
  <2>5. Laid(o2, dataFile, c) /\ End(o2, c, n) = end
    <3>1. /\ o \in Seq(Nat) /\ dataFile \in Seq(Cell) /\ Laid(o, dataFile, c)
          /\ o2 \in Seq(Nat) /\ Len(o2) >= Len(c) + 1
          /\ \A h \in 1 .. Len(c) + 1 : o2[h] = o[h]
      BY <1>1, <1>2, <1>3, <2>4
    <3> HIDE DEF o
    <3>2. Laid(o2, dataFile, c) /\ End(o2, c, Len(c)) = End(o, c, Len(c))
      BY <3>1, OffsetsKept
    <3> QED
      BY <3>2 DEF end
  <2>6. Whole(o2, dataFile, c)
    BY <1>5, <2>4, <2>5 DEF Whole
  <2>7. offsetFile'.entries = o2 /\ ~offsetFile'.torn /\ offsetFile' \in [entries : Seq(Nat), torn : BOOLEAN]
    BY <1>1, <2>2, <2>4
  <2>8. OneAhead(state.offsets, o2, c)
    BY <1>2, <2>4, <2>5 DEF OneAhead, end
  <2>9. Removing(c)'
    BY <1>1, <1>2, <2>1, <2>2, <2>5, <2>6, <2>7, <2>8 DEF Removing, writes, heights
  <2>10. Phase(c)'
    BY <1>1, <2>2, <2>9 DEF Phase
  <2> QED
    BY <1>1, <2>2, <2>7, <2>10 DEF FileInv
<1>6. ASSUME todo = <<writes[3]>>, Whole(o, dataFile, c)
      PROVE  FileInv'
  <2>1. Head(todo) = [file |-> "removed", at |-> 0, cells |-> <<>>] /\ Tail(todo) = <<>>
    BY <1>6, <1>7
  <2>2. /\ dataFile' = dataFile /\ offsetFile' = offsetFile
        /\ state' = [state EXCEPT !.currentOffset = state.offsets[Len(state.offsets)], !.offsets = DropLast(@),
                                  !.currentHeight = @ - 1]
    BY <2>1, WriteIs
  <2>3. Len(o) = n + 1 /\ Len(dataFile) = end
    BY <1>6 DEF Whole, end
  <2>4. state.offsets[Len(state.offsets)] = end /\ DropLast(state.offsets) = o
    <3>1. /\ state.offsets \in Seq(Nat) /\ Len(state.offsets) = n + 2
          /\ state.offsets[n + 2] = end
          /\ \A h \in 1 .. n + 1 : state.offsets[h] = o[h]
      BY <1>1, <1>2 DEF OneAhead, end
    <3>2. state.offsets[Len(state.offsets)] = end
      BY <3>1
    <3>3. /\ DropLast(state.offsets) \in Seq(Nat) /\ Len(DropLast(state.offsets)) = n + 1
          /\ \A h \in 1 .. n + 1 : DropLast(state.offsets)[h] = state.offsets[h]
      BY <1>3, <3>1 DEF DropLast, Truncate
    <3> DEFINE f == DropLast(state.offsets)
    <3> HIDE DEF f
    <3>4. f \in Seq(Nat) /\ Len(f) = Len(o) /\ \A h \in 1 .. Len(f) : f[h] = o[h]
      BY <2>3, <3>1, <3>3 DEF f
    <3>5. f = o
      BY <1>1, <3>4, SameSequence
    <3> QED
      BY <3>2, <3>5 DEF f
  <2>5. /\ state'.offsets = o /\ state'.currentHeight = n /\ state'.currentOffset = end
        /\ state'.mode = "up" /\ state' \in States
    <3>1. /\ state'.offsets = o /\ state'.currentHeight = n + 1 - 1
          /\ state'.currentOffset = end /\ state'.mode = "up"
      BY <1>1, <1>2, <2>2, <2>4
    <3>2. n + 1 - 1 = n /\ n \in Int
      BY <1>3
    <3> QED
      BY <1>1, <1>3, <2>2, <3>1, <3>2
  <2>6. InMemory(c)'
    BY <2>2, <2>3, <2>5 DEF InMemory
  <2>7. Phase(c)'
    BY <1>1, <1>6, <2>1, <2>2, <2>5, <2>6 DEF Phase
  <2> QED
    BY <1>1, <2>2, <2>5, <2>7 DEF FileInv
<1> QED
  BY <1>4, <1>5, <1>6 DEF Removing, end, writes, heights

\* Whatever a running call has done so far, the files hold one of the contents
\* that a reader may find, and perhaps part of an entry.
LEMMA Standing ==
    ASSUME FileInv, Payloads \subseteq Seq(Nat), state.mode # "down"
    PROVE  \E c \in allowed : \/ Whole(offsetFile.entries, dataFile, c)
                              \/ Partly(offsetFile.entries, dataFile, c)
<1> DEFINE o == offsetFile.entries
<1>1. o \in Seq(Nat) /\ dataFile \in Seq(Cell)
  BY DEF FileInv
<1>2. PICK c \in allowed : Phase(c)
  BY DEF FileInv
<1>3. ASSUME NEW payload \in Payloads, Storing(c, payload)
      PROVE  \E b \in allowed : Whole(o, dataFile, b) \/ Partly(o, dataFile, b)
  <2>1. payload \in Seq(Nat) /\ Append(c, payload) \in allowed
    BY <1>3 DEF Storing
  <2>2. CASE Whole(o, dataFile, c)
    BY <2>2
  <2>3. CASE ~Whole(o, dataFile, c)
    <3>1. /\ Laid(o, dataFile, c) /\ Len(o) = Len(c) + 2 /\ o[Len(o)] = End(o, c, Len(c))
          /\ Written(dataFile, End(o, c, Len(c)), payload)
      BY <1>3, <2>3 DEF Storing
    <3>2. Partly(o, dataFile, c) \/ Whole(o, dataFile, Append(c, payload))
      BY <1>1, <2>1, <3>1, WrittenParts
    <3> QED
      BY <2>1, <3>2
  <2> QED
    BY <2>2, <2>3
<1>4. CASE Overwriting(c)
  BY <1>4 DEF Overwriting
<1>5. CASE Removing(c)
  BY <1>5 DEF Removing
<1> QED
  BY <1>2, <1>3, <1>4, <1>5 DEF Phase

\* A write of data that is cut anywhere leaves the files in the same way.
LEMMA Cut ==
    ASSUME FileInv, Payloads \subseteq Seq(Nat), state.mode = "up", todo # <<>>,
           Head(todo).file = "data", NEW n \in 0 .. Len(Head(todo).cells)
    PROVE  LET d2 == WriteAt(dataFile, Head(todo).at, SubSeq(Head(todo).cells, 1, n)) IN
           /\ d2 \in Seq(Cell)
           /\ \E c \in allowed : \/ Whole(offsetFile.entries, d2, c)
                                 \/ Partly(offsetFile.entries, d2, c)
<1> DEFINE o == offsetFile.entries
           d2 == WriteAt(dataFile, Head(todo).at, SubSeq(Head(todo).cells, 1, n))
           Goal == d2 \in Seq(Cell) /\ \E c \in allowed : Whole(o, d2, c) \/ Partly(o, d2, c)
<1>1. o \in Seq(Nat) /\ dataFile \in Seq(Cell)
  BY DEF FileInv
<1>2. PICK c \in allowed : Phase(c)
  BY DEF FileInv
<1>3. ASSUME NEW payload \in Payloads, Storing(c, payload)
      PROVE  Goal
  <2> DEFINE end == End(o, c, Len(c))
             height == Len(c) + 1
             writes == StoreWrites(height, end, payload)
             cells == SubSeq(Head(todo).cells, 1, n)
  <2>1. payload \in Seq(Nat) /\ Append(c, payload) \in allowed
    BY <1>3 DEF Storing
  <2> HIDE DEF end, height
  <2>9. /\ Head(writes) = [file |-> "offset", at |-> height, cells |-> <<Size(end)>>]
        /\ Head(Tail(writes)) = [file |-> "data", at |-> end, cells |-> <<Magic, Size(Len(payload))>>]
        /\ Head(Tail(Tail(writes))) = [file |-> "data", at |-> end + 2, cells |-> Cells(payload)]
        /\ Head(<<writes[4]>>) = [file |-> "stored", at |-> Len(payload) + 2, cells |-> <<>>]
    BY StoreLists
  <2>2. Head(writes).file = "offset" /\ Head(<<writes[4]>>).file = "stored"
    BY <2>9
  <2> HIDE DEF writes
  <2>3. /\ Laid(o, dataFile, c) /\ Len(o) = Len(c) + 2 /\ o[Len(o)] = end
        /\ Written(dataFile, end, payload)
        /\ \/ todo = Tail(writes) /\ Len(dataFile) = end
           \/ todo = Tail(Tail(writes)) /\ Len(dataFile) = end + 2
    BY <1>3, <2>2 DEF Storing, end, height, writes
  <2>4. end \in Nat /\ Len(payload) \in Nat /\ Len(dataFile) \in Nat
    <3>1. End(o, c, Len(c)) \in Nat
      BY <1>1, <2>3, EndFacts
    <3> QED
      BY <1>1, <2>1, <3>1 DEF end
  <2>5. /\ Head(todo).at = Len(dataFile) /\ cells \in Seq(Cell)
        /\ Len(dataFile) + Len(cells) <= end + 2 + Len(payload)
        /\ \A j \in 1 .. Len(cells) : cells[j] = CellOf(payload, Len(dataFile) - end + j)
    <3>1. CASE todo = Tail(writes) /\ Len(dataFile) = end
      <4>1. Head(todo) = [file |-> "data", at |-> end, cells |-> <<Magic, Size(Len(payload))>>]
        BY <2>9, <3>1
      <4>5. Head(todo).cells = <<Magic, Size(Len(payload))>> /\ Head(todo).at = end
        BY <4>1
      <4>6. Len(<<Magic, Size(Len(payload))>>) = 2
        OBVIOUS
      <4>2. n \in 0 .. 2 /\ cells = SubSeq(<<Magic, Size(Len(payload))>>, 1, n)
        BY <4>5, <4>6
      <4> HIDE DEF cells
      <4>3. cells \in Seq(Cell) /\ Len(cells) = n /\ \A j \in 1 .. n : cells[j] = CellOf(payload, j)
        BY <2>1, <4>2, HeaderCells
      <4>4. \A j \in 1 .. n : Len(dataFile) - end + j = j
        BY <2>4, <3>1
      <4>7. \A j \in 1 .. Len(cells) : cells[j] = CellOf(payload, Len(dataFile) - end + j)
        BY <4>3, <4>4
      <4>8. Len(dataFile) + Len(cells) <= end + 2 + Len(payload)
        <5> DEFINE len == Len(payload)
        <5>1. Len(dataFile) = end /\ Len(cells) = n /\ n \in 0 .. 2 /\ end \in Nat /\ len \in Nat
          BY <2>4, <3>1, <4>2, <4>3
        <5> HIDE DEF len
        <5>2. end + n <= end + 2 + len
          BY <5>1
        <5> QED
          BY <5>1, <5>2 DEF len
      <4> QED
        BY <3>1, <4>3, <4>5, <4>7, <4>8
    <3>2. CASE todo = Tail(Tail(writes)) /\ Len(dataFile) = end + 2
      <4>1. Head(todo) = [file |-> "data", at |-> end + 2, cells |-> Cells(payload)]
        BY <2>9, <3>2
      <4>5. Head(todo).cells = Cells(payload) /\ Head(todo).at = end + 2
        BY <4>1
      <4>6. Len(Cells(payload)) = Len(payload)
        BY <2>1, CellFacts
      <4>2. n \in 0 .. Len(payload) /\ cells = SubSeq(Cells(payload), 1, n)
        BY <4>5, <4>6
      <4> HIDE DEF cells
      <4>3. cells \in Seq(Cell) /\ Len(cells) = n /\ \A j \in 1 .. n : cells[j] = CellOf(payload, 2 + j)
        BY <2>1, <4>2, DataCells
      <4>4. \A j \in 1 .. n : Len(dataFile) - end + j = 2 + j
        BY <2>4, <3>2
      <4> QED
        <5>1. Head(todo).at = Len(dataFile)
          BY <3>2, <4>5
        <5>2. n \in Nat /\ n <= Len(payload)
          BY <2>4, <4>2
        <5>3. Len(dataFile) + Len(cells) <= end + 2 + Len(payload)
          BY <2>4, <3>2, <4>3, <5>2
        <5>4. \A j \in 1 .. Len(cells) : cells[j] = CellOf(payload, Len(dataFile) - end + j)
          BY <4>3, <4>4
        <5> QED
          BY <4>3, <5>1, <5>3, <5>4
    <3> QED
      BY <2>3, <3>1, <3>2
  <2> HIDE DEF cells
  <2>6. d2 = WriteAt(dataFile, Len(dataFile), cells)
    BY <2>5 DEF cells
  <2>7. d2 \in Seq(Cell) /\ Laid(o, d2, c) /\ Written(d2, end, payload)
    <3> DEFINE w == WriteAt(dataFile, Len(dataFile), cells)
    <3>1. w \in Seq(Cell) /\ Laid(o, w, c) /\ Written(w, end, payload)
      <4>1. Laid(o, dataFile, c) /\ Written(dataFile, end, payload)
        BY <2>3
      <4>2. /\ cells \in Seq(Cell)
            /\ Len(dataFile) + Len(cells) <= end + 2 + Len(payload)
            /\ \A j \in 1 .. Len(cells) : cells[j] = CellOf(payload, Len(dataFile) - end + j)
        BY <2>5
      <4> QED
        <5>1. /\ Written(dataFile, End(o, c, Len(c)), payload)
              /\ Len(dataFile) + Len(cells) <= End(o, c, Len(c)) + 2 + Len(payload)
              /\ \A j \in 1 .. Len(cells) : cells[j] = CellOf(payload, Len(dataFile) - End(o, c, Len(c)) + j)
              /\ End(o, c, Len(c)) \in Nat
          BY <2>4, <4>1, <4>2 DEF end
        <5>2. /\ w \in Seq(Cell) /\ Laid(o, w, c) /\ Written(w, End(o, c, Len(c)), payload)
          BY <1>1, <2>1, <2>4, <4>1, <4>2, <5>1, PartWritten
        <5> QED
          BY <5>2 DEF end
    <3> QED
      BY <2>6, <3>1
  <2> HIDE DEF d2
  <2>8. Partly(o, d2, c) \/ Whole(o, d2, Append(c, payload))
    BY <1>1, <2>1, <2>3, <2>4, <2>7, WrittenParts DEF end
  <2> QED
    BY <2>1, <2>7, <2>8
<1>4. ASSUME Overwriting(c)
      PROVE  Goal
  <2>1. Head(Tail(OverWrites(0, 0))).file = "overwritten" /\ Whole(o, dataFile, c)
    <3> DEFINE w == Head(Tail(OverWrites(0, 0)))
    <3>1. w = [file |-> "overwritten", at |-> 0, cells |-> <<>>]
      BY OverLists
    <3> HIDE DEF w
    <3>4. w.file = "overwritten"
      BY <3>1
    <3>2. Head(Tail(OverWrites(0, 0))).file = "overwritten"
      BY <3>4 DEF w
    <3>3. Whole(o, dataFile, c)
      BY <1>4 DEF Overwriting
    <3> QED
      BY <3>2, <3>3
  <2>7. PICK h \in 1 .. Len(c) : \E i \in 1 .. Len(c[h]) : \E x \in Nat :
          todo = OverWrites(o[h + 1] + 1 + i, x) /\ [c EXCEPT ![h][i] = x] \in allowed
    BY <1>4, <2>1 DEF Overwriting
  <2>2. PICK i \in 1 .. Len(c[h]), x \in Nat :
          todo = OverWrites(o[h + 1] + 1 + i, x) /\ [c EXCEPT ![h][i] = x] \in allowed
    BY <2>7
  <2> DEFINE at == o[h + 1] + 1 + i
  <2>3. Head(todo) = [file |-> "data", at |-> at, cells |-> <<Byte(x)>>]
    BY <2>2, OverLists
  <2>8. Head(todo).at = at /\ Head(todo).cells = <<Byte(x)>>
    BY <2>3
  <2>4. n = 0 \/ n = 1
    <3>1. Len(<<Byte(x)>>) = 1
      OBVIOUS
    <3> QED
      <4>1. Len(Head(todo).cells) = 1
        BY <2>8, <3>1
      <4>2. n \in 0 .. 1
        BY <4>1
      <4> QED
        BY <4>2
  <2>5. CASE n = 0
    <3>1. SubSeq(<<Byte(x)>>, 1, 0) = <<>>
      OBVIOUS
    <3>2. at \in Nat /\ at <= Len(dataFile)
      <4>1. Laid(o, dataFile, c)
        BY <2>1 DEF Whole
      <4>2. Holds(dataFile, o[h + 1], c[h]) /\ o[h + 1] \in Nat /\ Len(c[h]) \in Nat
        BY <1>1, <4>1, EndFacts DEF Laid
      <4>3. o[h + 1] + 2 + Len(c[h]) <= Len(dataFile)
        BY <4>2 DEF Holds
      <4>4. \A a, b, k, l \in Nat : a + 2 + b <= l /\ k \in 1 .. b => a + 1 + k \in Nat /\ a + 1 + k <= l
        OBVIOUS
      <4>5. Len(dataFile) \in Nat /\ i \in Nat
        BY <1>1
      <4> QED
        BY <4>2, <4>3, <4>4, <4>5
    <3>3. d2 = WriteAt(dataFile, at, <<>>)
      BY <2>5, <2>8, <3>1
    <3> HIDE DEF at
    <3>4. WriteAt(dataFile, at, <<>>) = dataFile
      BY <1>1, <3>2 DEF WriteAt
    <3> QED
      BY <1>1, <2>1, <3>3, <3>4
  <2>6. CASE n = 1
    <3> DEFINE cells == <<Byte(x)>>
    <3>4. cells \in Seq(Cell) /\ Len(cells) = 1
      BY DEF Cell, Byte
    <3> HIDE DEF cells
    <3>1. SubSeq(cells, 1, 1) = cells
      BY <3>4, AllOf
    <3>2. d2 = WriteAt(dataFile, at, <<Byte(x)>>)
      BY <2>6, <2>8, <3>1 DEF cells
    <3>3. WriteAt(dataFile, at, <<Byte(x)>>) \in Seq(Cell)
          /\ Whole(o, WriteAt(dataFile, at, <<Byte(x)>>), [c EXCEPT ![h][i] = x])
      BY <1>1, <2>1, ByteWritten
    <3> QED
      BY <2>2, <3>2, <3>3
  <2> QED
    BY <2>4, <2>5, <2>6
<1>5. ~Removing(c)
  <2> DEFINE end == End(o, c, Len(c))
             heights == Len(c) + 1
             writes == RemoveWrites(end, heights)
  <2> HIDE DEF end, heights
  <2>1. /\ Head(writes) = [file |-> "dataEnd", at |-> end, cells |-> <<>>]
        /\ Head(Tail(writes)) = [file |-> "offsetEnd", at |-> heights, cells |-> <<>>]
        /\ Head(<<writes[3]>>) = [file |-> "removed", at |-> 0, cells |-> <<>>]
    BY RemoveLists
  <2> DEFINE first == Head(writes)
             second == Head(Tail(writes))
             third == Head(<<writes[3]>>)
  <2> HIDE DEF first, second, third
  <2>4. /\ first = [file |-> "dataEnd", at |-> end, cells |-> <<>>]
        /\ second = [file |-> "offsetEnd", at |-> heights, cells |-> <<>>]
        /\ third = [file |-> "removed", at |-> 0, cells |-> <<>>]
    BY <2>1 DEF first, second, third
  <2>2. first.file = "dataEnd" /\ second.file = "offsetEnd" /\ third.file = "removed"
    BY <2>4
  <2> HIDE DEF writes
  <2>3. Removing(c) => todo = writes \/ todo = Tail(writes) \/ todo = <<writes[3]>>
    BY DEF Removing, end, heights, writes
  <2> QED
    BY <2>2, <2>3 DEF first, second, third
<1> QED
  BY <1>2, <1>3, <1>4, <1>5 DEF Phase

-----------------------------------------------------------------------------
(* Errors, kills and startup.                                              *)

LEMMA WriteStep ==
    ASSUME FileInv, Payloads \subseteq Seq(Nat), Write
    PROVE  FileInv'
<1>1. PICK c \in allowed : Phase(c)
  BY DEF FileInv
<1>2. (\E payload \in Payloads : Storing(c, payload)) \/ Overwriting(c) \/ Removing(c)
  BY <1>1 DEF Phase, Write
<1> QED
  BY <1>2, StoreWriteStep, OverWriteWriteStep, RemoveWriteStep

LEMMA WriteFailsStep ==
    ASSUME FileInv, Payloads \subseteq Seq(Nat), CallersGoOn = FALSE, WriteFails
    PROVE  FileInv'
<1> DEFINE o == offsetFile.entries
<1>1. PICK n \in 0 .. Len(Head(todo).cells) : Wrote(Head(todo), n)
  BY DEF WriteFails
<1>2. /\ dataFile' = WriteAt(dataFile, Head(todo).at, SubSeq(Head(todo).cells, 1, n))
      /\ offsetFile' = offsetFile
  BY <1>1 DEF WriteFails, Wrote
<1>3. PICK c \in allowed : Whole(o, dataFile', c) \/ Partly(o, dataFile', c)
  BY <1>2, Cut DEF WriteFails
<1>4. dataFile' \in Seq(Cell)
  BY <1>2, Cut DEF WriteFails
<1>5. /\ state' = [state EXCEPT !.mode = "abandoned"] /\ todo' = <<>> /\ allowed' = allowed
      /\ state.mode = "up"
  BY DEF WriteFails
<1>6. /\ state'.mode = "abandoned"
      /\ state' \in [mode : {"down", "abandoned", "recover", "up"}, currentHeight : Int,
                    currentOffset : Nat, offsets : Seq(Nat)]
  BY <1>5 DEF FileInv
<1>7. Phase(c)'
  BY <1>2, <1>3, <1>5, <1>6 DEF Phase
<1> QED
  BY <1>2, <1>4, <1>5, <1>6, <1>7 DEF FileInv

LEMMA KillStep ==
    ASSUME FileInv, Payloads \subseteq Seq(Nat), Kill
    PROVE  FileInv'
<1>1. /\ state' = Down /\ todo' = <<>> /\ allowed' = allowed /\ state.mode # "down"
      /\ offsetFile \in [entries : Seq(Nat), torn : BOOLEAN] /\ dataFile \in Seq(Cell)
  BY DEF Kill, FileInv
<1>2. /\ state'.mode = "down"
      /\ state' \in [mode : {"down", "abandoned", "recover", "up"}, currentHeight : Int,
                    currentOffset : Nat, offsets : Seq(Nat)]
  BY <1>1 DEF Down
<1>3. ASSUME offsetFile'.entries = offsetFile.entries,
             offsetFile' \in [entries : Seq(Nat), torn : BOOLEAN], dataFile' \in Seq(Cell),
             \E c \in allowed : \/ Whole(offsetFile.entries, dataFile', c)
                                \/ Partly(offsetFile.entries, dataFile', c)
      PROVE  FileInv'
  <2>1. PICK c \in allowed : \/ Whole(offsetFile.entries, dataFile', c)
                             \/ Partly(offsetFile.entries, dataFile', c)
    BY <1>3
  <2>2. Phase(c)'
    BY <1>1, <1>2, <1>3, <2>1 DEF Phase
  <2> QED
    BY <1>1, <1>2, <1>3, <2>2 DEF FileInv
<1>4. CASE UNCHANGED <<offsetFile, dataFile>>
  BY <1>1, <1>3, <1>4, Standing
<1>5. ASSUME todo # <<>>, Head(todo).file = "data",
             NEW n \in 1 .. Len(Head(todo).cells) - 1, Wrote(Head(todo), n)
      PROVE  FileInv'
  <2>1. /\ dataFile' = WriteAt(dataFile, Head(todo).at, SubSeq(Head(todo).cells, 1, n))
        /\ offsetFile' = offsetFile
    BY <1>5 DEF Wrote
  <2>2. state.mode = "up"
    BY <1>1, <1>5 DEF FileInv, Phase
  <2>3. n \in 0 .. Len(Head(todo).cells)
    OBVIOUS
  <2>4. /\ dataFile' \in Seq(Cell)
        /\ \E c \in allowed : \/ Whole(offsetFile.entries, dataFile', c)
                              \/ Partly(offsetFile.entries, dataFile', c)
    BY <1>5, <2>1, <2>2, <2>3, Cut
  <2> QED
    BY <1>1, <1>3, <2>1, <2>4
<1>6. CASE offsetFile' = [offsetFile EXCEPT !.torn = TRUE] /\ UNCHANGED dataFile
  <2>1. /\ offsetFile'.entries = offsetFile.entries
        /\ offsetFile' \in [entries : Seq(Nat), torn : BOOLEAN]
    BY <1>1, <1>6
  <2> QED
    BY <1>1, <1>3, <1>6, <2>1, Standing
<1> QED
  BY <1>4, <1>5, <1>6 DEF Kill

LEMMA OpenStep ==
    ASSUME FileInv, Open
    PROVE  FileInv'
<1> DEFINE o == offsetFile.entries
           States == [mode : {"down", "abandoned", "recover", "up"}, currentHeight : Int,
                      currentOffset : Nat, offsets : Seq(Nat)]
<1>1. PICK c \in allowed : Phase(c)
  BY DEF FileInv
<1>2. /\ o \in Seq(Nat) /\ dataFile \in Seq(Cell) /\ state.mode = "down"
      /\ offsetFile \in [entries : Seq(Nat), torn : BOOLEAN]
      /\ dataFile' = dataFile /\ allowed' = allowed /\ todo' = todo
  BY DEF FileInv, Open
<1>3. todo = <<>>
  BY <1>1, <1>2 DEF Phase
<1>4. CASE o = <<>> /\ ~offsetFile.torn
  <2>1. dataFile = <<>> /\ c = <<>>
    <3>1. ~Whole(o, dataFile, c) /\ ~Partly(o, dataFile, c)
      BY <1>2, <1>4, EndFacts DEF Whole, Partly, Laid
    <3> QED
      BY <1>1, <1>2, <3>1 DEF Phase
  <2>2. /\ offsetFile' = [entries |-> <<0>>, torn |-> FALSE]
        /\ state' = [mode |-> "up", currentHeight |-> 0, currentOffset |-> 0, offsets |-> <<0>>]
    BY <1>4 DEF Open
  <2>3. Whole(<<0>>, <<>>, <<>>)
    BY DEF Whole, Laid, End
  <2>4. InMemory(c)'
    BY <1>2, <2>1, <2>2 DEF InMemory
  <2>5. Phase(c)'
    BY <1>2, <1>3, <2>1, <2>2, <2>3, <2>4 DEF Phase
  <2>6. /\ offsetFile' \in [entries : Seq(Nat), torn : BOOLEAN] /\ ~offsetFile'.torn
        /\ dataFile' \in Seq(Cell) /\ state' \in States
    <3>1. <<0>> \in Seq(Nat)
      OBVIOUS
    <3> QED
      BY <1>2, <2>2, <3>1
  <2> QED
    BY <1>2, <2>5, <2>6 DEF FileInv
<1>5. CASE ~(o = <<>> /\ ~offsetFile.torn)
  <2> DEFINE readable == Len(o) - 1 <= 0 \/ EntryAt(dataFile, o[Len(o)]) # ReadFailed
  <2>1. /\ offsetFile' = [offsetFile EXCEPT !.torn = FALSE]
        /\ state' = [mode |-> IF readable THEN "up" ELSE "recover",
                     currentHeight |-> Len(o) - 1, currentOffset |-> Len(dataFile), offsets |-> o]
    BY <1>5 DEF Open, recoverOffsetFile
  <2>2. offsetFile'.entries = o /\ offsetFile' \in [entries : Seq(Nat), torn : BOOLEAN] /\ ~offsetFile'.torn
    BY <1>2, <2>1
  <2>4. state' \in States
    BY <1>2, <2>1
  <2>5. CASE Whole(o, dataFile, c)
    <3>1. Laid(o, dataFile, c) /\ Len(o) = Len(c) + 1 /\ c \in Seq(Seq(Nat)) /\ Len(c) \in Nat
      BY <1>2, <2>5, EndFacts DEF Whole
    <3>2. readable
      <4> SUFFICES ASSUME Len(c) > 0 PROVE EntryAt(dataFile, o[Len(o)]) # ReadFailed
        BY <3>1
      <4>1. Len(c) \in 1 .. Len(c)
        BY <3>1
      <4>2. Holds(dataFile, o[Len(c) + 1], c[Len(c)]) /\ o[Len(c) + 1] \in Nat /\ c[Len(c)] \in Seq(Nat)
        BY <1>2, <3>1, <4>1, EndFacts DEF Laid
      <4> QED
        BY <1>2, <3>1, <4>2, HoldsRead
    <3>3. InMemory(c)'
      BY <1>2, <2>1, <2>2, <3>1 DEF InMemory
    <3>4. Phase(c)'
      BY <1>2, <1>3, <2>1, <2>2, <2>5, <3>2, <3>3 DEF Phase
    <3> QED
      BY <1>2, <2>2, <2>4, <3>4 DEF FileInv
  <2>6. CASE Partly(o, dataFile, c)
    <3>1. Len(o) = Len(c) + 2 /\ Len(c) \in Nat /\ EntryAt(dataFile, o[Len(o)]) = ReadFailed
      BY <1>2, <2>6, EndFacts DEF Partly
    <3>2. ~readable
      BY <3>1
    <3>3. state'.mode = "recover" /\ state'.offsets = o /\ state'.currentHeight = Len(o) - 1
      BY <2>1, <3>2
    <3>4. Phase(c)'
      BY <1>2, <1>3, <2>2, <2>6, <3>3 DEF Phase
    <3> QED
      BY <1>2, <2>2, <2>4, <3>4 DEF FileInv
  <2> QED
    BY <1>1, <1>2, <1>5, <2>5, <2>6 DEF Phase
<1> QED
  BY <1>4, <1>5

LEMMA RecoverStep ==
    ASSUME FileInv, Recover
    PROVE  FileInv'
<1> DEFINE o == offsetFile.entries
           States == [mode : {"down", "abandoned", "recover", "up"}, currentHeight : Int,
                      currentOffset : Nat, offsets : Seq(Nat)]
           h == state.currentHeight
           offset == Offset(state, h)
<1>1. PICK c \in allowed : Phase(c)
  BY DEF FileInv
<1>2. /\ o \in Seq(Nat) /\ dataFile \in Seq(Cell) /\ state \in States /\ state.mode = "recover"
      /\ offsetFile \in [entries : Seq(Nat), torn : BOOLEAN] /\ ~offsetFile.torn
      /\ allowed' = allowed /\ todo' = todo
  BY DEF FileInv, Recover
<1>3. /\ todo = <<>> /\ state.offsets = o /\ h = Len(o) - 1
      /\ Partly(o, dataFile, c) \/ (Whole(o, dataFile, c) /\ InMemory(c))
  BY <1>1, <1>2 DEF Phase
<1>4. Laid(o, dataFile, c) /\ Len(c) \in Nat
  BY <1>2, <1>3, EndFacts DEF Whole, Partly
<1>5. CASE Whole(o, dataFile, c) /\ InMemory(c)
  <2>1. h = Len(c)
    BY <1>5 DEF InMemory
  <2>2. h <= 0 \/ EntryAt(dataFile, offset) # ReadFailed
    <3> SUFFICES ASSUME h > 0 PROVE EntryAt(dataFile, offset) # ReadFailed
      BY <1>4, <2>1
    <3>1. h \in 1 .. Len(c)
      BY <1>4, <2>1
    <3>2. Holds(dataFile, o[h + 1], c[h]) /\ o[h + 1] \in Nat /\ c[h] \in Seq(Nat)
      BY <1>2, <1>4, <3>1, EndFacts DEF Laid
    <3> QED
      BY <1>2, <1>3, <3>2, HoldsRead DEF Offset
  <2>3. state' = [state EXCEPT !.mode = "up"] /\ offsetFile' = offsetFile /\ dataFile' = dataFile
    BY <2>2 DEF Recover
  <2>4. InMemory(c)' /\ state'.mode = "up" /\ state' \in States
    BY <1>2, <1>5, <2>3 DEF InMemory
  <2>5. Phase(c)'
    BY <1>2, <1>3, <1>5, <2>3, <2>4 DEF Phase
  <2> QED
    BY <1>2, <2>3, <2>4, <2>5 DEF FileInv
<1>6. CASE Partly(o, dataFile, c)
  <2> DEFINE end == End(o, c, Len(c))
             d2 == DropEntry(dataFile, end)
             o2 == DropLast(o)
  <2>1. /\ Len(o) = Len(c) + 2 /\ o[Len(o)] = end /\ Len(dataFile) >= end
        /\ EntryAt(dataFile, end) = ReadFailed /\ end \in Nat
    BY <1>2, <1>4, <1>6, EndFacts DEF Partly
  <2>13. /\ Len(c) \in Nat /\ Len(o) \in Nat /\ Len(dataFile) \in Nat
         /\ Len(o) = Len(c) + 2 /\ h = Len(o) - 1
    BY <1>2, <1>3, <1>4, <2>1
  <2>14. end \in Nat /\ end <= Len(dataFile)
    BY <2>1, <2>13
  <2> HIDE DEF end
  <2>2. offset = end /\ h = Len(c) + 1 /\ ~(h <= 0)
    <3>1. h = Len(c) + 1 /\ h + 1 = Len(o) /\ ~(h <= 0)
      BY <2>13
    <3>2. offset = o[h + 1]
      BY <1>3 DEF Offset
    <3> QED
      BY <2>1, <3>1, <3>2
  <2>3. /\ dataFile' = d2 /\ offsetFile' = [offsetFile EXCEPT !.entries = o2]
        /\ state' = [state EXCEPT !.currentOffset = state.offsets[Len(state.offsets)], !.offsets = DropLast(@),
                                  !.currentHeight = @ - 1]
    BY <2>1, <2>2 DEF Recover
  <2>4. d2 \in Seq(Cell) /\ Len(d2) = end /\ \A i \in 1 .. end : d2[i] = dataFile[i]
    <3>1. CASE end < Len(dataFile)
      <4>1. end \in 0 .. Len(dataFile)
        BY <2>13, <2>14
      <4>2. d2 = Truncate(dataFile, end)
        BY <3>1 DEF DropEntry
      <4>3. LET t == Truncate(dataFile, end) IN
            t \in Seq(Cell) /\ Len(t) = end /\ \A i \in 1 .. end : t[i] = dataFile[i]
        BY <1>2, <4>1 DEF Truncate
      <4> QED
        BY <4>2, <4>3
    <3>2. CASE end = Len(dataFile)
      BY <1>2, <2>1, <3>2 DEF DropEntry
    <3> QED
      BY <2>13, <2>14, <3>1, <3>2
  <2>5. o2 \in Seq(Nat) /\ Len(o2) = Len(c) + 1 /\ \A k \in 1 .. Len(c) + 1 : o2[k] = o[k]
    <3> DEFINE m == Len(c) + 1
    <3>1. Len(o) - 1 = m /\ m \in 0 .. Len(o) /\ m \in Nat
      BY <2>13
    <3> HIDE DEF m
    <3>2. o2 = SubSeq(o, 1, m)
      BY <3>1 DEF DropLast, Truncate
    <3>3. LET t == SubSeq(o, 1, m) IN
          t \in Seq(Nat) /\ Len(t) = m /\ \A k \in 1 .. m : t[k] = o[k]
      BY <1>2, <3>1
    <3> QED
      BY <3>2, <3>3 DEF m
  <2>6. state.offsets[Len(state.offsets)] = end
    BY <1>3, <2>1
  <2> HIDE DEF d2, o2
  <2>7. Laid(o2, d2, c) /\ End(o2, c, Len(c)) = end
    <3>1. /\ Len(o2) >= Len(c) + 1 /\ Len(d2) >= End(o, c, Len(c))
          /\ \A i \in 1 .. End(o, c, Len(c)) : d2[i] = dataFile[i]
      BY <2>4, <2>5, <2>13, <2>14 DEF end
    <3>2. Len(c) \in Nat /\ End(o, c, Len(c)) \in Nat /\ Len(d2) \in Nat /\ Len(o2) \in Nat
      BY <2>4, <2>5, <2>13, <2>14 DEF end
    <3>3. o2 \in Seq(Nat) /\ d2 \in Seq(Cell) /\ \A k \in 1 .. Len(c) + 1 : o2[k] = o[k]
      BY <2>4, <2>5
    <3>4. o \in Seq(Nat) /\ dataFile \in Seq(Cell) /\ Len(o) >= Len(c) + 1
      BY <1>2, <1>4, <2>1
    <3>5. Laid(o, d2, c)
      BY <1>4, <3>1, <3>2, <3>3, <3>4, LaidKept
    <3> QED
      BY <3>1, <3>2, <3>3, <3>4, <3>5, OffsetsKept DEF end
  <2>8. Whole(o2, d2, c)
    BY <2>4, <2>5, <2>7 DEF Whole
  <2>9. /\ offsetFile'.entries = o2 /\ ~offsetFile'.torn
        /\ offsetFile' \in [entries : Seq(Nat), torn : BOOLEAN]
    BY <1>2, <2>3, <2>5
  <2>10. /\ state'.offsets = o2 /\ state'.currentHeight = Len(c) /\ state'.currentOffset = end
         /\ state'.mode = "recover" /\ state' \in States
    <3>1. state'.offsets = DropLast(state.offsets) /\ state'.currentHeight = h - 1
          /\ state'.currentOffset = state.offsets[Len(state.offsets)] /\ state'.mode = "recover"
      BY <1>2, <2>3
    <3>2. DropLast(state.offsets) = o2
      BY <1>3 DEF o2
    <3>3. h - 1 = Len(c) /\ h - 1 \in Int
      BY <1>4, <2>2
    <3>4. DropLast(state.offsets) \in Seq(Nat) /\ state.offsets[Len(state.offsets)] \in Nat
      BY <2>1, <2>5, <2>6, <3>2
    <3>5. state' \in States
      BY <1>2, <2>3, <3>3, <3>4
    <3> QED
      BY <2>6, <3>1, <3>2, <3>3, <3>5
  <2>11. InMemory(c)'
    BY <2>3, <2>4, <2>9, <2>10 DEF InMemory
  <2>12. Phase(c)'
    BY <1>2, <1>3, <1>4, <2>3, <2>5, <2>8, <2>9, <2>10, <2>11 DEF Phase
  <2> QED
    BY <1>2, <2>3, <2>4, <2>9, <2>10, <2>12 DEF FileInv
<1> QED
  BY <1>3, <1>5, <1>6

-----------------------------------------------------------------------------
\* The files satisfy the inductive invariant, however calls, kills, failing
\* writes and repairs follow each other.
THEOREM FileInductive ==
    ASSUME Payloads \subseteq Seq(Nat), CallersGoOn = FALSE
    PROVE  FileSpec => []FileInv
<1>1. FileInit => FileInv
  <2> SUFFICES ASSUME FileInit PROVE FileInv
    OBVIOUS
  <2>1. Phase(<<>>)
    BY DEF FileInit, Phase, Down
  <2> QED
    BY <2>1 DEF FileInit, FileInv, Down
<1>2. FileInv /\ [FileNext]_fileVars => FileInv'
  <2> SUFFICES ASSUME FileInv, [FileNext]_fileVars PROVE FileInv'
    OBVIOUS
  <2>1. ASSUME NEW payload \in Payloads, StoreData(payload) PROVE FileInv'
    BY <2>1, StoreDataStep
  <2>2. ASSUME NEW height \in 1 .. MaxHeight, NEW i \in 1 .. 2, OverWrite(height, i, 9) PROVE FileInv'
    <3>1. height \in Nat /\ i \in Nat /\ 9 \in Nat
      BY <2>2 DEF OverWrite, FileInv
    <3> QED
      BY <2>2, <3>1, OverWriteStep
  <2>3. CASE UNCHANGED fileVars
    <3>1. PICK c \in allowed : Phase(c)
      BY DEF FileInv
    <3>2. Phase(c)'
      <4>1. /\ offsetFile' = offsetFile /\ dataFile' = dataFile /\ state' = state
            /\ todo' = todo /\ allowed' = allowed
        BY <2>3 DEF fileVars
      <4>2. InMemory(c)' <=> InMemory(c)
        BY <4>1 DEF InMemory
      <4>3. ASSUME NEW payload \in Payloads
            PROVE  Storing(c, payload)' <=> Storing(c, payload)
        BY <4>1 DEF Storing
      <4>4. Overwriting(c)' <=> Overwriting(c)
        BY <4>1, <4>2 DEF Overwriting
      <4>5. Removing(c)' <=> Removing(c)
        BY <4>1 DEF Removing
      <4> QED
        BY <3>1, <4>1, <4>2, <4>3, <4>4, <4>5 DEF Phase
    <3> QED
      BY <2>3, <3>2 DEF fileVars, FileInv
  <2> QED
    BY <2>1, <2>2, <2>3, DisconnectBlockStep, WriteStep, WriteFailsStep, KillStep, OpenStep, RecoverStep
    DEF FileNext
<1> QED
  BY <1>1, <1>2, PTL DEF FileSpec

\* Between calls a reader finds every entry whose call returned, at its height
\* and as it was last written, for every sequence of calls, kills and errors.
THEOREM EntriesAreKept ==
    ASSUME Payloads \subseteq Seq(Nat), CallersGoOn = FALSE
    PROVE  FileSpec => []EntriesKept
<1>1. FileInv => EntriesKept
  <2> SUFFICES ASSUME FileInv, Idle PROVE Contents \in allowed
    BY DEF EntriesKept
  <2>1. PICK c \in allowed : Whole(offsetFile.entries, dataFile, c) /\ InMemory(c)
    BY IdleWhole
  <2> QED
    BY <2>1, WholeContents DEF FileInv
<1> QED
  BY <1>1, FileInductive, PTL

=============================================================================
