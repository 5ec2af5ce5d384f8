----------------------------- MODULE LogsProofs ------------------------------
(***************************************************************************)
(* Theorems about Logs, for slices and logs of any length.                 *)
(***************************************************************************)
EXTENDS Logs, SequenceTheorems, TLAPS

-----------------------------------------------------------------------------
(* Lines. *)

LEMMA Halves ==
  ASSUME NEW n \in Nat
  PROVE  n \div 2 \in Nat /\ (n = 2 * (n \div 2) \/ n = 2 * (n \div 2) + 1)
  OBVIOUS

LEMMA Extremes ==
  ASSUME NEW a \in Nat, NEW b \in Nat
  PROVE  /\ Least(a, b) \in Nat /\ Least(a, b) <= a /\ Least(a, b) <= b
         /\ Most(a, b) \in Nat /\ Most(a, b) >= a /\ Most(a, b) >= b
         /\ a <= b => Least(a, b) = a /\ Most(a, b) = b
         /\ b <= a => Least(a, b) = b /\ Most(a, b) = a
  BY DEF Least, Most

\* The lines between two positions of the log: each one goes from where the one
\* before ended to the next even position, or to the end.
LEMMA LinesAre ==
  ASSUME NEW o \in Nat, NEW s \in Nat, o <= s
  PROVE  LET q == Lines(o, s)
             first == o \div 2
             count == IF o < s THEN (s + 1) \div 2 - first ELSE 0
         IN  /\ count \in Nat
             /\ q \in Seq((0 .. s) \X (0 .. s))
             /\ Len(q) = count
             /\ \A i \in 1 .. count :
                  /\ q[i][1] = Most(o, 2 * (first + i - 1))
                  /\ q[i][2] = Least(s, 2 * (first + i))
                  /\ q[i][1] < q[i][2]
<1> DEFINE q == Lines(o, s)
           first == o \div 2
           last == (s + 1) \div 2
           count == IF o < s THEN last - first ELSE 0
           line(i) == <<Most(o, 2 * (first + i - 1)), Least(s, 2 * (first + i))>>
<1>1. /\ first \in Nat /\ (o = 2 * first \/ o = 2 * first + 1)
      /\ last \in Nat /\ (s + 1 = 2 * last \/ s + 1 = 2 * last + 1)
  BY Halves
<1>2. count \in Nat
  BY <1>1
<1>3. ASSUME NEW i \in 1 .. count
      PROVE  /\ line(i) \in (0 .. s) \X (0 .. s)
             /\ line(i)[1] < line(i)[2]
  <2>1. o < s /\ i \in Nat /\ i >= 1 /\ i <= last - first
    BY <1>1, <1>3
  <2>2. 2 * (first + i - 1) \in Nat /\ 2 * (first + i - 1) < s /\ 2 * (first + i) > o
    BY <1>1, <2>1
  <2> HIDE DEF first, last, count
  <2>3. /\ Most(o, 2 * (first + i - 1)) \in 0 .. s
        /\ Least(s, 2 * (first + i)) \in 0 .. s
        /\ Most(o, 2 * (first + i - 1)) < Least(s, 2 * (first + i))
    BY <1>1, <2>1, <2>2 DEF Most, Least
  <2> QED
    BY <2>3
<1>4. q = [i \in 1 .. count |-> line(i)]
  BY DEF Lines
<1> HIDE DEF q, first, last, count, line
<1>5. q \in Seq((0 .. s) \X (0 .. s)) /\ Len(q) = count
  BY <1>2, <1>3, <1>4
<1>6. ASSUME NEW i \in 1 .. count
      PROVE  /\ q[i][1] = Most(o, 2 * (first + i - 1))
             /\ q[i][2] = Least(s, 2 * (first + i))
             /\ q[i][1] < q[i][2]
  <2>1. q[i] = line(i)
    BY <1>4
  <2>2. line(i)[1] = Most(o, 2 * (first + i - 1)) /\ line(i)[2] = Least(s, 2 * (first + i))
    BY DEF line
  <2> QED
    BY <1>3, <2>1, <2>2
<1> USE DEF q, first, last, count, line
<1> QED
  BY <1>2, <1>5, <1>6

LEMMA LinesCover ==
  ASSUME NEW o \in Nat, NEW s \in Nat, o <= s, NEW lost
  PROVE  Covers(Lines(o, s), o, s, lost)
<1> DEFINE q == Lines(o, s)
           first == o \div 2
           last == (s + 1) \div 2
           count == IF o < s THEN last - first ELSE 0
<1>1. /\ first \in Nat /\ (o = 2 * first \/ o = 2 * first + 1)
      /\ last \in Nat /\ (s + 1 = 2 * last \/ s + 1 = 2 * last + 1)
  BY Halves
<1>2. /\ count \in Nat
      /\ q \in Seq((0 .. s) \X (0 .. s))
      /\ Len(q) = count
      /\ \A i \in 1 .. count : /\ q[i][1] = Most(o, 2 * (first + i - 1))
                               /\ q[i][2] = Least(s, 2 * (first + i))
  BY LinesAre
<1> HIDE DEF q
<1>3. q = <<>> => o = s
  <2>1. q = <<>> => count = 0
    BY <1>2
  <2> QED
    BY <1>1, <2>1
<1>4. q # <<>> => q[1][1] = o /\ q[Len(q)][2] = s
  <2> SUFFICES ASSUME q # <<>> PROVE q[1][1] = o /\ q[Len(q)][2] = s
    OBVIOUS
  <2>1. Len(q) # 0
    BY <1>2, EmptySeq
  <2>2. o < s /\ count = last - first /\ count >= 1
    BY <1>2, <2>1
  <2>3. q[1][1] = Most(o, 2 * (first + 1 - 1)) /\ q[count][2] = Least(s, 2 * (first + count))
    BY <1>2, <2>2
  <2>4. 2 * (first + 1 - 1) <= o /\ 2 * (first + count) >= s
    BY <1>1, <2>2
  <2> QED
    BY <1>1, <1>2, <2>2, <2>3, <2>4 DEF Most, Least
<1>5. ASSUME NEW i \in 1 .. Len(q) - 1
      PROVE  q[i][2] = q[i + 1][1]
  <2>1. o < s /\ count = last - first /\ i \in Nat /\ i >= 1 /\ i + 1 <= last - first
    BY <1>1, <1>2, <1>5
  <2>2. i \in 1 .. count /\ i + 1 \in 1 .. count
    BY <1>1, <2>1
  <2>3. /\ q[i][2] = Least(s, 2 * (first + i))
        /\ q[i + 1][1] = Most(o, 2 * (first + (i + 1) - 1))
    BY <1>2, <2>2
  <2>4. 2 * (first + i) <= s /\ 2 * (first + i) >= o /\ first + (i + 1) - 1 = first + i
    BY <1>1, <2>1
  <2> QED
    BY <1>1, <2>1, <2>3, <2>4 DEF Most, Least
<1> QED
  BY <1>3, <1>4, <1>5 DEF Covers, Meets, q

-----------------------------------------------------------------------------
(* Sequences of lines. *)

Shown(q) == q \in Seq(Intervals) /\ AreLines(q)

LEMMA IntervalsAre == MaxSize \in Nat /\ Intervals = (0 .. MaxSize) \X (0 .. MaxSize)
  BY LogsAssumptions DEF Intervals, Positions

LEMMA NothingShown == Shown(<<>>)
  BY EmptySeq DEF Shown, AreLines

LEMMA LinesShown ==
  ASSUME NEW o \in Positions, NEW s \in Positions, o <= s
  PROVE  Shown(Lines(o, s))
<1>1. o \in Nat /\ s \in Nat /\ (0 .. s) \X (0 .. s) \subseteq Intervals
  BY IntervalsAre DEF Positions
<1>2. Lines(o, s) \in Seq(Intervals)
  <2>1. Lines(o, s) \in Seq((0 .. s) \X (0 .. s))
    BY <1>1, LinesAre
  <2> QED
    BY <1>1, <2>1, SeqMonotonic
<1>3. AreLines(Lines(o, s))
  <2>1. \A j \in 1 .. Len(Lines(o, s)) : Lines(o, s)[j][1] < Lines(o, s)[j][2]
    BY <1>1, LinesAre
  <2>2. DOMAIN Lines(o, s) = 1 .. Len(Lines(o, s))
    BY <1>2
  <2> QED
    BY <2>1, <2>2 DEF AreLines
<1> QED
  BY <1>2, <1>3 DEF Shown

LEMMA JoinShown ==
  ASSUME NEW p, NEW q, Shown(p), Shown(q)
  PROVE  Shown(p \o q)
<1>1. p \in Seq(Intervals) /\ q \in Seq(Intervals)
  BY DEF Shown
<1>2. ASSUME NEW i \in DOMAIN (p \o q)
      PROVE  (p \o q)[i][1] < (p \o q)[i][2]
  <2>1. i \in 1 .. Len(p) + Len(q) /\ Len(p) \in Nat /\ Len(q) \in Nat
    BY <1>1, <1>2, ConcatProperties
  <2>2. CASE i <= Len(p)
    <3>1. (p \o q)[i] = p[i] /\ i \in DOMAIN p
      BY <1>1, <2>1, <2>2, ConcatProperties
    <3> QED
      BY <3>1 DEF Shown, AreLines
  <2>3. CASE i > Len(p)
    <3>1. (p \o q)[i] = q[i - Len(p)] /\ i - Len(p) \in DOMAIN q
      BY <1>1, <2>1, <2>3, ConcatProperties
    <3> QED
      BY <3>1 DEF Shown, AreLines
  <2> QED
    BY <2>1, <2>2, <2>3
<1> QED
  BY <1>1, <1>2, ConcatProperties DEF Shown, AreLines

LEMMA PartShown ==
  ASSUME NEW q, Shown(q), NEW m \in Nat \ {0}, NEW n \in 0 .. Len(q)
  PROVE  /\ Shown(SubSeq(q, m, n))
         /\ Len(SubSeq(q, m, n)) = IF m <= n THEN n - m + 1 ELSE 0
         /\ \A i \in 1 .. n - m + 1 : SubSeq(q, m, n)[i] = q[m + i - 1]
<1>1. q \in Seq(Intervals) /\ Len(q) \in Nat /\ DOMAIN q = 1 .. Len(q)
  BY DEF Shown
<1>2. \A i \in m .. n : q[i] \in Intervals
  BY <1>1, ElementOfSeq
<1>3. /\ SubSeq(q, m, n) \in Seq(Intervals)
      /\ Len(SubSeq(q, m, n)) = IF m <= n THEN n - m + 1 ELSE 0
      /\ \A i \in 1 .. n - m + 1 : SubSeq(q, m, n)[i] = q[m + i - 1]
  BY <1>1, <1>2, SubSeqProperties
<1>4. ASSUME NEW i \in DOMAIN SubSeq(q, m, n)
      PROVE  SubSeq(q, m, n)[i][1] < SubSeq(q, m, n)[i][2]
  <2>1. i \in 1 .. n - m + 1
    BY <1>1, <1>3, <1>4
  <2>2. SubSeq(q, m, n)[i] = q[m + i - 1] /\ m + i - 1 \in DOMAIN q
    BY <1>1, <1>3, <2>1
  <2> QED
    BY <2>2 DEF Shown, AreLines
<1> QED
  BY <1>3, <1>4 DEF Shown, AreLines

LEMMA OneShown ==
  ASSUME NEW a \in Positions, NEW b \in Positions, a < b
  PROVE  Shown(<< <<a, b>> >>) /\ \A lost : Covers(<< <<a, b>> >>, a, b, lost)
<1>1. <<a, b>> \in Intervals
  BY DEF Intervals
<1> DEFINE x == <<a, b>>
           q == <<x>>
<1>2. x[1] = a /\ x[2] = b /\ x \in Intervals
  BY <1>1
<1> HIDE DEF x
<1>3. q \in Seq(Intervals) /\ Len(q) = 1 /\ q[1] = x /\ q # <<>>
  BY <1>2
<1> HIDE DEF q
<1>4. Shown(q)
  BY <1>2, <1>3 DEF Shown, AreLines
<1>5. \A lost : Covers(q, a, b, lost)
  BY <1>2, <1>3 DEF Covers, Meets
<1> QED
  BY <1>4, <1>5 DEF q, x

\* No two texts are lost one after the other: there is a newline between them.
LEMMA MeetsTwice ==
  ASSUME NEW lost \in SUBSET Nat, NEW a, NEW b, NEW c, Meets(a, b, lost), Meets(b, c, lost)
  PROVE  Meets(a, c, lost)
<1>1. CASE b = a \/ c = b
  BY <1>1 DEF Meets
<1>2. CASE b # a /\ c # b
  <2>1. PICK m \in Nat : b = 2 * m + 1
    BY <1>2 DEF Meets
  <2>2. PICK n \in Nat : b = 2 * n
    BY <1>2 DEF Meets
  <2> QED
    BY <2>1, <2>2
<1> QED
  BY <1>1, <1>2

LEMMA MeetsItself ==
  ASSUME NEW a, NEW lost
  PROVE  Meets(a, a, lost)
  BY DEF Meets

\* More may be lost when there are more long lines.
LEMMA CoversMore ==
  ASSUME NEW q, NEW o, NEW s, NEW lost, NEW more, lost \subseteq more, Covers(q, o, s, lost)
  PROVE  Covers(q, o, s, more)
<1>1. \A a, b : Meets(a, b, lost) => Meets(a, b, more)
  BY DEF Meets
<1> QED
  BY <1>1 DEF Covers

\* What covers the log up to b, and then what covers it from b on.
LEMMA JoinCovers ==
  ASSUME NEW p, NEW q, Shown(p), Shown(q), NEW lost \in SUBSET Nat,
         NEW a, NEW b, NEW c, Covers(p, a, b, lost), Covers(q, b, c, lost)
  PROVE  Covers(p \o q, a, c, lost)
<1>0. \A x, y, z : Meets(x, y, lost) /\ Meets(y, z, lost) => Meets(x, z, lost)
  BY MeetsTwice
<1>1. p \in Seq(Intervals) /\ q \in Seq(Intervals)
  BY DEF Shown
<1>2. CASE p = <<>>
  <2>1. p \o q = q
    BY <1>1, <1>2, ConcatEmptySeq
  <2> QED
    BY <1>0, <1>2, <2>1 DEF Covers
<1>3. CASE q = <<>>
  <2>1. p \o q = p
    BY <1>1, <1>3, ConcatEmptySeq
  <2> QED
    BY <1>0, <1>3, <2>1 DEF Covers
<1>4. CASE p # <<>> /\ q # <<>>
  <2>1. Len(p) \in Nat \ {0} /\ Len(q) \in Nat \ {0}
    BY <1>1, <1>4, EmptySeq
  <2>2. /\ Len(p \o q) = Len(p) + Len(q)
        /\ \A i \in 1 .. Len(p) + Len(q) :
             (p \o q)[i] = IF i <= Len(p) THEN p[i] ELSE q[i - Len(p)]
    BY <1>1, ConcatProperties
  <2>3. p \o q # <<>> /\ (p \o q)[1] = p[1] /\ (p \o q)[Len(p \o q)] = q[Len(q)]
    BY <2>1, <2>2
  <2>4. ASSUME NEW i \in 1 .. Len(p \o q) - 1
        PROVE  Meets((p \o q)[i][2], (p \o q)[i + 1][1], lost)
    <3>1. CASE i < Len(p)
      <4>1. (p \o q)[i] = p[i] /\ (p \o q)[i + 1] = p[i + 1] /\ i \in 1 .. Len(p) - 1
        BY <2>1, <2>2, <2>4, <3>1
      <4> QED
        BY <4>1 DEF Covers
    <3>2. CASE i = Len(p)
      <4>1. (p \o q)[i] = p[Len(p)] /\ (p \o q)[i + 1] = q[1]
        BY <2>1, <2>2, <2>4, <3>2
      <4> QED
        BY <1>0, <1>4, <4>1 DEF Covers
    <3>3. CASE i > Len(p)
      <4>1. /\ (p \o q)[i] = q[i - Len(p)]
            /\ (p \o q)[i + 1] = q[(i - Len(p)) + 1]
            /\ i - Len(p) \in 1 .. Len(q) - 1
        BY <2>1, <2>2, <2>4, <3>3
      <4> QED
        BY <4>1 DEF Covers
    <3> QED
      BY <2>1, <2>2, <2>4, <3>1, <3>2, <3>3
  <2> QED
    BY <1>4, <2>3, <2>4 DEF Covers
<1> QED
  BY <1>2, <1>3, <1>4

\* The last k of the lines that cover the log up to s cover its end.
LEMMA LastCovers ==
  ASSUME NEW q, Shown(q), NEW o, NEW s, Covers(q, o, s, {}), NEW k \in 1 .. Len(q)
  PROVE  /\ Shown(LastOf(q, k))
         /\ Len(LastOf(q, k)) = k
         /\ Covers(LastOf(q, k), LastOf(q, k)[1][1], s, {})
<1> DEFINE n == Len(q)
           m == n - k + 1
           l == LastOf(q, k)
<1>1. n \in Nat /\ m \in Nat \ {0} /\ m <= n /\ n \in 0 .. Len(q) /\ n - m + 1 = k
  BY DEF Shown
<1>2. l = SubSeq(q, m, n)
  BY DEF LastOf
<1> HIDE DEF l, m, n
<1>3. Shown(l) /\ Len(l) = k /\ \A i \in 1 .. k : l[i] = q[m + i - 1]
  BY <1>1, <1>2, PartShown
<1>4. l # <<>> /\ q # <<>>
  BY <1>1, <1>3, EmptySeq
<1>5. l[Len(l)][2] = s
  <2>1. l[k] = q[m + k - 1] /\ m + k - 1 = n
    BY <1>1, <1>3
  <2> QED
    BY <1>3, <1>4, <2>1 DEF Covers, Meets, n
<1>6. ASSUME NEW i \in 1 .. Len(l) - 1
      PROVE  l[i][2] = l[i + 1][1]
  <2>1. l[i] = q[m + i - 1] /\ l[i + 1] = q[m + (i + 1) - 1]
    BY <1>3, <1>6
  <2>2. m + i - 1 \in 1 .. n - 1 /\ m + (i + 1) - 1 = (m + i - 1) + 1
    BY <1>1, <1>3, <1>6
  <2> QED
    BY <2>1, <2>2 DEF Covers, Meets, n
<1> QED
  BY <1>3, <1>4, <1>5, <1>6 DEF Covers, Meets, l

-----------------------------------------------------------------------------
(* What a reader reads. *)

LEMMA SliceTyped ==
  ASSUME r.k \in Nat
  PROVE  Slice \in Nat \ {0}
<1>1. /\ AllSlice \in Nat \ {0} /\ SliceModulus \in Nat \ {0} /\ SliceUnit \in Nat \ {0}
  BY LogsAssumptions
<1>2. r.k % SliceModulus \in Nat
  BY <1>1
<1>3. ASSUME NEW a \in Nat \ {0}, NEW b \in Nat \ {0}
      PROVE  a * b \in Nat \ {0}
  OBVIOUS
<1>4. (r.k % SliceModulus) + 1 \in Nat \ {0}
  BY <1>2
<1>5. ((r.k % SliceModulus) + 1) * SliceUnit \in Nat \ {0}
  BY <1>1, <1>3, <1>4
<1> QED
  BY <1>1, <1>5 DEF Slice

LEMMA ReaderTyped ==
  ASSUME TypeOK
  PROVE  /\ MaxSize \in Nat /\ size \in 0 .. MaxSize
         /\ r.k \in Nat /\ r.off \in 0 .. size /\ r.goal \in 0 .. size
         /\ r.off \in Positions /\ size \in Positions
         /\ Shown(r.cur) /\ Shown(r.pre) /\ Shown(r.out)
<1>1. r \in ReaderType /\ size \in 0 .. MaxSize /\ r.goal <= size /\ r.off <= size
  BY DEF TypeOK, Positions
<1>2. /\ r.k \in 0 .. MaxTail /\ r.off \in 0 .. MaxSize /\ r.goal \in 0 .. MaxSize
      /\ r.cur \in Seq(Intervals) /\ r.pre \in Seq(Intervals) /\ r.out \in Seq(Intervals)
  BY <1>1 DEF ReaderType, Positions
<1> QED
  BY <1>1, <1>2, LogsAssumptions DEF TypeOK, Positions, Shown

LEMMA LongTyped ==
  ASSUME TypeOK
  PROVE  long \in SUBSET Nat /\ \A n \in long : 2 * n < size
  BY ReaderTyped DEF TypeOK, Positions

\* The scanner ends at the end of the log, or at a long line.
LEMMA StopsTyped ==
  ASSUME TypeOK, NEW s \in Stops(r.off)
  PROVE  /\ s \in Nat /\ r.off <= s /\ s <= size
         /\ s < size => \E n \in long : s = 2 * n
<1>1. size \in Nat /\ r.off \in Nat /\ r.off <= size
  BY ReaderTyped
<1>2. s = size \/ \E n \in Blocked(r.off) : s = 2 * n
  BY DEF Stops
<1>3. \A n \in Blocked(r.off) : n \in long /\ n \in Nat /\ r.off <= 2 * n /\ 2 * n < size
  BY LongTyped DEF Blocked
<1> QED
  BY <1>1, <1>2, <1>3

LEMMA ReadsAre ==
  ASSUME file = "there", NEW got \in Reads(r.off)
  PROVE  \E s \in Stops(r.off) : got \in ReadsTo(r.off, s)
  BY DEF Reads

LEMMA ReadsTyped ==
  ASSUME TypeOK, NEW got \in Reads(r.off)
  PROVE  Shown(got.lines) /\ got.off \in Positions /\ got.off <= size
<1>1. MaxSize \in Nat /\ size \in 0 .. MaxSize /\ r.off \in 0 .. size /\ Slice \in Nat \ {0}
  BY ReaderTyped, SliceTyped
<1>2. CASE file # "there"
  <2>1. got.lines = <<>> /\ got.off = 0
    BY <1>2 DEF Reads
  <2> QED
    BY <1>1, <2>1, NothingShown DEF Positions
<1>3. CASE file = "there"
  <2>1. PICK s \in Stops(r.off) : got \in ReadsTo(r.off, s)
    BY <1>3, ReadsAre
  <2> DEFINE all == Lines(r.off, s)
             first == FirstOf(all, Slice)
             reach == IF s < size THEN s + 1 ELSE size
  <2>2. s \in Nat /\ r.off <= s /\ s <= size
    BY StopsTyped
  <2>3. reach \in 0 .. size
    BY <1>1, <2>2
  <2>4. Shown(all)
    BY <1>1, <2>2, LinesShown DEF Positions
  <2>5. CASE Len(all) < Slice
    <3>1. got = [lines |-> all, off |-> reach]
      BY <2>1, <2>5 DEF ReadsTo
    <3> QED
      BY <1>1, <2>3, <2>4, <3>1 DEF Positions
  <2>6. CASE ~(Len(all) < Slice)
    <3>1. got.lines = first /\ got.off \in first[Len(first)][2] .. reach
      BY <2>1, <2>6 DEF ReadsTo
    <3>2. Len(all) \in Nat /\ Least(Slice, Len(all)) = Slice
      BY <1>1, <2>4, <2>6, Extremes DEF Shown
    <3>3. Slice \in 0 .. Len(all) /\ 1 \in Nat \ {0} /\ first = SubSeq(all, 1, Slice)
      BY <1>1, <2>6, <3>2 DEF FirstOf
    <3> HIDE DEF all, first, reach
    <3>4. Shown(first) /\ Len(first) = Slice
      BY <1>1, <2>4, <3>3, PartShown
    <3>5. first[Len(first)] \in Intervals
      BY <1>1, <3>4 DEF Shown
    <3>6. first[Len(first)][2] \in 0 .. MaxSize
      BY <3>5, IntervalsAre
    <3> QED
      BY <1>1, <2>3, <3>1, <3>4, <3>6 DEF Positions
  <2> QED
    BY <2>5, <2>6
<1> QED
  BY <1>2, <1>3

\* A slice takes the whole of a short log, and so what is left of it.
LEMMA LenLines ==
  ASSUME NEW o \in Nat, NEW s \in Nat, o <= s
  PROVE  Len(Lines(o, s)) = IF o < s THEN (s + 1) \div 2 - o \div 2 ELSE 0
  BY LinesAre

LEMMA LenWhole ==
  ASSUME NEW s \in Nat
  PROVE  Len(Lines(0, s)) = IF 0 < s THEN (s + 1) \div 2 - 0 \div 2 ELSE 0
<1>1. 0 \in Nat /\ 0 <= s
  OBVIOUS
<1> HIDE DEF Lines
<1> QED
  BY <1>1, LenLines

LEMMA LinesGrow ==
  ASSUME NEW o \in Nat, NEW s \in Nat, NEW u \in Nat, o <= s, s <= u
  PROVE  /\ Len(Lines(o, s)) \in Nat /\ Len(Lines(0, s)) \in Nat /\ Len(Lines(0, u)) \in Nat
         /\ Len(Lines(o, s)) <= Len(Lines(0, s))
         /\ Len(Lines(0, s)) <= Len(Lines(0, u))
<1>1. 0 \div 2 = 0 /\ o \div 2 \in Nat
  <2>1. 0 \div 2 = 0
    OBVIOUS
  <2> QED
    BY <2>1, Halves
<1>2. /\ (s + 1) \div 2 \in Nat
      /\ (s + 1 = 2 * ((s + 1) \div 2) \/ s + 1 = 2 * ((s + 1) \div 2) + 1)
  BY Halves
<1>3. /\ (u + 1) \div 2 \in Nat
      /\ (u + 1 = 2 * ((u + 1) \div 2) \/ u + 1 = 2 * ((u + 1) \div 2) + 1)
  BY Halves
<1>4. /\ Len(Lines(o, s)) = IF o < s THEN (s + 1) \div 2 - o \div 2 ELSE 0
      /\ Len(Lines(0, s)) = IF 0 < s THEN (s + 1) \div 2 - 0 \div 2 ELSE 0
      /\ Len(Lines(0, u)) = IF 0 < u THEN (u + 1) \div 2 - 0 \div 2 ELSE 0
  BY LenLines, LenWhole
<1> DEFINE a == o \div 2
           b == (s + 1) \div 2
           c == (u + 1) \div 2
<1>5. /\ a \in Nat /\ b \in Nat /\ c \in Nat /\ b <= c
      /\ o < s => a <= b
      /\ Len(Lines(o, s)) = IF o < s THEN b - a ELSE 0
      /\ Len(Lines(0, s)) = IF 0 < s THEN b ELSE 0
      /\ Len(Lines(0, u)) = IF 0 < u THEN c ELSE 0
  <2>1. o = 2 * a \/ o = 2 * a + 1
    BY Halves
  <2>2. b - 0 = b /\ c - 0 = c
    BY <1>2, <1>3
  <2> QED
    BY <1>1, <1>2, <1>3, <1>4, <2>1, <2>2
<1> HIDE DEF a, b, c
<1> QED
  BY <1>5

\* Of a log of less than a slice every read takes all that the scanner finds.
LEMMA ReadsShort ==
  ASSUME TypeOK, OneSlice, NEW s \in Stops(r.off), NEW got \in ReadsTo(r.off, s)
  PROVE  got.lines = Lines(r.off, s) /\ got.off = IF s < size THEN s + 1 ELSE size
<1>1. size \in Nat /\ r.off \in Nat /\ Slice \in Nat /\ s \in Nat /\ r.off <= s /\ s <= size
  BY ReaderTyped, SliceTyped, StopsTyped
<1>2. Len(Lines(r.off, s)) < Slice
  <2>1. /\ Len(Lines(r.off, s)) \in Nat /\ Len(Lines(0, s)) \in Nat /\ Len(Lines(0, size)) \in Nat
        /\ Len(Lines(r.off, s)) <= Len(Lines(0, s))
        /\ Len(Lines(0, s)) <= Len(Lines(0, size))
    BY <1>1, LinesGrow
  <2> QED
    BY <1>1, <2>1 DEF OneSlice
<1>3. got = [lines |-> Lines(r.off, s), off |-> IF s < size THEN s + 1 ELSE size]
  BY <1>2 DEF ReadsTo
<1> QED
  BY <1>3

LEMMA ReadsCover ==
  ASSUME TypeOK, OneSlice, file = "there", NEW got \in Reads(r.off)
  PROVE  Covers(got.lines, r.off, got.off, long)
<1>1. PICK s \in Stops(r.off) : got \in ReadsTo(r.off, s)
  BY ReadsAre
<1>2. /\ r.off \in Nat /\ s \in Nat /\ r.off <= s /\ s <= size /\ size \in Nat
      /\ r.off \in Positions /\ s \in Positions
      /\ s < size => \E n \in long : s = 2 * n
      /\ long \in SUBSET Nat
  BY ReaderTyped, StopsTyped, LongTyped DEF Positions
<1>3. got.lines = Lines(r.off, s) /\ got.off = IF s < size THEN s + 1 ELSE size
  BY <1>1, ReadsShort
<1>4. Covers(got.lines, r.off, s, long) /\ Shown(got.lines) /\ Shown(<<>>)
  BY <1>2, <1>3, LinesCover, LinesShown, NothingShown
<1>5. Covers(<<>>, s, got.off, long)
  <2>1. Meets(s, got.off, long)
    BY <1>2, <1>3 DEF Meets
  <2>2. Len(<<>>) = 0
    OBVIOUS
  <2> QED
    BY <2>1, <2>2 DEF Covers
<1>6. Covers(got.lines \o <<>>, r.off, got.off, long)
  BY <1>2, <1>4, <1>5, JoinCovers
<1>7. got.lines \o <<>> = got.lines
  BY <1>4, ConcatEmptySeq DEF Shown
<1> QED
  BY <1>6, <1>7

LEMMA ReadsWhole ==
  ASSUME TypeOK, Ordinary, file = "there", NEW got \in Reads(r.off)
  PROVE  got.lines = Lines(r.off, size) /\ got.off = size
<1>1. PICK s \in Stops(r.off) : got \in ReadsTo(r.off, s)
  BY ReadsAre
<1>2. s = size
  BY DEF Stops, Blocked, Ordinary
<1>3. size \in Nat
  BY ReaderTyped
<1> QED
  BY <1>1, <1>2, <1>3, ReadsShort DEF Ordinary

LEMMA ReadsNothing ==
  ASSUME file # "there", NEW got \in Reads(r.off)
  PROVE  got.lines = <<>> /\ got.off = 0
  BY DEF Reads

-----------------------------------------------------------------------------
(* The invariant. *)

\* A command begins with nothing; only one that prints a tail comes to "print".
\* While the log is not longer than a slice and no line is long, such a command
\* keeps nothing of what it reads before it has read the whole log at once.
ReaderInv ==
  /\ r.pc = "stat" => r.off = 0 /\ r.cur = <<>> /\ r.pre = <<>> /\ r.out = <<>>
  /\ r.pc = "print" => r.k > 0
  /\ Ordinary /\ r.k > 0 =>
       /\ r.pc = "read" => r.off = 0 /\ r.cur = <<>> /\ r.pre = <<>>
       /\ r.pc = "print" => /\ r.pre = <<>> /\ r.off >= r.goal
                            /\ r.cur = Lines(0, r.off)

IInv == TypeOK /\ ReaderInv /\ WholeLog /\ TailOfLog /\ PanicsOnShortLog

LEMMA InitInv == Init => IInv
<1> SUFFICES ASSUME Init PROVE IInv
  OBVIOUS
<1>1. r = NoReader /\ size = 0 /\ long = {}
  BY DEF Init
<1>2. NoReader \in ReaderType
  BY LogsAssumptions, EmptySeq DEF NoReader, ReaderType, ReaderPoints, Positions
<1>3. TypeOK
  <2>1. size \in Positions
    BY <1>1, LogsAssumptions DEF Positions
  <2>2. r.goal <= size /\ r.off <= size /\ r.cur = <<>> /\ r.pre = <<>> /\ r.out = <<>>
    BY <1>1 DEF NoReader
  <2> QED
    BY <1>1, <1>2, <2>1, <2>2, NothingShown DEF TypeOK, Shown, Init
<1>4. r.pc = "idle"
  BY <1>1 DEF NoReader
<1> QED
  BY <1>3, <1>4 DEF IInv, ReaderInv, WholeLog, TailOfLog, PanicsOnShortLog

\* What the container does changes nothing that the reader has.
LEMMA HostStep ==
  ASSUME IInv, Prints \/ Exit \/ Start \/ Remove
  PROVE  IInv'
<1>0. size \in Nat /\ size \in 0 .. MaxSize /\ MaxSize \in Nat /\ long \subseteq {n \in 0 .. MaxSize : 2 * n < size}
  BY ReaderTyped DEF IInv, TypeOK, Positions
<1>1. /\ r' = r /\ size' \in Positions /\ size <= size' /\ long \subseteq long'
      /\ long' \subseteq {n \in Positions : 2 * n < size'}
      /\ file' = "there" => file = "there"
      /\ file' \in {"absent", "there", "removed"}
      /\ output' \in {"log", "terminal", "lost", "none"}
  <2>1. CASE Prints
    <3>1. size' = size + 1 /\ size' \in Positions
      BY <1>0, <2>1 DEF Prints, Positions
    <3>2. long' = long \/ (size % 2 = 0 /\ long' = long \cup {size \div 2})
      BY <2>1 DEF Prints
    <3>3. size \div 2 \in 0 .. MaxSize /\ 2 * (size \div 2) < size + 1
      BY <1>0, Halves
    <3>4. long \subseteq long'
      BY <3>2
    <3>5. long' \subseteq {n \in Positions : 2 * n < size'}
      <4> SUFFICES ASSUME NEW n \in long' PROVE n \in Positions /\ 2 * n < size'
        OBVIOUS
      <4>1. CASE n \in long
        <5>1. n \in 0 .. MaxSize /\ 2 * n < size
          BY <1>0, <4>1
        <5> QED
          BY <1>0, <3>1, <5>1 DEF Positions
      <4>2. CASE n \notin long
        BY <3>1, <3>2, <3>3, <4>2 DEF Positions
      <4> QED
        BY <4>1, <4>2
    <3> QED
      BY <1>0, <2>1, <3>1, <3>4, <3>5 DEF Prints, IInv, TypeOK
  <2>2. CASE Exit \/ Start \/ Remove
    <3>1. r' = r /\ size' = size /\ long' = long
      BY <2>2 DEF Exit, Start, Remove
    <3>2. /\ file' = "there" => file = "there"
          /\ file' \in {"absent", "there", "removed"}
          /\ output' \in {"log", "terminal", "lost", "none"}
      BY <2>2 DEF Exit, Start, Remove, IInv, TypeOK
    <3> QED
      BY <1>0, <3>1, <3>2 DEF Positions
  <2> QED
    BY <2>1, <2>2
<1>2. /\ size \in Nat /\ size' \in Nat /\ r.k \in Nat
      /\ r.off \in 0 .. size /\ r.goal \in 0 .. size
  BY <1>1, ReaderTyped DEF IInv, Positions
<1>3. TypeOK'
  BY <1>1, <1>2 DEF IInv, TypeOK, AreLines
<1>4. (OneSlice' => OneSlice) /\ (Ordinary' => Ordinary)
  <2>1. Slice' = Slice /\ Slice \in Nat
    BY <1>1, <1>2, SliceTyped DEF Slice
  <2>2. /\ Len(Lines(0, size)) \in Nat /\ Len(Lines(0, size')) \in Nat
        /\ Len(Lines(0, size)) <= Len(Lines(0, size'))
    <3>1. 0 \in Nat /\ 0 <= size
      BY <1>2
    <3> QED
      BY <1>1, <1>2, <3>1, LinesGrow
  <2>3. OneSlice' <=> Len(Lines(0, size')) < Slice
    BY <2>1 DEF OneSlice
  <2>4. OneSlice' => OneSlice
    BY <2>1, <2>2, <2>3 DEF OneSlice
  <2> QED
    BY <1>1, <2>4 DEF Ordinary
<1>5. ReaderInv'
  BY <1>1, <1>4 DEF IInv, ReaderInv
<1>6. WholeLog'
  <2>1. Covers(r.out, 0, r.off, long) => Covers(r.out, 0, r.off, long')
    BY <1>1, CoversMore
  <2> QED
    BY <1>1, <1>4, <2>1 DEF IInv, WholeLog
<1>7. TailOfLog' /\ PanicsOnShortLog'
  BY <1>1, <1>4 DEF IInv, TailOfLog, PanicsOnShortLog
<1> QED
  BY <1>3, <1>5, <1>6, <1>7 DEF IInv

\* The steps of the reader leave the log alone.
LEMMA SliceStays ==
  ASSUME size' = size, long' = long, r'.k = r.k
  PROVE  (OneSlice' <=> OneSlice) /\ (Ordinary' <=> Ordinary)
  BY DEF OneSlice, Ordinary, Slice

LEMMA ReaderWrite ==
  ASSUME TypeOK, size' = size, long' = long, output' = output,
         file' \in {"absent", "there", "removed"},
         NEW pc \in ReaderPoints, NEW goal \in 0 .. size, NEW off \in 0 .. size,
         NEW cur, Shown(cur), NEW pre, Shown(pre), NEW out, Shown(out),
         NEW k \in 0 .. MaxTail, NEW follow \in BOOLEAN,
         r' = [pc |-> pc, k |-> k, follow |-> follow, goal |-> goal, off |-> off,
               cur |-> cur, pre |-> pre, out |-> out]
  PROVE  TypeOK'
<1>1. size \in 0 .. MaxSize /\ MaxSize \in Nat
  BY LogsAssumptions DEF TypeOK, Positions
<1>2. r' \in ReaderType
  BY <1>1 DEF ReaderType, Shown, Positions
<1>3. /\ r'.goal <= size /\ r'.off <= size
      /\ r'.cur = cur /\ r'.pre = pre /\ r'.out = out
  BY <1>1
<1> QED
  BY <1>2, <1>3 DEF TypeOK, Shown, AreLines

\* What the reader's record is made of.
LEMMA ReaderParts ==
  ASSUME TypeOK
  PROVE  /\ r = [pc |-> r.pc, k |-> r.k, follow |-> r.follow, goal |-> r.goal, off |-> r.off,
                 cur |-> r.cur, pre |-> r.pre, out |-> r.out]
         /\ r.pc \in ReaderPoints /\ r.k \in 0 .. MaxTail /\ r.follow \in BOOLEAN
  BY DEF TypeOK, ReaderType

\* A command that begins, or is gone, has nothing to show.
LEMMA EmptyReader ==
  ASSUME TypeOK, size' = size, long' = long, output' = output,
         file' \in {"absent", "there", "removed"},
         NEW pc \in {"idle", "stat"}, NEW k \in 0 .. MaxTail, NEW follow \in BOOLEAN,
         r' = [pc |-> pc, k |-> k, follow |-> follow, goal |-> 0, off |-> 0,
               cur |-> <<>>, pre |-> <<>>, out |-> <<>>]
  PROVE  IInv'
<1>2. size \in Nat /\ 0 \in 0 .. size /\ pc \in ReaderPoints
  BY ReaderTyped DEF ReaderPoints
<1>3. TypeOK'
  BY <1>2, NothingShown, ReaderWrite
<1>4. r'.pc = pc /\ r'.off = 0 /\ r'.cur = <<>> /\ r'.pre = <<>> /\ r'.out = <<>>
  OBVIOUS
<1> QED
  BY <1>3, <1>4 DEF IInv, ReaderInv, WholeLog, TailOfLog, PanicsOnShortLog

LEMMA LogsStep ==
  ASSUME IInv, Logs
  PROVE  IInv'
<1>1. PICK k \in 0 .. MaxTail, follow \in BOOLEAN :
        r' = [NoReader EXCEPT !.pc = "stat", !.k = k, !.follow = follow]
  BY DEF Logs
<1>2. TypeOK /\ size' = size /\ long' = long /\ output' = output /\ file' = "there"
  BY DEF IInv, Logs
<1>3. r' = [pc |-> "stat", k |-> k, follow |-> follow, goal |-> 0, off |-> 0,
            cur |-> <<>>, pre |-> <<>>, out |-> <<>>]
  BY <1>1 DEF NoReader
<1> QED
  BY <1>2, <1>3, EmptyReader

LEMMA InterruptStep ==
  ASSUME IInv, TypeOK, size' = size, long' = long, output' = output, file' = file, r' = NoReader
  PROVE  IInv'
<1>1. r' = [pc |-> "idle", k |-> 0, follow |-> FALSE, goal |-> 0, off |-> 0,
            cur |-> <<>>, pre |-> <<>>, out |-> <<>>]
  BY DEF NoReader
<1>2. 0 \in 0 .. MaxTail /\ file' \in {"absent", "there", "removed"}
  BY LogsAssumptions DEF TypeOK
<1> QED
  BY <1>1, <1>2, EmptyReader

LEMMA StatStep ==
  ASSUME IInv, Stat
  PROVE  IInv'
<1>1. TypeOK /\ r.pc = "stat" /\ size' = size /\ long' = long /\ output' = output /\ file' = file
  BY DEF IInv, Stat
<1>2. CASE file = "there"
  <2>1. r' = [r EXCEPT !.pc = "read", !.goal = size]
    BY <1>2 DEF Stat
  <2>2. r.off = 0 /\ r.cur = <<>> /\ r.pre = <<>> /\ r.out = <<>>
    BY <1>1 DEF IInv, ReaderInv
  <2>3. r' = [pc |-> "read", k |-> r.k, follow |-> r.follow, goal |-> size, off |-> 0,
              cur |-> <<>>, pre |-> <<>>, out |-> <<>>]
    BY <1>1, <2>1, <2>2, ReaderParts
  <2>4. /\ size \in Nat /\ 0 \in 0 .. size /\ size \in 0 .. size
        /\ "read" \in ReaderPoints /\ r.k \in 0 .. MaxTail /\ r.follow \in BOOLEAN
        /\ file' \in {"absent", "there", "removed"}
    BY <1>1, ReaderTyped, ReaderParts DEF ReaderPoints, TypeOK
  <2>5. TypeOK'
    BY <1>1, <2>3, <2>4, NothingShown, ReaderWrite
  <2>6. r'.pc = "read" /\ r'.off = 0 /\ r'.cur = <<>> /\ r'.pre = <<>> /\ r'.out = <<>>
    BY <2>3
  <2> QED
    BY <2>5, <2>6 DEF IInv, ReaderInv, WholeLog, TailOfLog, PanicsOnShortLog, Covers, Meets
<1>3. CASE file # "there"
  BY <1>1, <1>3, InterruptStep DEF Stat
<1> QED
  BY <1>2, <1>3

LEMMA ReadAllStep ==
  ASSUME IInv, ReadAll
  PROVE  IInv'
<1>1. /\ TypeOK /\ r.pc = "read" /\ r.k = 0
      /\ size' = size /\ long' = long /\ output' = output /\ file' = file
  BY DEF IInv, ReadAll
<1>2. PICK got \in Reads(r.off) :
        r' = [r EXCEPT !.out = @ \o got.lines, !.off = got.off,
                       !.pc = IF got.off >= r.goal THEN Then ELSE "read"]
  BY DEF ReadAll
<1> DEFINE pc == IF got.off >= r.goal THEN Then ELSE "read"
           out == r.out \o got.lines
<1>3. /\ Shown(got.lines) /\ got.off \in 0 .. size
      /\ size \in Nat /\ r.off \in 0 .. size /\ r.goal \in 0 .. size
      /\ Shown(r.out) /\ Shown(r.cur) /\ Shown(r.pre)
  BY <1>1, ReadsTyped, ReaderTyped DEF Positions
<1>4. pc \in ReaderPoints /\ pc \in {"read", "follow", "done"}
  BY DEF Then, ReaderPoints
<1>5. r' = [pc |-> pc, k |-> r.k, follow |-> r.follow, goal |-> r.goal, off |-> got.off,
            cur |-> r.cur, pre |-> r.pre, out |-> out]
  BY <1>1, <1>2, ReaderParts
<1>6. Shown(out)
  BY <1>3, JoinShown
<1>7. r'.pc = pc /\ r'.k = 0 /\ r'.off = got.off /\ r'.out = out /\ r'.goal = r.goal
  BY <1>1, <1>5
<1>8. TypeOK'
  <2>1. /\ file' \in {"absent", "there", "removed"}
        /\ r.k \in 0 .. MaxTail /\ r.follow \in BOOLEAN
    BY <1>1, ReaderParts DEF TypeOK
  <2> HIDE DEF pc, out
  <2> QED
    BY <1>1, <1>3, <1>4, <1>5, <1>6, <2>1, ReaderWrite
<1>9. ReaderInv' /\ TailOfLog' /\ PanicsOnShortLog'
  BY <1>4, <1>7 DEF ReaderInv, TailOfLog, PanicsOnShortLog
<1>10. WholeLog'
  <2> SUFFICES ASSUME OneSlice', file' = "there"
               PROVE  Covers(out, 0, got.off, long) /\ (pc # "read" => got.off >= r.goal)
    BY <1>1, <1>7 DEF WholeLog
  <2>1. OneSlice /\ file = "there"
    BY <1>1, <1>7, SliceStays
  <2>2. Covers(got.lines, r.off, got.off, long) /\ long \in SUBSET Nat
    BY <1>1, <2>1, ReadsCover, LongTyped
  <2>3. Covers(r.out, 0, r.off, long)
    BY <1>1, <2>1 DEF IInv, WholeLog
  <2>4. Covers(out, 0, got.off, long)
    BY <1>3, <2>2, <2>3, JoinCovers
  <2> QED
    BY <1>3, <2>4
<1> QED
  BY <1>8, <1>9, <1>10 DEF IInv

LEMMA LinesNowhere == Lines(0, 0) = <<>>
<1>1. Lines(0, 0) \in Seq(Intervals)
  <2>1. 0 \in Positions /\ 0 <= 0
    BY LogsAssumptions DEF Positions
  <2> QED
    BY <2>1, LinesShown DEF Shown
<1>2. Len(Lines(0, 0)) = 0
  <2>1. 0 \in Nat /\ ~(0 < 0)
    OBVIOUS
  <2> QED
    BY <2>1, LenWhole
<1> QED
  BY <1>1, <1>2, EmptySeq

LEMMA ReadTailStep ==
  ASSUME IInv, ReadTail
  PROVE  IInv'
<1>1. /\ TypeOK /\ r.pc = "read" /\ r.k > 0
      /\ size' = size /\ long' = long /\ output' = output /\ file' = file
  BY DEF IInv, ReadTail
<1>2. PICK got \in Reads(r.off) :
        r' = IF got.off >= r.goal
               THEN [r EXCEPT !.cur = got.lines, !.off = got.off, !.pc = "print"]
               ELSE [r EXCEPT !.cur = got.lines, !.off = got.off, !.pre = got.lines]
  BY DEF ReadTail
<1> DEFINE pc == IF got.off >= r.goal THEN "print" ELSE "read"
           pre == IF got.off >= r.goal THEN r.pre ELSE got.lines
<1>3. /\ Shown(got.lines) /\ got.off \in 0 .. size
      /\ size \in Nat /\ r.off \in 0 .. size /\ r.goal \in 0 .. size
      /\ Shown(r.out) /\ Shown(r.pre)
  BY <1>1, ReadsTyped, ReaderTyped DEF Positions
<1>4. pc \in ReaderPoints /\ pc \in {"read", "print"} /\ Shown(pre)
  BY <1>3 DEF ReaderPoints
<1>5. r' = [pc |-> pc, k |-> r.k, follow |-> r.follow, goal |-> r.goal, off |-> got.off,
            cur |-> got.lines, pre |-> pre, out |-> r.out]
  BY <1>1, <1>2, ReaderParts
<1>6. /\ r'.pc = pc /\ r'.k = r.k /\ r'.off = got.off /\ r'.goal = r.goal
      /\ r'.cur = got.lines /\ r'.pre = pre
  BY <1>5
<1>7. TypeOK'
  <2>1. /\ file' \in {"absent", "there", "removed"}
        /\ r.k \in 0 .. MaxTail /\ r.follow \in BOOLEAN
    BY <1>1, ReaderParts DEF TypeOK
  <2> HIDE DEF pc, pre
  <2> QED
    BY <1>1, <1>3, <1>4, <1>5, <2>1, ReaderWrite
<1>8. ASSUME Ordinary'
      PROVE  /\ pc = "read" => got.off = 0 /\ got.lines = <<>> /\ pre = <<>>
             /\ pc = "print" => /\ pre = <<>> /\ got.off >= r.goal
                                /\ got.lines = Lines(0, got.off)
  <2>1. Ordinary /\ r.off = 0 /\ r.pre = <<>>
    BY <1>1, <1>6, <1>8, SliceStays DEF IInv, ReaderInv
  <2>2. CASE file = "there"
    <3>1. got.lines = Lines(0, size) /\ got.off = size
      BY <1>1, <2>1, <2>2, ReadsWhole
    <3>2. got.off >= r.goal
      BY <1>3, <3>1
    <3> QED
      BY <2>1, <3>1, <3>2
  <2>3. CASE file # "there"
    <3>1. got.lines = <<>> /\ got.off = 0
      BY <2>3, ReadsNothing
    <3> QED
      BY <2>1, <3>1, LinesNowhere
  <2> QED
    BY <2>2, <2>3
<1>9. ReaderInv'
  <2>1. r'.pc = "print" => r'.k > 0
    BY <1>1, <1>6
  <2>2. r'.pc # "stat"
    BY <1>4, <1>6
  <2> HIDE DEF pc, pre
  <2> QED
    BY <1>6, <1>8, <2>1, <2>2 DEF ReaderInv
<1>10. WholeLog' /\ TailOfLog' /\ PanicsOnShortLog'
  BY <1>1, <1>3, <1>4, <1>6 DEF WholeLog, TailOfLog, PanicsOnShortLog
<1> QED
  BY <1>7, <1>9, <1>10 DEF IInv

\* What is printed of the last two slices.
LEMMA PrintedShown ==
  ASSUME TypeOK, r.k > 0, ~PrintPanics
  PROVE  Shown(Printed)
<1>1. /\ r.k \in Nat /\ Slice \in Nat \ {0} /\ Shown(r.cur) /\ Shown(r.pre)
      /\ Len(r.cur) \in Nat /\ Len(r.pre) \in Nat
  BY ReaderTyped, SliceTyped DEF Shown
<1>2. CASE Len(r.cur) >= r.k
  <2>1. Len(r.cur) - r.k + 1 \in Nat \ {0} /\ Len(r.cur) \in 0 .. Len(r.cur)
    BY <1>1, <1>2
  <2>2. Printed = SubSeq(r.cur, Len(r.cur) - r.k + 1, Len(r.cur))
    BY <1>2, Zenon DEF Printed, LastOf
  <2> QED
    BY <1>1, <2>1, <2>2, PartShown
<1>3. CASE Len(r.cur) < r.k /\ Slice + Len(r.cur) < r.k
  <2>1. Printed = r.pre \o r.cur
    <3>1. ~(Len(r.cur) >= r.k)
      BY <1>1, <1>3
    <3> QED
      BY <1>3, <3>1, Zenon DEF Printed
  <2> QED
    BY <1>1, <2>1, JoinShown
<1>4. CASE Len(r.cur) < r.k /\ Slice + Len(r.cur) >= r.k
  <2>1. Len(r.cur) \in Nat \ {0} /\ Len(r.pre) \in 0 .. Len(r.pre)
    BY <1>1, <1>4 DEF PrintPanics
  <2>2. Printed = SubSeq(r.pre, Len(r.cur), Len(r.pre)) \o r.cur
    <3>1. ~(Len(r.cur) >= r.k) /\ ~(Slice + Len(r.cur) < r.k)
      BY <1>1, <1>4
    <3> QED
      BY <3>1, Zenon DEF Printed
  <2>3. Shown(SubSeq(r.pre, Len(r.cur), Len(r.pre)))
    BY <1>1, <2>1, PartShown
  <2> QED
    BY <1>1, <2>2, <2>3, JoinShown
<1> QED
  BY <1>1, <1>2, <1>3, <1>4

LEMMA PrintTailStep ==
  ASSUME IInv, PrintTail
  PROVE  IInv'
<1>1. /\ TypeOK /\ r.pc = "print" /\ r.k > 0
      /\ size' = size /\ long' = long /\ output' = output /\ file' = file
      /\ file' \in {"absent", "there", "removed"}
  BY DEF IInv, ReaderInv, PrintTail, TypeOK
<1>2. /\ size \in Nat /\ r.k \in Nat /\ r.off \in 0 .. size /\ r.goal \in 0 .. size
      /\ Shown(r.cur) /\ Shown(r.pre) /\ Shown(r.out)
      /\ r.k \in 0 .. MaxTail /\ r.follow \in BOOLEAN
  BY <1>1, ReaderTyped, ReaderParts
<1>3. r'.k = r.k => (Ordinary' => Ordinary /\ r.cur = Lines(0, r.off) /\ r.off >= r.goal)
  BY <1>1, SliceStays DEF IInv, ReaderInv
<1>4. CASE PrintPanics
  <2>1. r' = [pc |-> "panic", k |-> r.k, follow |-> r.follow, goal |-> r.goal,
              off |-> r.off, cur |-> r.cur, pre |-> r.pre, out |-> r.out]
    BY <1>1, <1>4, ReaderParts DEF PrintTail
  <2>2. "panic" \in ReaderPoints
    BY DEF ReaderPoints
  <2>3. TypeOK'
    BY <1>1, <1>2, <2>1, <2>2, ReaderWrite
  <2>4. r'.pc = "panic" /\ r'.k = r.k /\ r'.off = r.off
    BY <2>1
  <2>5. PanicsOnShortLog'
    <3> SUFFICES ASSUME Ordinary' PROVE Len(Lines(0, r.off)) < r.k
      BY <2>4 DEF PanicsOnShortLog
    <3> QED
      BY <1>3, <1>4, <2>4 DEF PrintPanics
  <2> QED
    BY <2>3, <2>4, <2>5 DEF IInv, ReaderInv, WholeLog, TailOfLog
<1>5. CASE ~PrintPanics
  <2>1. r' = [pc |-> Then, k |-> r.k, follow |-> r.follow, goal |-> r.goal,
              off |-> r.off, cur |-> r.cur, pre |-> r.pre, out |-> Printed]
    BY <1>1, <1>5, ReaderParts DEF PrintTail
  <2>2. Then \in ReaderPoints /\ Then \in {"follow", "done"} /\ Shown(Printed)
    BY <1>1, <1>5, PrintedShown DEF Then, ReaderPoints
  <2>3. TypeOK'
    BY <1>1, <1>2, <2>1, <2>2, ReaderWrite
  <2>4. /\ r'.pc = Then /\ r'.k = r.k /\ r'.off = r.off /\ r'.goal = r.goal
        /\ r'.out = Printed
    BY <2>1
  <2>5. TailOfLog'
    <3> SUFFICES ASSUME Ordinary', Len(Lines(0, r.goal)) >= r.k
                 PROVE  /\ Len(Printed) >= r.k
                        /\ Covers(Printed, Printed[1][1], r.off, {})
                        /\ Printed = LastOf(Lines(0, r.off), r.k)
      BY <2>4 DEF TailOfLog
    <3>1. r.cur = Lines(0, r.off) /\ r.off >= r.goal
      BY <1>3, <2>4
    <3>2. Len(r.cur) \in Nat /\ Len(Lines(0, r.goal)) \in Nat /\ Len(Lines(0, r.goal)) <= Len(r.cur)
      <4>1. 0 \in Nat /\ r.goal \in Nat /\ r.off \in Nat /\ 0 <= r.goal /\ r.goal <= r.off
        BY <1>2, <3>1
      <4> QED
        BY <3>1, <4>1, LinesGrow
    <3>3. r.k \in 1 .. Len(r.cur)
      BY <1>1, <1>2, <3>2
    <3>4. Printed = LastOf(r.cur, r.k)
      BY <3>3 DEF Printed
    <3>5. Covers(r.cur, 0, r.off, {})
      <4>1. 0 \in Nat /\ r.off \in Nat /\ 0 <= r.off
        BY <1>2
      <4> QED
        BY <3>1, <4>1, LinesCover
    <3>6. /\ Len(LastOf(r.cur, r.k)) = r.k
          /\ Covers(LastOf(r.cur, r.k), LastOf(r.cur, r.k)[1][1], r.off, {})
      BY <1>2, <3>3, <3>5, LastCovers
    <3> QED
      BY <1>2, <3>1, <3>4, <3>6
  <2> QED
    BY <1>1, <1>2, <2>2, <2>3, <2>4, <2>5 DEF IInv, ReaderInv, WholeLog, PanicsOnShortLog
<1> QED
  BY <1>4, <1>5

LEMMA FollowStep ==
  ASSUME IInv, Follow
  PROVE  IInv'
<1> DEFINE end == 2 * (r.off \div 2 + 1)
           x == <<r.off, end>>
           out == r.out \o <<x>>
<1>1. /\ TypeOK /\ r.pc = "follow" /\ file = "there" /\ end <= size
      /\ size' = size /\ long' = long /\ output' = output /\ file' = file
      /\ file' \in {"absent", "there", "removed"}
      /\ r' = [r EXCEPT !.out = Append(@, x), !.off = end]
  BY DEF IInv, TypeOK, Follow
<1>2. /\ MaxSize \in Nat /\ size \in 0 .. MaxSize /\ r.off \in Nat /\ r.goal \in 0 .. size
      /\ Shown(r.cur) /\ Shown(r.pre) /\ Shown(r.out)
      /\ r.pc \in ReaderPoints /\ r.k \in 0 .. MaxTail /\ r.follow \in BOOLEAN
  BY <1>1, ReaderTyped, ReaderParts
<1>3. end \in Nat /\ r.off < end
  BY <1>2, Halves
<1> HIDE DEF end
<1>4. r.off \in Positions /\ end \in Positions /\ end \in 0 .. size /\ x \in Intervals
  BY <1>1, <1>2, <1>3 DEF Positions, Intervals
<1>5. Shown(<<x>>) /\ \A lost : Covers(<<x>>, r.off, end, lost)
  BY <1>3, <1>4, OneShown
<1>6. Append(r.out, x) = out
  <2>1. r.out \in Seq(Intervals)
    BY <1>2 DEF Shown
  <2> HIDE DEF x
  <2> QED
    BY <1>4, <2>1, AppendIsConcat
<1> HIDE DEF x
<1>7. Shown(out)
  BY <1>2, <1>5, JoinShown
<1>8. r' = [pc |-> r.pc, k |-> r.k, follow |-> r.follow, goal |-> r.goal, off |-> end,
            cur |-> r.cur, pre |-> r.pre, out |-> out]
  BY <1>1, <1>6, ReaderParts
<1>9. /\ r'.pc = "follow" /\ r'.k = r.k /\ r'.off = end /\ r'.goal = r.goal
      /\ r'.out = out
  BY <1>1, <1>8
<1>10. TypeOK'
  <2>1. /\ TypeOK /\ size' = size /\ long' = long /\ output' = output
        /\ file' \in {"absent", "there", "removed"}
    BY <1>1
  <2> HIDE DEF out
  <2> QED
    BY <2>1, <1>2, <1>4, <1>7, <1>8, ReaderWrite
<1>11. (OneSlice' <=> OneSlice) /\ (Ordinary' <=> Ordinary) /\ long \in SUBSET Nat
  BY <1>1, <1>9, SliceStays, LongTyped
<1>12. WholeLog'
  <2> SUFFICES ASSUME r.k = 0, OneSlice
               PROVE  Covers(out, 0, end, long) /\ end >= r.goal
    BY <1>1, <1>9, <1>11 DEF WholeLog
  <2>1. Covers(r.out, 0, r.off, long) /\ r.off >= r.goal
    BY <1>1 DEF IInv, WholeLog
  <2>2. Covers(out, 0, end, long)
    BY <1>2, <1>5, <1>11, <2>1, JoinCovers
  <2> QED
    BY <1>2, <1>3, <2>1, <2>2
<1>13. TailOfLog'
  <2> SUFFICES ASSUME r.k > 0, Ordinary, Len(Lines(0, r.goal)) >= r.k
               PROVE  Len(out) >= r.k /\ Covers(out, out[1][1], end, {})
    BY <1>9, <1>11 DEF TailOfLog
  <2>1. Len(r.out) >= r.k /\ Covers(r.out, r.out[1][1], r.off, {})
    BY <1>1 DEF IInv, TailOfLog
  <2>2. r.out \in Seq(Intervals) /\ <<x>> \in Seq(Intervals) /\ Len(r.out) \in Nat
    BY <1>2, <1>5 DEF Shown
  <2>3. Len(out) = Len(r.out) + 1 /\ out[1] = r.out[1]
    <3>1. 1 \in 1 .. Len(r.out) + Len(<<x>>) /\ 1 <= Len(r.out) /\ Len(<<x>>) = 1
      BY <1>2, <2>1, <2>2
    <3> QED
      BY <2>2, <3>1, ConcatProperties
  <2>4. Covers(out, r.out[1][1], end, {})
    BY <1>2, <1>5, <2>1, JoinCovers
  <2> QED
    BY <1>2, <2>1, <2>2, <2>3, <2>4
<1>14. ReaderInv' /\ PanicsOnShortLog'
  BY <1>9 DEF ReaderInv, PanicsOnShortLog
<1> QED
  BY <1>10, <1>12, <1>13, <1>14 DEF IInv

LEMMA NextInv ==
  ASSUME IInv, [Next]_vars
  PROVE  IInv'
<1>1. CASE Prints \/ Exit \/ Start \/ Remove
  BY <1>1, HostStep
<1>2. CASE Logs
  BY <1>2, LogsStep
<1>3. CASE Stat
  BY <1>3, StatStep
<1>4. CASE ReadAll
  BY <1>4, ReadAllStep
<1>5. CASE ReadTail
  BY <1>5, ReadTailStep
<1>6. CASE PrintTail
  BY <1>6, PrintTailStep
<1>7. CASE Follow
  BY <1>7, FollowStep
<1>8. CASE Interrupt
  <2>1. TypeOK /\ size' = size /\ long' = long /\ output' = output /\ file' = file /\ r' = NoReader
    BY <1>8 DEF IInv, Interrupt
  <2> QED
    BY <2>1, InterruptStep
<1>9. CASE UNCHANGED vars
  <2>1. file' = file /\ size' = size /\ long' = long /\ output' = output /\ r' = r
    BY <1>9 DEF vars
  <2>2. TypeOK'
    BY <2>1 DEF IInv, TypeOK, AreLines
  <2>3. (OneSlice' <=> OneSlice) /\ (Ordinary' <=> Ordinary)
    BY <2>1 DEF OneSlice, Ordinary, Slice
  <2> QED
    BY <2>1, <2>2, <2>3
    DEF IInv, ReaderInv, WholeLog, TailOfLog, PanicsOnShortLog
<1> QED
  BY <1>1, <1>2, <1>3, <1>4, <1>5, <1>6, <1>7, <1>8, <1>9 DEF Next, ReaderStep

LEMMA Invariant == Spec => []IInv
  BY InitInv, NextInv, PTL DEF Spec

-----------------------------------------------------------------------------
(* Theorems. *)

\* The reader's offset never runs ahead of the log, and it never shows an
\* empty line, whatever is removed or opened again under its hands.
THEOREM LogsTypeCorrect == Spec => []TypeOK
<1>1. IInv => TypeOK
  BY DEF IInv
<1> QED
  BY <1>1, Invariant, PTL

\* logContainer prints a log of less than a slice in order and without a
\* repetition, loses nothing of it but the beginnings of long lines, and hands
\* over to the tail library where it stopped.
THEOREM WholeLogPrinted == Spec => []WholeLog
<1>1. IInv => WholeLog
  BY DEF IInv
<1> QED
  BY <1>1, Invariant, PTL

\* The two slices that logContainer keeps give the last k lines of a log of less
\* than a slice without long lines, however the log grows between the reads.
THEOREM TailPrinted == Spec => []TailOfLog
<1>1. IInv => TailOfLog
  BY DEF IInv
<1> QED
  BY <1>1, Invariant, PTL

\* While no line is long, the index into the slice before is wrong for logs with
\* fewer than k lines only.
THEOREM PanicsOnlyOnShortLog == Spec => []PanicsOnShortLog
<1>1. IInv => PanicsOnShortLog
  BY DEF IInv
<1> QED
  BY <1>1, Invariant, PTL

=============================================================================
