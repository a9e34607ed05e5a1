------------------------- MODULE EventLogFileProofs -------------------------
(***************************************************************************)
(* The event log for any number of events, stops and reads: whole lines,   *)
(* at most one line cut short, and only at the end.                        *)
(***************************************************************************)
EXTENDS EventLogFile, SequenceTheorems, FiniteSetTheorems, TLAPS

Cell == [half : 0..2, of : Event \cup {0}]

(* The cells are the lines of these events and then no newline.            *)
Shape(cells, events) ==
  /\ cells \in Seq(Cell) /\ events \in Seq(Event)
  /\ 3 * Len(events) <= Len(cells)
  /\ \A k \in 1..Len(events) : /\ cells[3 * k - 2] = [half |-> 1, of |-> events[k]]
                               /\ cells[3 * k - 1] = [half |-> 2, of |-> events[k]]
                               /\ cells[3 * k] = Newline
  /\ \A i \in 3 * Len(events) + 1..Len(cells) : cells[i] # Newline

(* A file of whole lines has three cells to an event.                        *)
LEMMA ShapeSizes ==
  ASSUME NEW cells, NEW events, Shape(cells, events)
  PROVE  /\ cells \in Seq(Cell) /\ Len(cells) \in Nat /\ DOMAIN cells = 1..Len(cells)
         /\ events \in Seq(Event) /\ Len(events) \in Nat
         /\ 3 * Len(events) <= Len(cells)
<1>1. cells \in Seq(Cell) /\ events \in Seq(Event) /\ 3 * Len(events) <= Len(cells)
  BY DEF Shape
<1> QED
  BY <1>1, LenProperties

(* The three cells of a line.                                              *)
LineAt(cells, k, e) ==
  /\ cells[3 * k - 2] = [half |-> 1, of |-> e]
  /\ cells[3 * k - 1] = [half |-> 2, of |-> e]
  /\ cells[3 * k] = Newline
  /\ cells[3 * k - 2].half = 1 /\ cells[3 * k - 1].half = 2 /\ cells[3 * k].half = 0
  /\ cells[3 * k - 2].of = e
  /\ cells[3 * k - 2] # Newline /\ cells[3 * k - 1] # Newline

(* Where the cells of the k-th line are, and what they hold.                 *)
LEMMA LineCells ==
  ASSUME NEW cells, NEW events, Shape(cells, events)
  PROVE  \A k \in 1..Len(events) : LineAt(cells, k, events[k])
<1> SUFFICES ASSUME NEW k \in 1..Len(events)
             PROVE  LineAt(cells, k, events[k])
  OBVIOUS
<1>1. /\ cells[3 * k - 2] = [half |-> 1, of |-> events[k]]
      /\ cells[3 * k - 1] = [half |-> 2, of |-> events[k]]
      /\ cells[3 * k] = Newline
  BY DEF Shape
<1>2. cells[3 * k - 2].half = 1 /\ cells[3 * k - 1].half = 2 /\ cells[3 * k].half = 0
  BY <1>1 DEF Newline
<1>3. cells[3 * k - 2].of = events[k]
  BY <1>1
<1> QED
  BY <1>1, <1>2, <1>3 DEF LineAt, Newline

(* Reading the file.                                                       *)

(* The maximum of a set of numbers is the member above all others.           *)
LEMMA MaxIs ==
  ASSUME NEW S \in SUBSET Nat, NEW m \in S, \A x \in S : x <= m
  PROVE  Max(S) = m
<1>1. \A x \in S : (\A y \in S : x >= y) => x = m
  OBVIOUS
<1> QED
  BY <1>1 DEF Max

(* The last newline is where what is committed ends.                       *)
LEMMA CommittedEndIs ==
  ASSUME NEW cells \in Seq(Cell), NEW m \in 0..Len(cells),
         m = 0 \/ cells[m] = Newline,
         \A i \in m + 1..Len(cells) : cells[i] # Newline
  PROVE  CommittedEnd(cells) = m
<1> DEFINE S == {0} \cup {i \in DOMAIN cells : cells[i] = Newline}
<1>1. DOMAIN cells = 1..Len(cells) /\ Len(cells) \in Nat
  OBVIOUS
<1>2. S \in SUBSET Nat /\ m \in S
  BY <1>1
<1>3. \A x \in S : x <= m
  BY <1>1
<1> QED
  BY <1>2, <1>3, MaxIs DEF CommittedEnd

(* The k-th line begins at cell 3k - 2, and k lines have begun by then.    *)
Begins(n) == {3 * k - 2 : k \in 1..n}

(* As many lines begin as there are ...                                      *)
LEMMA BeginsCount ==
  ASSUME NEW n \in Nat
  PROVE  IsFiniteSet(Begins(n)) /\ Cardinality(Begins(n)) = n
<1> DEFINE f == [k \in 1..n |-> 3 * k - 2]
<1>1. f \in Bijection(1..n, Begins(n))
  BY DEF Begins, Bijection, Injection, Surjection, IsInjective
<1>2. IsFiniteSet(1..n) /\ Cardinality(1..n) = n
  BY FS_Interval
<1> QED
  BY <1>1, <1>2, FS_Bijection DEF ExistsBijection

(* ... and as many up to a place as are before it.                           *)
LEMMA BeginsUpto ==
  ASSUME NEW n \in Nat, NEW k \in 1..n
  PROVE  Begins(n) \cap (1..(3 * k - 2)) = Begins(k)
  BY DEF Begins

(* Every cell of the committed part is one of the three of a line.         *)
LEMMA Thirds ==
  ASSUME NEW n \in Nat, NEW i \in 1..3 * n
  PROVE  \E k \in 1..n : i \in {3 * k - 2, 3 * k - 1, 3 * k}
<1> DEFINE k == (i + 2) \div 3
<1>1. k \in 1..n /\ i \in {3 * k - 2, 3 * k - 1, 3 * k}
  OBVIOUS
<1> QED
  BY <1>1

(* The first halves of the committed part are where the lines begin.         *)
LEMMA BeginsAre ==
  ASSUME NEW cells, NEW events, Shape(cells, events)
  PROVE  {i \in 1..3 * Len(events) : cells[i].half = 1} = Begins(Len(events))
<1>1. PICK n \in Nat : n = Len(events)
  BY ShapeSizes
<1>0. \A k \in 1..n : LineAt(cells, k, events[k])
  BY <1>1, LineCells
<1>2. ASSUME NEW i \in 1..3 * n, cells[i].half = 1
      PROVE  i \in Begins(n)
  <2>1. PICK k \in 1..n : i \in {3 * k - 2, 3 * k - 1, 3 * k}
    BY Thirds
  <2>2. cells[3 * k - 1].half = 2 /\ cells[3 * k].half = 0
    BY <1>0 DEF LineAt
  <2> QED
    BY <1>2, <2>1, <2>2 DEF Begins
<1>3. ASSUME NEW i \in Begins(n)
      PROVE  i \in 1..3 * n /\ cells[i].half = 1
  <2>1. PICK k \in 1..n : i = 3 * k - 2
    BY DEF Begins
  <2>2. cells[3 * k - 2].half = 1
    BY <1>0 DEF LineAt
  <2> QED
    BY <2>1, <2>2
<1> QED
  BY <1>1, <1>2, <1>3

(* What a reader makes of such a file.                                     *)
LEMMA Reading ==
  ASSUME NEW cells, NEW events, Shape(cells, events)
  PROVE  /\ CommittedEnd(cells) = 3 * Len(events)
         /\ EventsOf(cells) = events
         /\ ~Corrupt(cells)
<1>1. PICK n \in Nat : n = Len(events)
  BY ShapeSizes
<1>0. \A k \in 1..n : LineAt(cells, k, events[k])
  BY <1>1, LineCells
<1>2. /\ cells \in Seq(Cell) /\ events \in Seq(Event) /\ Len(cells) \in Nat /\ 3 * n <= Len(cells)
      /\ DOMAIN cells = 1..Len(cells)
  BY <1>1, ShapeSizes
<1>3. CommittedEnd(cells) = 3 * n
  <2>1. 3 * n = 0 \/ cells[3 * n] = Newline
    <3>1. CASE n \in 1..n
      <4>1. LineAt(cells, n, events[n])
        BY <1>0, <3>1
      <4> QED
        BY <4>1 DEF LineAt
    <3>2. CASE n \notin 1..n
      BY <3>2
    <3> QED
      BY <3>1, <3>2
  <2>2. \A i \in 3 * n + 1..Len(cells) : cells[i] # Newline
    BY <1>1 DEF Shape
  <2>3. 3 * n \in 0..Len(cells)
    BY <1>2
  <2> QED
    BY <1>2, <2>1, <2>2, <2>3, CommittedEndIs
<1>4. EventsOf(cells) = [k \in 1..n |->
        cells[CHOOSE i \in Begins(n) : Cardinality(Begins(n) \cap (1..i)) = k].of]
  <2> DEFINE B == {i \in 1..CommittedEnd(cells) : cells[i].half = 1}
  <2>1. B = Begins(n)
    BY <1>1, <1>3, BeginsAre
  <2>2. Cardinality(Begins(n)) = n
    BY BeginsCount
  <2>3. EventsOf(cells) = [k \in 1..Cardinality(B) |->
          cells[CHOOSE i \in B : Cardinality(B \cap (1..i)) = k].of]
    BY DEF EventsOf
  <2> HIDE DEF B
  <2> QED
    BY <2>1, <2>2, <2>3
<1>5. ASSUME NEW k \in 1..n
      PROVE  (CHOOSE i \in Begins(n) : Cardinality(Begins(n) \cap (1..i)) = k) = 3 * k - 2
  <2>1. ASSUME NEW j \in 1..n
        PROVE  Cardinality(Begins(n) \cap (1..(3 * j - 2))) = j
    <3>1. Begins(n) \cap (1..(3 * j - 2)) = Begins(j)
      BY BeginsUpto
    <3>2. Cardinality(Begins(j)) = j
      BY BeginsCount
    <3> QED
      BY <3>1, <3>2
  <2>2. \A i \in Begins(n) : Cardinality(Begins(n) \cap (1..i)) = k => i = 3 * k - 2
    BY <2>1 DEF Begins
  <2>3. 3 * k - 2 \in Begins(n) /\ Cardinality(Begins(n) \cap (1..(3 * k - 2))) = k
    BY <2>1 DEF Begins
  <2> QED
    BY <2>2, <2>3
<1>6. EventsOf(cells) = events
  <2>1. ASSUME NEW k \in 1..n
        PROVE  EventsOf(cells)[k] = events[k]
    <3>1. EventsOf(cells)[k] = cells[3 * k - 2].of
      BY <1>4, <1>5
    <3> QED
      BY <3>1, <1>0 DEF LineAt
  <2>2. DOMAIN EventsOf(cells) = 1..n /\ EventsOf(cells) = [k \in 1..n |-> EventsOf(cells)[k]]
    BY <1>4
  <2>3. events = [k \in 1..n |-> events[k]]
    BY <1>1, <1>2
  <2> QED
    BY <2>1, <2>2, <2>3
<1>7. ASSUME NEW i \in DOMAIN cells, cells[i] = Newline
      PROVE  LineBefore(cells, i) # <<>> => /\ Len(LineBefore(cells, i)) = 2
                                            /\ LineBefore(cells, i) = Json(LineBefore(cells, i)[1].of)
  <2>1. i \in 1..3 * n
    <3>1. \A j \in 3 * n + 1..Len(cells) : cells[j] # Newline
      BY <1>1 DEF Shape
    <3> QED
      BY <1>2, <1>7, <3>1
  <2>2. PICK k \in 1..n : i \in {3 * k - 2, 3 * k - 1, 3 * k}
    BY <2>1, Thirds
  <2>3. /\ cells[3 * k - 2] = [half |-> 1, of |-> events[k]]
        /\ cells[3 * k - 1] = [half |-> 2, of |-> events[k]]
        /\ cells[3 * k - 2].of = events[k]
        /\ cells[3 * k - 2] # Newline /\ cells[3 * k - 1] # Newline
    BY <1>0 DEF LineAt
  <2>4. i = 3 * k
    BY <1>7, <2>2, <2>3
  <2> DEFINE front == SubSeq(cells, 1, i - 1)
  <2>5. /\ front \in Seq(Cell) /\ Len(front) = i - 1
        /\ \A j \in 1..i - 1 : front[j] = cells[j]
    <3>1. 1 \in Int /\ i - 1 \in Int /\ \A j \in 1..i - 1 : cells[j] \in Cell
      BY <1>2, <2>1
    <3>2. /\ front \in Seq(Cell) /\ Len(front) = IF 1 <= i - 1 THEN i - 1 - 1 + 1 ELSE 0
          /\ \A j \in 1..i - 1 - 1 + 1 : front[j] = cells[1 + j - 1]
      BY <3>1, SubSeqProperties
    <3> QED
      BY <2>1, <3>2
  <2>6. CommittedEnd(front) = 3 * k - 3
    <3>1. 3 * k - 3 \in 0..Len(front)
      BY <2>4, <2>5
    <3>2. 3 * k - 3 = 0 \/ front[3 * k - 3] = Newline
      <4>1. CASE k = 1
        BY <4>1
      <4>2. CASE k > 1
        <5>1. k - 1 \in 1..n /\ 3 * (k - 1) = 3 * k - 3
          BY <4>2
        <5>2. cells[3 * (k - 1)] = Newline
          BY <5>1, <1>0 DEF LineAt
        <5> QED
          BY <2>4, <2>5, <4>2, <5>1, <5>2
      <4> QED
        BY <2>2, <4>1, <4>2
    <3>3. \A j \in 3 * k - 3 + 1..Len(front) : front[j] # Newline
      <4>1. \A j \in 3 * k - 3 + 1..Len(front) : j = 3 * k - 2 \/ j = 3 * k - 1
        BY <2>4, <2>5
      <4>2. cells[3 * k - 2] # Newline /\ cells[3 * k - 1] # Newline
        BY <2>3
      <4> QED
        BY <2>4, <2>5, <4>1, <4>2
    <3> QED
      BY <2>5, <3>1, <3>2, <3>3, CommittedEndIs
  <2>7. LineBefore(cells, i) = SubSeq(cells, 3 * k - 2, 3 * k - 1)
    BY <2>4, <2>6 DEF LineBefore
  <2> DEFINE line == SubSeq(cells, 3 * k - 2, 3 * k - 1)
  <2>8. line \in Seq(Cell) /\ Len(line) = 2 /\ line[1] = cells[3 * k - 2] /\ line[2] = cells[3 * k - 1]
    <3>1. \A j \in 3 * k - 2..3 * k - 1 : cells[j] \in Cell
      BY <1>2, <2>1, <2>4
    <3>2. 3 * k - 2 \in Int /\ 3 * k - 1 \in Int
      BY <2>1
    <3>3. /\ line \in Seq(Cell)
          /\ Len(line) = IF 3 * k - 2 <= 3 * k - 1 THEN 3 * k - 1 - (3 * k - 2) + 1 ELSE 0
          /\ \A j \in 1..3 * k - 1 - (3 * k - 2) + 1 : line[j] = cells[3 * k - 2 + j - 1]
      BY <3>1, <3>2, SubSeqProperties
    <3>4. \A j \in {1, 2} : line[j] = cells[3 * k - 2 + j - 1]
      BY <3>2, <3>3
    <3>5. line[1] = cells[3 * k - 2 + 1 - 1] /\ line[2] = cells[3 * k - 2 + 2 - 1]
      BY <3>4
    <3>6. 3 * k - 2 + 1 - 1 = 3 * k - 2 /\ 3 * k - 2 + 2 - 1 = 3 * k - 1
          /\ 3 * k - 1 - (3 * k - 2) + 1 = 2 /\ 3 * k - 2 <= 3 * k - 1
      BY <3>2
    <3> HIDE DEF line
    <3> QED
      BY <3>3, <3>5, <3>6
  <2>9. line = <<cells[3 * k - 2], cells[3 * k - 1]>>
    <3>1. \A j \in 1..2 : line[j] = <<cells[3 * k - 2], cells[3 * k - 1]>>[j]
      BY <2>8
    <3>2. Len(line) = 2 /\ line \in Seq(Cell)
      BY <2>8
    <3> HIDE DEF line
    <3> QED
      BY <3>1, <3>2
  <2>10. line = Json(events[k]) /\ line[1].of = events[k]
    BY <2>3, <2>8, <2>9 DEF Json
  <2> QED
    BY <2>7, <2>8, <2>10
<1>8. ~Corrupt(cells)
  BY <1>7 DEF Corrupt
<1> QED
  BY <1>1, <1>3, <1>6, <1>8

(* Cutting the file and adding to it.                                      *)

(* A part of a sequence, cell by cell.                                       *)
LEMMA SubSeqIs ==
  ASSUME NEW S, NEW s \in Seq(S), NEW m \in Nat \ {0}, NEW n \in 0..Len(s), m <= n + 1
  PROVE  /\ SubSeq(s, m, n) \in Seq(S) /\ Len(SubSeq(s, m, n)) = n - m + 1
         /\ \A i \in 1..n - m + 1 : SubSeq(s, m, n)[i] = s[m + i - 1]
<1>1. Len(s) \in Nat /\ m \in Int /\ n \in Int
  BY LenProperties
<1>2. \A i \in m..n : s[i] \in S
  BY <1>1, ElementOfSeq
<1> QED
  BY <1>1, <1>2, SubSeqProperties

(* The front of a sequence, cell by cell.                                    *)
LEMMA FrontIs ==
  ASSUME NEW S, NEW s \in Seq(S), NEW n \in 0..Len(s)
  PROVE  /\ SubSeq(s, 1, n) \in Seq(S) /\ Len(SubSeq(s, 1, n)) = n
         /\ \A i \in 1..n : SubSeq(s, 1, n)[i] = s[i]
<1>1. Len(s) \in Nat
  BY LenProperties
<1>2. /\ SubSeq(s, 1, n) \in Seq(S) /\ Len(SubSeq(s, 1, n)) = n - 1 + 1
      /\ \A i \in 1..n - 1 + 1 : SubSeq(s, 1, n)[i] = s[1 + i - 1]
  BY <1>1, SubSeqIs
<1>3. n - 1 + 1 = n
  BY <1>1
<1> QED
  BY <1>1, <1>2, <1>3

(* A file cut anywhere keeps the lines it has whole.                       *)
LEMMA ShapeCut ==
  ASSUME NEW cells, NEW events, Shape(cells, events),
         NEW m \in 0..Len(cells), NEW n \in 0..Len(events),
         3 * n <= m, n = Len(events) \/ m < 3 * n + 3
  PROVE  Shape(SubSeq(cells, 1, m), SubSeq(events, 1, n))
<1> DEFINE c == SubSeq(cells, 1, m)
           ev == SubSeq(events, 1, n)
<1>1. /\ cells \in Seq(Cell) /\ Len(cells) \in Nat /\ events \in Seq(Event) /\ Len(events) \in Nat
      /\ 3 * Len(events) <= Len(cells)
  BY ShapeSizes
<1>2. c \in Seq(Cell) /\ Len(c) = m /\ \A i \in 1..m : c[i] = cells[i]
  BY <1>1, FrontIs
<1>3. ev \in Seq(Event) /\ Len(ev) = n /\ \A i \in 1..n : ev[i] = events[i]
  BY <1>1, FrontIs
<1>4. ASSUME NEW k \in 1..n
      PROVE  /\ c[3 * k - 2] = [half |-> 1, of |-> ev[k]]
             /\ c[3 * k - 1] = [half |-> 2, of |-> ev[k]]
             /\ c[3 * k] = Newline
  <2>1. LineAt(cells, k, events[k])
    BY <1>1, LineCells
  <2>2. 3 * k - 2 \in 1..m /\ 3 * k - 1 \in 1..m /\ 3 * k \in 1..m
    BY <1>1
  <2>3. c[3 * k - 2] = cells[3 * k - 2] /\ c[3 * k - 1] = cells[3 * k - 1] /\ c[3 * k] = cells[3 * k]
        /\ ev[k] = events[k]
    BY <1>2, <1>3, <2>2
  <2> QED
    BY <2>1, <2>3 DEF LineAt
<1>5. ASSUME NEW i \in 3 * n + 1..m
      PROVE  c[i] # Newline
  <2>1. i \in 1..m /\ c[i] = cells[i]
    BY <1>1, <1>2
  <2>2. CASE n = Len(events)
    <3>1. i \in 3 * Len(events) + 1..Len(cells)
      BY <1>1, <2>2
    <3> QED
      BY <2>1, <3>1 DEF Shape
  <2>3. CASE n # Len(events)
    <3>1. n + 1 \in 1..Len(events) /\ (i = 3 * (n + 1) - 2 \/ i = 3 * (n + 1) - 1)
      BY <1>1, <2>3
    <3>2. LineAt(cells, n + 1, events[n + 1])
      BY <3>1, LineCells
    <3> QED
      BY <2>1, <3>1, <3>2 DEF LineAt
  <2> QED
    BY <2>2, <2>3
<1> HIDE DEF c, ev
<1> QED
  BY <1>2, <1>3, <1>4, <1>5 DEF Shape, c, ev

(* What comes after some of the lines is the other lines.                  *)
LEMMA ShapeRest ==
  ASSUME NEW cells, NEW events, Shape(cells, events), NEW n \in 0..Len(events)
  PROVE  Shape(SubSeq(cells, 3 * n + 1, Len(cells)), SubSeq(events, n + 1, Len(events)))
<1> DEFINE c == SubSeq(cells, 3 * n + 1, Len(cells))
           ev == SubSeq(events, n + 1, Len(events))
<1>1. /\ cells \in Seq(Cell) /\ Len(cells) \in Nat /\ events \in Seq(Event) /\ Len(events) \in Nat
      /\ 3 * Len(events) <= Len(cells)
  BY ShapeSizes
<1>2. PICK a \in Nat, b \in Nat : a = Len(cells) /\ b = Len(events)
  BY <1>1
<1>3. c \in Seq(Cell) /\ Len(c) = a - 3 * n /\ \A i \in 1..a - 3 * n : c[i] = cells[3 * n + i]
  <2>1. /\ c \in Seq(Cell) /\ Len(c) = a - (3 * n + 1) + 1
        /\ \A i \in 1..a - (3 * n + 1) + 1 : c[i] = cells[3 * n + 1 + i - 1]
    <3>1. 3 * n + 1 \in Nat \ {0} /\ a \in 0..Len(cells) /\ 3 * n + 1 <= a + 1 /\ c = SubSeq(cells, 3 * n + 1, a)
      BY <1>1, <1>2
    <3> HIDE DEF c
    <3> QED
      BY <1>1, <3>1, SubSeqIs
  <2>2. a - (3 * n + 1) + 1 = a - 3 * n /\ \A i \in 1..a - 3 * n : 3 * n + 1 + i - 1 = 3 * n + i
    BY <1>2
  <2> QED
    BY <2>1, <2>2
<1>4. ev \in Seq(Event) /\ Len(ev) = b - n /\ \A i \in 1..b - n : ev[i] = events[n + i]
  <2>1. /\ ev \in Seq(Event) /\ Len(ev) = b - (n + 1) + 1
        /\ \A i \in 1..b - (n + 1) + 1 : ev[i] = events[n + 1 + i - 1]
    BY <1>1, <1>2, SubSeqIs
  <2>2. b - (n + 1) + 1 = b - n /\ \A i \in 1..b - n : n + 1 + i - 1 = n + i
    BY <1>2
  <2> QED
    BY <2>1, <2>2
<1>5. ASSUME NEW k \in 1..b - n
      PROVE  /\ c[3 * k - 2] = [half |-> 1, of |-> ev[k]]
             /\ c[3 * k - 1] = [half |-> 2, of |-> ev[k]]
             /\ c[3 * k] = Newline
  <2>1. n + k \in 1..b
    BY <1>2
  <2>2. LineAt(cells, n + k, events[n + k])
    BY <1>2, <2>1, LineCells
  <2>3. 3 * k - 2 \in 1..a - 3 * n /\ 3 * k - 1 \in 1..a - 3 * n /\ 3 * k \in 1..a - 3 * n
    BY <1>1, <1>2
  <2>4. /\ 3 * n + (3 * k - 2) = 3 * (n + k) - 2 /\ 3 * n + (3 * k - 1) = 3 * (n + k) - 1
        /\ 3 * n + 3 * k = 3 * (n + k)
    BY <1>2
  <2>5. c[3 * k - 2] = cells[3 * (n + k) - 2] /\ c[3 * k - 1] = cells[3 * (n + k) - 1]
        /\ c[3 * k] = cells[3 * (n + k)] /\ ev[k] = events[n + k]
    BY <1>3, <1>4, <2>3, <2>4
  <2> QED
    BY <2>2, <2>5 DEF LineAt
<1>6. ASSUME NEW i \in 3 * (b - n) + 1..a - 3 * n
      PROVE  c[i] # Newline
  <2>1. i \in 1..a - 3 * n /\ 3 * n + i \in 3 * b + 1..a
    BY <1>1, <1>2
  <2>2. cells[3 * n + i] # Newline
    BY <1>2, <2>1 DEF Shape
  <2> QED
    BY <1>3, <2>1, <2>2
<1>7. 3 * (b - n) <= a - 3 * n
  BY <1>1, <1>2
<1> HIDE DEF c, ev
<1> QED
  BY <1>2, <1>3, <1>4, <1>5, <1>6, <1>7 DEF Shape, c, ev

(* The three cells an append writes.                                         *)
LEMMA LineIs ==
  ASSUME NEW e \in Event
  PROVE  /\ Line(e) \in Seq(Cell) /\ Len(Line(e)) = 3
         /\ Line(e)[1] = [half |-> 1, of |-> e] /\ Line(e)[2] = [half |-> 2, of |-> e]
         /\ Line(e)[3] = Newline
<1>1. Json(e) = <<[half |-> 1, of |-> e], [half |-> 2, of |-> e]>>
  BY DEF Json
<1>2. [half |-> 1, of |-> e] \in Cell /\ [half |-> 2, of |-> e] \in Cell /\ Newline \in Cell
  BY DEF Cell, Newline
<1>3. /\ Json(e) \in Seq(Cell) /\ Len(Json(e)) = 2
      /\ Json(e)[1] = [half |-> 1, of |-> e] /\ Json(e)[2] = [half |-> 2, of |-> e]
  BY <1>1, <1>2
<1>4. PICK j \in Seq(Cell), nl \in Cell : j = Json(e) /\ nl = Newline
  BY <1>2, <1>3
<1>5. /\ Append(j, nl) \in Seq(Cell) /\ Len(Append(j, nl)) = Len(j) + 1
      /\ \A i \in 1..Len(j) : Append(j, nl)[i] = j[i]
      /\ Append(j, nl)[Len(j) + 1] = nl
  BY AppendProperties
<1>6. Line(e) = Append(j, nl)
  BY <1>4 DEF Line
<1>7. 1 \in 1..2 /\ 2 \in 1..2 /\ 2 + 1 = 3
  OBVIOUS
<1> QED
  BY <1>3, <1>4, <1>5, <1>6, <1>7

(* A line that is complete is one more event ...                           *)
LEMMA ShapeWhole ==
  ASSUME NEW cells, NEW events, Shape(cells, events), Len(cells) = 3 * Len(events),
         NEW e \in Event
  PROVE  /\ Shape(cells \o Line(e), Append(events, e))
         /\ Len(cells \o Line(e)) = 3 * Len(Append(events, e))
<1> DEFINE c == cells \o Line(e)
           ev == Append(events, e)
<1>1. PICK b \in Nat : b = Len(events)
  BY ShapeSizes
<1>2. cells \in Seq(Cell) /\ events \in Seq(Event) /\ Len(cells) = 3 * b
  BY <1>1, ShapeSizes
<1>3. /\ c \in Seq(Cell) /\ Len(c) = 3 * b + 3
      /\ \A i \in 1..3 * b : c[i] = cells[i]
      /\ \A i \in 1..3 : c[3 * b + i] = Line(e)[i]
  <2>1. Line(e) \in Seq(Cell) /\ Len(Line(e)) = 3
    BY LineIs
  <2>2. /\ c \in Seq(Cell) /\ Len(c) = Len(cells) + Len(Line(e))
        /\ \A i \in 1..Len(cells) + Len(Line(e)) :
             c[i] = IF i <= Len(cells) THEN cells[i] ELSE Line(e)[i - Len(cells)]
    BY <1>2, <2>1, ConcatProperties
  <2>3. \A i \in 1..3 * b + 3 : c[i] = IF i <= 3 * b THEN cells[i] ELSE Line(e)[i - 3 * b]
    BY <1>2, <2>1, <2>2
  <2>4. \A i \in 1..3 : 3 * b + i \in 1..3 * b + 3 /\ ~(3 * b + i <= 3 * b) /\ 3 * b + i - 3 * b = i
    OBVIOUS
  <2> HIDE DEF c
  <2>5. \A i \in 1..3 : c[3 * b + i] = Line(e)[i]
    BY <2>3, <2>4
  <2>6. \A i \in 1..3 * b : c[i] = cells[i]
    BY <2>3
  <2> QED
    BY <1>2, <2>1, <2>2, <2>5, <2>6
<1>4. /\ ev \in Seq(Event) /\ Len(ev) = b + 1 /\ ev[b + 1] = e
      /\ \A i \in 1..b : ev[i] = events[i]
  BY <1>1, <1>2, AppendProperties
<1>5. ASSUME NEW k \in 1..b + 1
      PROVE  /\ c[3 * k - 2] = [half |-> 1, of |-> ev[k]]
             /\ c[3 * k - 1] = [half |-> 2, of |-> ev[k]]
             /\ c[3 * k] = Newline
  <2>1. CASE k \in 1..b
    <3>1. LineAt(cells, k, events[k])
      BY <1>1, <2>1, LineCells
    <3>2. 3 * k - 2 \in 1..3 * b /\ 3 * k - 1 \in 1..3 * b /\ 3 * k \in 1..3 * b
      BY <2>1
    <3>3. c[3 * k - 2] = cells[3 * k - 2] /\ c[3 * k - 1] = cells[3 * k - 1]
          /\ c[3 * k] = cells[3 * k] /\ ev[k] = events[k]
      BY <1>3, <1>4, <2>1, <3>2
    <3> QED
      BY <3>1, <3>3 DEF LineAt
  <2>2. CASE k = b + 1
    <3>1. 3 * k - 2 = 3 * b + 1 /\ 3 * k - 1 = 3 * b + 2 /\ 3 * k = 3 * b + 3
      BY <2>2
    <3>2. c[3 * b + 1] = Line(e)[1] /\ c[3 * b + 2] = Line(e)[2] /\ c[3 * b + 3] = Line(e)[3]
      BY <1>3
    <3> HIDE DEF c, ev
    <3> QED
      BY <1>4, <2>2, <3>1, <3>2, LineIs
  <2>3. k \in 1..b \/ k = b + 1
    OBVIOUS
  <2> HIDE DEF c, ev
  <2> QED
    BY <2>1, <2>2, <2>3
<1>6. 3 * (b + 1) = 3 * b + 3
  OBVIOUS
<1> HIDE DEF c, ev
<1>7. \A i \in 3 * (b + 1) + 1..Len(c) : c[i] # Newline
  BY <1>3
<1>8. Shape(c, ev)
  BY <1>3, <1>4, <1>5, <1>6, <1>7 DEF Shape
<1> QED
  BY <1>3, <1>4, <1>6, <1>8 DEF c, ev

(* ... and one that stops short is none.                                   *)
LEMMA ShapePart ==
  ASSUME NEW cells, NEW events, Shape(cells, events), Len(cells) = 3 * Len(events),
         NEW e \in Event, NEW n \in 1..2
  PROVE  Shape(cells \o SubSeq(Line(e), 1, n), events)
<1> DEFINE whole == cells \o Line(e)
           part == SubSeq(Line(e), 1, n)
           more == Append(events, e)
<1>1. PICK b \in Nat : b = Len(events)
  BY ShapeSizes
<1>2. cells \in Seq(Cell) /\ events \in Seq(Event) /\ Len(cells) = 3 * b
  BY <1>1, ShapeSizes
<1>3. Shape(whole, more) /\ Len(more) = b + 1 /\ Len(whole) = 3 * b + 3
  BY <1>1, <1>2, ShapeWhole, AppendProperties
<1>4. Shape(SubSeq(whole, 1, 3 * b + n), SubSeq(more, 1, b))
  <2>1. /\ 3 * b + n \in 0..Len(whole) /\ b \in 0..Len(more)
        /\ 3 * b <= 3 * b + n /\ 3 * b + n < 3 * b + 3
    BY <1>3
  <2> HIDE DEF whole, more
  <2> QED
    BY <1>3, <2>1, ShapeCut
<1>5. Line(e) \in Seq(Cell) /\ Len(Line(e)) = 3
  BY LineIs
<1>6. part \in Seq(Cell) /\ Len(part) = n /\ \A i \in 1..n : part[i] = Line(e)[i]
  <2>1. n \in 0..Len(Line(e))
    BY <1>5
  <2> QED
    BY <1>5, <2>1, FrontIs
<1>7. SubSeq(more, 1, b) = events
  <2>1. \A i \in 1..b : more[i] = events[i]
    BY <1>1, <1>2, AppendProperties
  <2>2. more \in Seq(Event)
    BY <1>2, AppendProperties
  <2>3. /\ SubSeq(more, 1, b) \in Seq(Event) /\ Len(SubSeq(more, 1, b)) = b
        /\ \A i \in 1..b : SubSeq(more, 1, b)[i] = more[i]
    BY <1>3, <2>2, FrontIs
  <2> HIDE DEF more
  <2> QED
    BY <1>1, <1>2, <2>1, <2>3, SeqEqual
<1>8. SubSeq(whole, 1, 3 * b + n) = cells \o part
  <2> DEFINE cut == SubSeq(whole, 1, 3 * b + n)
             sum == cells \o part
  <2>1. whole \in Seq(Cell)
    BY <1>3, ShapeSizes
  <2>2. cut \in Seq(Cell) /\ Len(cut) = 3 * b + n /\ \A i \in 1..3 * b + n : cut[i] = whole[i]
    BY <1>3, <2>1, FrontIs
  <2>3. sum \in Seq(Cell) /\ Len(sum) = 3 * b + n
        /\ \A i \in 1..3 * b + n : sum[i] = IF i <= 3 * b THEN cells[i] ELSE part[i - 3 * b]
    <3>1. /\ sum \in Seq(Cell) /\ Len(sum) = Len(cells) + Len(part)
          /\ \A i \in 1..Len(cells) + Len(part) :
               sum[i] = IF i <= Len(cells) THEN cells[i] ELSE part[i - Len(cells)]
      BY <1>2, <1>6, ConcatProperties
    <3> HIDE DEF sum, part
    <3> QED
      BY <1>2, <1>6, <3>1
  <2>4. \A i \in 1..3 * b + 3 : whole[i] = IF i <= 3 * b THEN cells[i] ELSE Line(e)[i - 3 * b]
    <3>1. \A i \in 1..Len(cells) + Len(Line(e)) :
            whole[i] = IF i <= Len(cells) THEN cells[i] ELSE Line(e)[i - Len(cells)]
      BY <1>2, <1>5, ConcatProperties
    <3> HIDE DEF whole
    <3> QED
      BY <1>2, <1>5, <3>1
  <2> HIDE DEF cut, sum, whole, part
  <2>5. ASSUME NEW i \in 1..3 * b + n
        PROVE  cut[i] = sum[i]
    <3>1. CASE i <= 3 * b
      BY <2>2, <2>3, <2>4, <3>1
    <3>2. CASE ~(i <= 3 * b)
      <4>1. i - 3 * b \in 1..n /\ i \in 1..3 * b + 3
        BY <3>2
      <4> QED
        BY <1>6, <2>2, <2>3, <2>4, <3>2, <4>1
    <3> QED
      BY <3>1, <3>2
  <2>6. cut = sum
    BY <2>2, <2>3, <2>5, SeqEqual
  <2> QED
    BY <2>6 DEF cut, sum
<1> QED
  BY <1>4, <1>7, <1>8

(***************************************************************************)
(* The engine and its file.                                                *)
(***************************************************************************)

Places == {"away", "claimed", "loaded", "ready", "opened", "writing", "working"}

(* The events are numbered upwards, below the next number to be given.     *)
Numbered(events, n) ==
  /\ \A i, j \in DOMAIN events : i < j => events[i].seq < events[j].seq
  /\ \A i \in DOMAIN events : events[i].seq < n
  /\ Len(events) < n

(* The line of e is being written behind the events in memory.             *)
Writing(e) ==
  /\ Shape(file \o engine.writing, Append(known, e))
  /\ Len(file \o engine.writing) = 3 * (Len(known) + 1)
  /\ Numbered(Append(known, e), next)
  /\ engine.writing # <<>> => Shape(file, known)

Counts ==
  /\ synced \in 0..Len(file) /\ acked \in Nat /\ next \in 1..MaxEvents + 1 /\ stops \in 0..MaxStops
  /\ engine.at \in Places /\ engine.writing \in Seq(Cell) /\ known \in Seq(Event)

(* What the file holds, and where the engine may be with it: it has read   *)
(* all of it before it opens it, has cut off what is no whole line before  *)
(* it writes, and works only on what is on disk.                           *)
FileInv ==
  /\ Counts
  /\ Shape(file, EventsOf(file)) /\ Numbered(EventsOf(file), next)
  /\ 3 * acked <= synced /\ acked <= Len(EventsOf(file))
  /\ engine.at \in {"loaded", "ready", "opened", "working"} => known = EventsOf(file)
  /\ engine.at \in {"opened", "working"} => Len(file) = 3 * Len(known)
  /\ engine.at = "working" => synced = Len(file)
  /\ engine.at = "writing" => \E e \in Event : Writing(e)

(* What a step of the engine may do to the log.                            *)
LogGrows ==
  /\ \/ EventsOf(file') = EventsOf(file)
     \/ acked' = acked /\ \E e \in Event : EventsOf(file') = Append(EventsOf(file), e)
  /\ \A i \in 1..3 * Len(EventsOf(file)) : file'[i] = file[i]
  /\ acked' \in {acked, Len(EventsOf(file))}

(* An empty file is no line at all.                                          *)
LEMMA EmptyShape == Shape(<<>>, <<>>) /\ EventsOf(<<>>) = <<>>
<1>1. <<>> \in Seq(Cell) /\ <<>> \in Seq(Event) /\ Len(<<>>) = 0
  BY EmptySeq
<1>2. Shape(<<>>, <<>>)
  BY <1>1 DEF Shape
<1> QED
  BY <1>2, Reading

(* What is known of the file holds when nothing was written yet.             *)
LEMMA FileInvInit == Init => FileInv
<1> SUFFICES ASSUME Init PROVE FileInv
  OBVIOUS
<1>1. file = <<>> /\ synced = 0 /\ engine = Away /\ known = <<>> /\ acked = 0 /\ next = 1 /\ stops = 0
  BY DEF Init
<1>2. <<>> \in Seq(Cell) /\ <<>> \in Seq(Event) /\ Len(<<>>) = 0 /\ DOMAIN <<>> = {}
  BY EmptySeq
<1>3. engine.at = "away" /\ engine.writing = <<>>
  BY <1>1 DEF Away
<1>4. Shape(file, EventsOf(file)) /\ EventsOf(file) = <<>>
  BY <1>1, EmptyShape
<1>5. Numbered(EventsOf(file), next)
  BY <1>1, <1>2, <1>4 DEF Numbered
<1>6. Counts
  BY <1>1, <1>2, <1>3, BoundsAreNaturals DEF Counts, Places
<1> QED
  BY <1>1, <1>2, <1>3, <1>4, <1>5, <1>6 DEF FileInv

(* Steps that leave the file alone.                                        *)
LEMMA SameFile ==
  ASSUME FileInv, file' = file, synced' = synced, acked' = acked, next' = next,
         Counts',
         engine'.at \in {"loaded", "ready", "opened", "working"} => known' = EventsOf(file),
         engine'.at \in {"opened", "working"} => Len(file) = 3 * Len(known'),
         engine'.at = "working" => synced = Len(file),
         engine'.at # "writing"
  PROVE  FileInv' /\ LogGrows
<1>1. EventsOf(file)' = EventsOf(file)
  OBVIOUS
<1> QED
  BY <1>1 DEF FileInv, LogGrows

(* An engine at a place, or away, has nothing left to write.                 *)
LEMMA EngineIs ==
  ASSUME NEW place \in Places
  PROVE  /\ At(place).at = place /\ At(place).writing = <<>> /\ At(place).writing \in Seq(Cell)
         /\ Away.at = "away" /\ Away.writing = <<>> /\ Away.writing \in Seq(Cell)
<1>1. <<>> \in Seq(Cell)
  BY EmptySeq
<1> QED
  BY <1>1 DEF At, Away

(* Taking the lock leaves the file alone.                                    *)
LEMMA ClaimKeeps ==
  ASSUME FileInv, Claim
  PROVE  FileInv' /\ LogGrows
<1>1. engine'.at = "claimed" /\ engine'.writing \in Seq(Cell)
  BY EngineIs DEF Claim, Places
<1>2. Counts'
  BY <1>1 DEF Claim, FileInv, Counts, Places
<1> QED
  BY <1>1, <1>2, SameFile DEF Claim

(* A fresh run starts from no event.                                         *)
LEMMA BeginFreshKeeps ==
  ASSUME FileInv, BeginFresh
  PROVE  FileInv' /\ LogGrows
<1>1. engine'.at = "ready" /\ engine'.writing \in Seq(Cell)
  BY EngineIs DEF BeginFresh, Places
<1>2. known' = <<>> /\ <<>> \in Seq(Event)
  BY EmptySeq DEF BeginFresh
<1>3. EventsOf(file) = <<>>
  <2>1. Len(EventsOf(file)) < 1 /\ EventsOf(file) \in Seq(Event)
    BY DEF FileInv, Numbered, BeginFresh, Shape
  <2> QED
    BY <2>1, EmptySeq
<1>4. Counts'
  BY <1>1, <1>2 DEF BeginFresh, FileInv, Counts, Places
<1> QED
  BY <1>1, <1>2, <1>3, <1>4, SameFile DEF BeginFresh

(* An engine that opens the log remembers what it read.                      *)
LEMMA ReadLogKeeps ==
  ASSUME FileInv, ReadLog
  PROVE  FileInv' /\ LogGrows
<1>1. /\ UNCHANGED <<file, synced, acked, next, stops>>
      /\ \/ engine' = At("loaded") /\ known' = EventsOf(file)
         \/ engine' = Away /\ known' = <<>>
  BY DEF ReadLog
<1>2. EventsOf(file) \in Seq(Event) /\ <<>> \in Seq(Event)
  BY EmptySeq DEF FileInv, Shape
<1>3. /\ engine'.at \in {"loaded", "away"} /\ engine'.writing \in Seq(Cell)
      /\ engine'.at = "loaded" => known' = EventsOf(file)
  BY <1>1, EngineIs DEF Places
<1>4. Counts'
  BY <1>1, <1>2, <1>3 DEF FileInv, Counts, Places
<1> QED
  BY <1>1, <1>3, <1>4, SameFile

(* A resume's repairs leave the log alone.                                   *)
LEMMA RepairKeeps ==
  ASSUME FileInv, Repair
  PROVE  FileInv' /\ LogGrows
<1>1. engine'.at = "ready" /\ engine'.writing \in Seq(Cell)
  BY EngineIs DEF Repair, Places
<1>2. Counts'
  BY <1>1 DEF Repair, FileInv, Counts, Places
<1>3. known' = EventsOf(file)
  BY DEF Repair, FileInv
<1> QED
  BY <1>1, <1>2, <1>3, SameFile DEF Repair

(* Giving the lock back leaves the file alone.                               *)
LEMMA ReleaseKeeps ==
  ASSUME FileInv, Release
  PROVE  FileInv' /\ LogGrows
<1>1. engine'.at = "away" /\ engine'.writing \in Seq(Cell)
  BY EngineIs DEF Release, Places
<1>2. known' = <<>> /\ <<>> \in Seq(Event)
  BY EmptySeq DEF Release
<1>3. Counts'
  BY <1>1, <1>2 DEF Release, FileInv, Counts, Places
<1> QED
  BY <1>1, <1>3, SameFile DEF Release

(* A crash of the engine leaves the file as it is.                           *)
LEMMA EngineStopsKeeps ==
  ASSUME FileInv, EngineStops
  PROVE  FileInv' /\ LogGrows
<1>1. engine'.at = "away" /\ engine'.writing \in Seq(Cell)
  BY EngineIs DEF EngineStops, Places
<1>2. known' = <<>> /\ <<>> \in Seq(Event)
  BY EmptySeq DEF EngineStops
<1>3. stops' \in 0..MaxStops
  BY BoundsAreNaturals DEF EngineStops, FileInv, Counts
<1>4. Counts'
  BY <1>1, <1>2, <1>3 DEF EngineStops, FileInv, Counts, Places
<1> QED
  BY <1>1, <1>4, SameFile DEF EngineStops

(* Opening the log cuts a torn line off and no event.                        *)
LEMMA OpenLogKeeps ==
  ASSUME FileInv, OpenLog
  PROVE  FileInv' /\ LogGrows
<1>1. PICK ev \in Seq(Event) : ev = EventsOf(file) /\ Shape(file, ev)
  BY DEF FileInv, Shape
<1>2. PICK n \in Nat : n = Len(ev)
  BY <1>1, ShapeSizes
<1>3. CommittedEnd(file) = 3 * n /\ file \in Seq(Cell) /\ Len(file) \in Nat /\ 3 * n <= Len(file)
  BY <1>1, <1>2, Reading, ShapeSizes
<1>4. file' = SubSeq(file, 1, 3 * n) /\ synced' = IF synced < 3 * n THEN synced ELSE 3 * n
  BY <1>3 DEF OpenLog, Keep
<1>5. Len(file') = 3 * n /\ \A i \in 1..3 * n : file'[i] = file[i]
  <2>1. 3 * n \in 0..Len(file)
    BY <1>3
  <2> QED
    BY <1>3, <1>4, <2>1, FrontIs
<1>6. Shape(file', ev)
  <2>1. /\ 3 * n \in 0..Len(file) /\ n \in 0..Len(ev) /\ 3 * n <= 3 * n
        /\ n = Len(ev) \/ 3 * n < 3 * n + 3
    BY <1>2, <1>3
  <2>2. Shape(SubSeq(file, 1, 3 * n), SubSeq(ev, 1, n))
    BY <1>1, <2>1, ShapeCut
  <2>3. SubSeq(ev, 1, n) = ev
    BY <1>2, SubSeqFull
  <2> QED
    BY <1>4, <2>2, <2>3
<1>7. EventsOf(file') = ev
  BY <1>6, Reading
<1>8. known' = ev /\ acked' = acked /\ next' = next /\ stops' = stops /\ known' = known
      /\ engine.at = "ready" /\ engine'.at = "opened" /\ engine'.writing \in Seq(Cell)
  BY <1>1, EngineIs DEF OpenLog, FileInv, Places
<1>9. acked \in Nat /\ acked <= n /\ synced \in Nat /\ 3 * acked <= synced
  BY <1>1, <1>2, <1>3 DEF FileInv, Counts
<1>10. synced' \in 0..Len(file') /\ 3 * acked' <= synced'
  BY <1>4, <1>5, <1>8, <1>9
<1>11. Counts'
  BY <1>8, <1>9, <1>10 DEF FileInv, Counts, Places
<1>12. Numbered(ev, next)
  BY <1>1 DEF FileInv
<1>13. LogGrows
  BY <1>1, <1>2, <1>5, <1>7, <1>8 DEF LogGrows
<1> QED
  BY <1>2, <1>5, <1>6, <1>7, <1>8, <1>9, <1>10, <1>11, <1>12, <1>13 DEF FileInv

(* One event more, with the next number.                                   *)
LEMMA OneMore ==
  ASSUME NEW ev \in Seq(Event), NEW n \in Nat, Numbered(ev, n), NEW e \in Event, e.seq = n
  PROVE  Numbered(Append(ev, e), n + 1)
<1>1. PICK m \in Nat : m = Len(ev)
  OBVIOUS
<1>2. /\ DOMAIN Append(ev, e) = 1..m + 1 /\ Len(Append(ev, e)) = m + 1
      /\ \A i \in 1..m : Append(ev, e)[i] = ev[i]
      /\ Append(ev, e)[m + 1] = e
  BY <1>1, AppendProperties
<1>3. DOMAIN ev = 1..m /\ \A i \in 1..m : ev[i].seq \in Nat
  <2>1. \A i \in 1..m : ev[i] \in Event
    BY <1>1, ElementOfSeq
  <2>2. \A x \in Event : x.seq \in Nat
    BY DEF Event
  <2> QED
    BY <1>1, <2>1, <2>2, LenProperties
<1>4. \A i \in 1..m : Append(ev, e)[i].seq < n
  BY <1>2, <1>3 DEF Numbered
<1>5. \A i \in 1..m + 1 : Append(ev, e)[i].seq < n + 1
  BY <1>2, <1>3, <1>4
<1>6. \A i, j \in 1..m + 1 : i < j => Append(ev, e)[i].seq < Append(ev, e)[j].seq
  <2> SUFFICES ASSUME NEW i \in 1..m + 1, NEW j \in 1..m + 1, i < j
               PROVE  Append(ev, e)[i].seq < Append(ev, e)[j].seq
    OBVIOUS
  <2>1. i \in 1..m
    OBVIOUS
  <2>2. CASE j = m + 1
    BY <1>2, <1>4, <2>1, <2>2
  <2>3. CASE j \in 1..m
    BY <1>2, <1>3, <2>1, <2>3 DEF Numbered
  <2>4. j = m + 1 \/ j \in 1..m
    OBVIOUS
  <2> QED
    BY <2>2, <2>3, <2>4
<1>7. m + 1 < n + 1
  BY <1>1 DEF Numbered
<1> QED
  BY <1>2, <1>5, <1>6, <1>7 DEF Numbered

(* A first write and the rest together are the line.                         *)
LEMMA LeadsThree ==
  ASSUME NEW cells \in Seq(Cell), NEW e \in Event, NEW n \in 1..3
  PROVE  /\ SubSeq(Line(e), 1, n) \in Seq(Cell) /\ SubSeq(Line(e), n + 1, Len(Line(e))) \in Seq(Cell)
         /\ (cells \o SubSeq(Line(e), 1, n)) \o SubSeq(Line(e), n + 1, Len(Line(e))) = cells \o Line(e)
         /\ n = 3 => SubSeq(Line(e), 1, n) = Line(e) /\ SubSeq(Line(e), n + 1, Len(Line(e))) = <<>>
         /\ n < 3 => SubSeq(Line(e), n + 1, Len(Line(e))) # <<>>
<1>1. PICK line \in Seq(Cell) : line = Line(e) /\ Len(line) = 3
  BY LineIs
<1> DEFINE put == SubSeq(line, 1, n)
           left == SubSeq(line, n + 1, Len(line))
<1>2. put \in Seq(Cell) /\ Len(put) = n
  <2>1. n \in 0..Len(line)
    BY <1>1
  <2> QED
    BY <2>1, FrontIs
<1>3. left \in Seq(Cell) /\ Len(left) = 3 - n
  <2>1. n + 1 \in Nat \ {0} /\ 3 \in 0..Len(line) /\ n + 1 <= 3 + 1
    BY <1>1
  <2>2. SubSeq(line, n + 1, 3) \in Seq(Cell) /\ Len(SubSeq(line, n + 1, 3)) = 3 - (n + 1) + 1
    BY <2>1, SubSeqIs
  <2> QED
    BY <1>1, <2>2
<1>4. SubSeq(line, 1, Len(line)) = line
  BY SubSeqFull
<1>5. put \o left = line
  <2>1. 1 \in 1..Len(line) + 1 /\ n \in 1 - 1..Len(line) /\ Len(line) \in n..Len(line)
    BY <1>1
  <2> QED
    BY <1>4, <2>1, ConcatAdjacentSubSeq
<1> HIDE DEF put, left
<1>6. (cells \o put) \o left = cells \o line
  <2>1. put \in Seq(Cell) /\ left \in Seq(Cell)
    BY <1>2, <1>3
  <2>2. (cells \o put) \o left = cells \o (put \o left)
    BY <2>1, ConcatAssociative
  <2> QED
    BY <1>5, <2>2
<1>7. n = 3 => put = line /\ left = <<>>
  <2>1. n = 3 => put = line
    BY <1>1, <1>4 DEF put
  <2>2. n = 3 => Len(left) = 0
    BY <1>3
  <2>3. n = 3 => left = <<>>
    BY <1>3, <2>2, EmptySeq
  <2> QED
    BY <2>1, <2>3
<1>8. n < 3 => left # <<>>
  BY <1>3, EmptySeq
<1> QED
  BY <1>1, <1>2, <1>3, <1>6, <1>7, <1>8 DEF put, left

(* Events numbered below a number are below its successor.                   *)
LEMMA NumberedLater ==
  ASSUME NEW ev \in Seq(Event), NEW n \in Nat, Numbered(ev, n)
  PROVE  Numbered(ev, n + 1)
<1>1. \A i \in DOMAIN ev : ev[i].seq \in Nat
  <2>1. \A i \in DOMAIN ev : ev[i] \in Event
    BY ElementOfSeq, LenProperties
  <2> QED
    BY <2>1 DEF Event
<1>2. \A i \in DOMAIN ev : ev[i].seq < n + 1
  BY <1>1 DEF Numbered
<1>3. Len(ev) < n + 1
  BY LenProperties DEF Numbered
<1> QED
  BY <1>2, <1>3 DEF Numbered

(* A concatenation begins as its first part does.                          *)
LEMMA ConcatBegins ==
  ASSUME NEW a \in Seq(Cell), NEW b \in Seq(Cell)
  PROVE  /\ a \o b \in Seq(Cell) /\ Len(a) \in Nat /\ Len(a \o b) \in Nat
         /\ Len(a) <= Len(a \o b)
         /\ \A i \in 1..Len(a) : (a \o b)[i] = a[i]
         /\ a \o <<>> = a
<1>1. Len(a) \in Nat /\ Len(b) \in Nat
  BY LenProperties
<1>2. /\ a \o b \in Seq(Cell) /\ Len(a \o b) = Len(a) + Len(b)
      /\ \A i \in 1..Len(a) + Len(b) : (a \o b)[i] = IF i <= Len(a) THEN a[i] ELSE b[i - Len(a)]
  BY ConcatProperties
<1>3. \A i \in 1..Len(a) : i \in 1..Len(a) + Len(b) /\ i <= Len(a)
  BY <1>1
<1> QED
  BY <1>1, <1>2, <1>3, ConcatEmptySeq

(* The first bytes of an append.                                             *)
LEMMA FirstWriteKeeps ==
  ASSUME FileInv, NEW kind \in Kind, next <= MaxEvents, Appendable(kind), NEW n \in 1..3,
         NEW line, line = Line([kind |-> kind, seq |-> next]),
         file' = file \o SubSeq(line, 1, n),
         engine' = [at |-> "writing", writing |-> SubSeq(line, n + 1, Len(line))],
         next' = next + 1, UNCHANGED <<synced, known, acked, stops>>
  PROVE  FileInv' /\ LogGrows
<1>1. PICK ev \in Seq(Event) : ev = EventsOf(file) /\ Shape(file, ev)
  BY DEF FileInv, Shape
<1>2. PICK b \in Nat : b = Len(ev)
  BY <1>1, ShapeSizes
<1>3. engine.at \in {"opened", "working"}
  BY DEF Appendable
<1>4. known = ev /\ Len(file) = 3 * b /\ file \in Seq(Cell)
  BY <1>1, <1>2, <1>3, ShapeSizes DEF FileInv
<1>5. next \in Nat /\ next \in 1..MaxEvents /\ MaxEvents \in Nat
  BY BoundsAreNaturals DEF FileInv, Counts
<1>6. PICK e \in Event : e = [kind |-> kind, seq |-> next] /\ e.seq = next
  BY <1>5 DEF Event
<1>7. Numbered(ev, next) /\ Numbered(ev, next + 1) /\ Numbered(Append(ev, e), next + 1)
  BY <1>1, <1>5, <1>6, OneMore, NumberedLater DEF FileInv
<1>8. Shape(file \o Line(e), Append(ev, e)) /\ Len(file \o Line(e)) = 3 * Len(Append(ev, e))
  BY <1>1, <1>2, <1>4, ShapeWhole
<1>9. PICK more \in Seq(Event) : more = Append(ev, e) /\ Len(more) = b + 1
  BY <1>2, AppendProperties
<1>10. /\ SubSeq(line, 1, n) \in Seq(Cell) /\ engine'.writing \in Seq(Cell) /\ engine'.at = "writing"
       /\ file' \o engine'.writing = file \o Line(e)
       /\ n = 3 => file' = file \o Line(e) /\ engine'.writing = <<>>
       /\ n < 3 => engine'.writing # <<>>
  BY <1>4, <1>6, LeadsThree
<1>11. /\ file' \in Seq(Cell) /\ Len(file') \in Nat /\ 3 * b <= Len(file')
       /\ \A i \in 1..3 * b : file'[i] = file[i]
  BY <1>4, <1>10, ConcatBegins
<1>12. /\ n = 3 => Shape(file', more)
       /\ n < 3 => Shape(file', ev)
  <2>1. n = 3 => Shape(file', more)
    BY <1>8, <1>9, <1>10
  <2>2. ASSUME n < 3
        PROVE  Shape(file', ev)
    <3>1. n \in 1..2
      BY <2>2
    <3> QED
      BY <1>1, <1>2, <1>4, <1>6, <3>1, ShapePart
  <2> QED
    BY <2>1, <2>2
<1>13. PICK ev2 \in Seq(Event) : ev2 = EventsOf(file') /\ Shape(file', ev2)
                                /\ (ev2 = ev \/ ev2 = more) /\ (n < 3 => ev2 = ev)
  <2>1. CASE n < 3
    <3>1. Shape(file', ev)
      BY <1>12, <2>1
    <3>2. EventsOf(file') = ev
      BY <3>1, Reading
    <3> QED
      BY <3>1, <3>2
  <2>2. CASE ~(n < 3)
    <3>1. n = 3
      BY <2>2
    <3>2. Shape(file', more)
      BY <1>12, <3>1
    <3>3. EventsOf(file') = more
      BY <3>2, Reading
    <3> QED
      BY <1>9, <2>2, <3>2, <3>3
  <2> QED
    BY <2>1, <2>2
<1>14. Numbered(ev2, next') /\ Len(ev2) \in Nat /\ b <= Len(ev2)
  <2>1. Numbered(more, next + 1) /\ next' = next + 1
    BY <1>7, <1>9
  <2>2. Numbered(ev2, next')
    BY <1>7, <1>13, <2>1
  <2> QED
    BY <1>2, <1>9, <1>13, <2>2
<1>15. Writing(e)'
  <2>1. known' = ev /\ Len(known') = b /\ Append(known', e) = more
    BY <1>2, <1>4, <1>9
  <2>2. Shape(file' \o engine'.writing, more) /\ Len(file' \o engine'.writing) = 3 * (b + 1)
    BY <1>8, <1>9, <1>10
  <2>3. Numbered(more, next')
    BY <1>7, <1>9
  <2>4. engine'.writing # <<>> => Shape(file', known')
    <3>1. engine'.writing # <<>> => n < 3
      BY <1>10
    <3> QED
      BY <1>12, <2>1, <3>1
  <2> QED
    BY <2>1, <2>2, <2>3, <2>4 DEF Writing
<1>16. /\ synced' \in 0..Len(file') /\ acked' \in Nat /\ acked' <= Len(ev2)
       /\ 3 * acked' <= synced'
  BY <1>1, <1>2, <1>4, <1>11, <1>14 DEF FileInv, Counts
<1>17. Counts'
  BY <1>5, <1>10, <1>16 DEF FileInv, Counts, Places
<1>18. LogGrows
  <2>1. EventsOf(file') = EventsOf(file) \/ EventsOf(file') = Append(EventsOf(file), e)
    BY <1>1, <1>9, <1>13
  <2> QED
    BY <1>1, <1>2, <1>11, <2>1 DEF LogGrows
<1> QED
  BY <1>10, <1>13, <1>14, <1>15, <1>16, <1>17, <1>18 DEF FileInv

(* The rest of an append, when part of its line is there already.            *)
LEMMA RestWriteKeeps ==
  ASSUME FileInv, engine.at = "writing", engine.writing # <<>>,
         file' = file \o engine.writing, engine' = At("writing"),
         UNCHANGED <<synced, known, acked, next, stops>>
  PROVE  FileInv' /\ LogGrows
<1>1. PICK e \in Event : Writing(e)
  BY DEF FileInv
<1>2. Shape(file, known) /\ Shape(file', Append(known, e)) /\ Len(file') = 3 * (Len(known) + 1)
      /\ Numbered(Append(known, e), next)
  BY <1>1 DEF Writing
<1>3. PICK ev \in Seq(Event), b \in Nat : ev = known /\ b = Len(ev) /\ EventsOf(file) = ev
  BY <1>2, Reading, ShapeSizes
<1>4. PICK more \in Seq(Event) : /\ more = Append(known, e) /\ Len(more) = b + 1
                                /\ Shape(file', more) /\ EventsOf(file') = more
  <2>0. Append(ev, e) \in Seq(Event) /\ Len(Append(ev, e)) = Len(ev) + 1
    BY AppendProperties
  <2>1. PICK more \in Seq(Event) : more = Append(known, e) /\ Len(more) = b + 1
    BY <1>3, <2>0
  <2>2. Shape(file', more)
    BY <1>2, <2>1
  <2>3. EventsOf(file') = more
    BY <2>2, Reading
  <2> QED
    BY <2>1, <2>2, <2>3
<1>5. engine'.at = "writing" /\ engine'.writing = <<>> /\ engine'.writing \in Seq(Cell)
  BY EngineIs DEF Places
<1>6. /\ file \in Seq(Cell) /\ 3 * b <= Len(file) /\ file' \in Seq(Cell)
      /\ engine.writing \in Seq(Cell)
  BY <1>2, <1>3, ShapeSizes DEF FileInv, Counts
<1>7. /\ Len(file) \in Nat /\ Len(file') \in Nat /\ Len(file) <= Len(file')
      /\ \A i \in 1..Len(file) : file'[i] = file[i]
      /\ file' \o <<>> = file'
  BY <1>6, ConcatBegins
<1>8. Writing(e)'
  BY <1>2, <1>5, <1>7 DEF Writing
<1>9. /\ synced' \in 0..Len(file') /\ acked' \in Nat /\ acked' <= b + 1 /\ 3 * acked' <= synced'
  BY <1>3, <1>7 DEF FileInv, Counts
<1>10. Counts'
  BY <1>5, <1>9 DEF FileInv, Counts, Places
<1>11. LogGrows
  <2>1. \A i \in 1..3 * b : file'[i] = file[i]
    BY <1>6, <1>7
  <2> QED
    BY <1>3, <1>4, <2>1 DEF LogGrows
<1> QED
  BY <1>2, <1>3, <1>4, <1>5, <1>8, <1>9, <1>10, <1>11 DEF FileInv

(* Either way a write keeps what is known of the file.                       *)
LEMMA WriteSomeKeeps ==
  ASSUME FileInv, WriteSome
  PROVE  FileInv' /\ LogGrows
<1>1. CASE /\ engine.at = "writing" /\ engine.writing # <<>>
           /\ file' = file \o engine.writing
           /\ engine' = At("writing")
           /\ UNCHANGED <<synced, known, acked, next, stops>>
  BY <1>1, RestWriteKeeps
<1>2. ASSUME NEW kind \in Kind, next <= MaxEvents, Appendable(kind),
             LET line == Line([kind |-> kind, seq |-> next]) IN
               \E n \in 1..Len(line) :
                 /\ file' = file \o SubSeq(line, 1, n)
                 /\ engine' = [at |-> "writing", writing |-> SubSeq(line, n + 1, Len(line))],
             next' = next + 1, UNCHANGED <<synced, known, acked, stops>>
      PROVE  FileInv' /\ LogGrows
  <2>1. PICK line : line = Line([kind |-> kind, seq |-> next])
    OBVIOUS
  <2>2. Len(line) = 3
    <3>1. [kind |-> kind, seq |-> next] \in Event
      BY <1>2 DEF Event, FileInv, Counts
    <3> QED
      BY <2>1, <3>1, LineIs
  <2>3. PICK n \in 1..3 : /\ file' = file \o SubSeq(line, 1, n)
                          /\ engine' = [at |-> "writing", writing |-> SubSeq(line, n + 1, Len(line))]
    BY <1>2, <2>1, <2>2
  <2> QED
    BY <1>2, <2>1, <2>3, FirstWriteKeeps
<1> QED
  BY <1>1, <1>2 DEF WriteSome

(* What a sync has put on disk is acknowledged and remembered.               *)
LEMMA SyncKeeps ==
  ASSUME FileInv, Sync
  PROVE  FileInv' /\ LogGrows
<1>1. engine.at = "writing" /\ engine.writing = <<>> /\ UNCHANGED <<file, next, stops>>
  BY DEF Sync
<1>2. PICK e \in Event : Writing(e)
  BY <1>1 DEF FileInv
<1>3. file \in Seq(Cell) /\ known \in Seq(Event)
  BY ShapeSizes DEF FileInv, Counts
<1>4. file \o engine.writing = file
  BY <1>1, <1>3, ConcatEmptySeq
<1>5. Shape(file, Append(known, e)) /\ Len(file) = 3 * (Len(known) + 1)
  BY <1>2, <1>4 DEF Writing
<1>6. PICK ev \in Seq(Event), b \in Nat : ev = Append(known, e) /\ b = Len(ev) /\ EventsOf(file) = ev
                                          /\ Len(file) = 3 * b /\ ev[b] = e
  <2>1. /\ Append(known, e) \in Seq(Event) /\ Len(Append(known, e)) = Len(known) + 1
        /\ Append(known, e)[Len(known) + 1] = e /\ Len(known) \in Nat
    BY <1>3, AppendProperties, LenProperties
  <2>2. EventsOf(file) = Append(known, e)
    BY <1>5, Reading
  <2>3. PICK ev \in Seq(Event) : ev = Append(known, e)
    BY <2>1
  <2>4. Len(ev) \in Nat /\ Len(ev) = Len(known) + 1 /\ ev[Len(ev)] = e /\ EventsOf(file) = ev
    BY <2>1, <2>2, <2>3
  <2> QED
    BY <1>5, <2>3, <2>4
<1>7. Last(EventsOf(file)) = e
  BY <1>6 DEF Last
<1>8. /\ known' = ev /\ acked' = b /\ synced' = 3 * b
      /\ engine'.at = "working" /\ engine'.writing \in Seq(Cell)
  BY <1>6, <1>7, EngineIs DEF Sync, Synced, Places
<1>9. EventsOf(file)' = ev /\ Len(file') = 3 * b
  BY <1>1, <1>6
<1>10. Counts'
  BY <1>1, <1>8, <1>9 DEF FileInv, Counts, Places
<1>11. LogGrows
  BY <1>1, <1>6, <1>8 DEF LogGrows
<1>12. (Shape(file, EventsOf(file)) /\ Numbered(EventsOf(file), next))'
  BY <1>1 DEF FileInv
<1> QED
  BY <1>6, <1>8, <1>9, <1>10, <1>11, <1>12 DEF FileInv

(* Every step of an engine keeps what is known of the file.                  *)
LEMMA WriterKeeps ==
  ASSUME FileInv, Writer
  PROVE  FileInv' /\ LogGrows
BY ClaimKeeps, BeginFreshKeeps, ReadLogKeeps, RepairKeeps, OpenLogKeeps, WriteSomeKeeps, SyncKeeps,
   ReleaseKeeps, EngineStopsKeeps DEF Writer

(* Any part of the file that has all of what is on disk has every          *)
(* acknowledged event.                                                     *)
LEMMA CutKeeps ==
  ASSUME FileInv, NEW m \in synced..Len(file)
  PROVE  \E n \in acked..Len(EventsOf(file)) :
           /\ Shape(SubSeq(file, 1, m), SubSeq(EventsOf(file), 1, n))
           /\ EventsOf(SubSeq(file, 1, m)) = SubSeq(EventsOf(file), 1, n)
           /\ Len(SubSeq(file, 1, m)) = m
           /\ SubSeq(EventsOf(file), 1, n) \in Seq(Event) /\ Len(SubSeq(EventsOf(file), 1, n)) = n
           /\ \A i \in 1..n : SubSeq(EventsOf(file), 1, n)[i] = EventsOf(file)[i]
<1>1. PICK ev \in Seq(Event) : ev = EventsOf(file) /\ Shape(file, ev)
  BY DEF FileInv, Shape
<1>2. PICK b \in Nat : b = Len(ev)
  BY <1>1, ShapeSizes
<1>3. file \in Seq(Cell) /\ Len(file) \in Nat /\ 3 * b <= Len(file)
  BY <1>1, <1>2, ShapeSizes
<1>5. /\ synced \in 0..Len(file) /\ acked \in Nat /\ 3 * acked <= synced /\ acked <= b
  BY <1>1, <1>2 DEF FileInv, Counts
<1>6. PICK n \in acked..b : 3 * n <= m /\ (n = b \/ m < 3 * n + 3)
  <2>1. CASE 3 * b <= m
    BY <1>5, <2>1
  <2>2. CASE ~(3 * b <= m)
    <3> DEFINE n == m \div 3
    <3>1. n \in acked..b /\ 3 * n <= m /\ m < 3 * n + 3
      BY <1>3, <1>5, <2>2
    <3> QED
      BY <3>1
  <2> QED
    BY <2>1, <2>2
<1>7. /\ m \in 0..Len(file) /\ n \in 0..Len(ev) /\ 3 * n <= m /\ (n = Len(ev) \/ m < 3 * n + 3)
  BY <1>2, <1>3, <1>5, <1>6
<1>8. /\ SubSeq(ev, 1, n) \in Seq(Event) /\ Len(SubSeq(ev, 1, n)) = n
      /\ \A i \in 1..n : SubSeq(ev, 1, n)[i] = ev[i]
  BY <1>7, FrontIs
<1>9. Shape(SubSeq(file, 1, m), SubSeq(ev, 1, n))
  BY <1>1, <1>7, ShapeCut
<1>10. EventsOf(SubSeq(file, 1, m)) = SubSeq(ev, 1, n)
  BY <1>9, Reading
<1>11. Len(SubSeq(file, 1, m)) = m
  BY <1>3, <1>7, FrontIs
<1> QED
  BY <1>1, <1>2, <1>6, <1>8, <1>9, <1>10, <1>11

(* A power loss leaves some of the cells, and no event less than the       *)
(* acknowledged ones.                                                      *)
LEMMA PowerLossKeeps ==
  ASSUME FileInv, PowerLoss
  PROVE  /\ FileInv'
         /\ \E n \in acked..Len(EventsOf(file)) : EventsOf(file') = SubSeq(EventsOf(file), 1, n)
<1>1. PICK ev \in Seq(Event), b \in Nat : ev = EventsOf(file) /\ b = Len(ev)
  BY LenProperties DEF FileInv, Shape
<1>2. PICK m \in synced..Len(file) : file' = SubSeq(file, 1, m) /\ synced' = m
  BY DEF PowerLoss
<1>3. /\ Len(file) \in Nat /\ synced \in 0..Len(file) /\ acked \in Nat /\ 3 * acked <= synced
      /\ acked <= b /\ next \in Nat
  BY <1>1, ShapeSizes DEF FileInv, Counts
<1>4. PICK n \in acked..b : /\ Shape(SubSeq(file, 1, m), SubSeq(ev, 1, n))
                            /\ EventsOf(SubSeq(file, 1, m)) = SubSeq(ev, 1, n)
                            /\ Len(SubSeq(file, 1, m)) = m
                            /\ SubSeq(ev, 1, n) \in Seq(Event) /\ Len(SubSeq(ev, 1, n)) = n
                            /\ \A i \in 1..n : SubSeq(ev, 1, n)[i] = ev[i]
  BY <1>1, CutKeeps
<1>5. PICK ev2 \in Seq(Event) : ev2 = SubSeq(ev, 1, n)
  BY <1>4
<1>6. Shape(file', ev2) /\ EventsOf(file') = ev2 /\ Len(file') = m
  BY <1>2, <1>4, <1>5
<1>7. Numbered(ev2, next)
  <2>1. Numbered(ev, next) /\ DOMAIN ev = 1..b /\ DOMAIN ev2 = 1..n
    BY <1>1, <1>4, <1>5, LenProperties DEF FileInv
  <2>2. \A i \in 1..n : i \in 1..b
    BY <1>3, <1>4
  <2>3. n < next
    BY <1>1, <1>3, <1>4, <2>1 DEF Numbered
  <2>4. \A i \in 1..n : ev2[i] = ev[i]
    BY <1>4, <1>5
  <2>5. Len(ev2) = n
    BY <1>4, <1>5
  <2> QED
    BY <2>1, <2>2, <2>3, <2>4, <2>5 DEF Numbered
<1>8. /\ engine'.at = "away" /\ engine'.writing \in Seq(Cell) /\ known' \in Seq(Event)
      /\ stops' \in 0..MaxStops /\ next' = next /\ acked' = acked
  <2>1. engine' = Away /\ known' = <<>> /\ stops < MaxStops /\ stops' = stops + 1
        /\ next' = next /\ acked' = acked
    BY DEF PowerLoss
  <2>2. engine'.at = "away" /\ engine'.writing \in Seq(Cell) /\ known' \in Seq(Event)
    BY <2>1, EngineIs, EmptySeq DEF Places
  <2>3. stops' \in 0..MaxStops
    BY <2>1, BoundsAreNaturals DEF FileInv, Counts
  <2> QED
    BY <2>1, <2>2, <2>3
<1>9. synced' \in 0..Len(file') /\ 3 * acked <= synced'
  BY <1>2, <1>3, <1>6
<1>10. Counts'
  BY <1>3, <1>8, <1>9 DEF FileInv, Counts, Places
<1>11. acked' <= Len(EventsOf(file'))
  BY <1>3, <1>4, <1>5, <1>6, <1>8
<1>12. FileInv'
  BY <1>6, <1>7, <1>8, <1>9, <1>10, <1>11 DEF FileInv
<1> QED
  BY <1>1, <1>4, <1>5, <1>6, <1>12

(***************************************************************************)
(* What the work rests on.                                                 *)
(***************************************************************************)

(* A live engine past its repairs rests on the log in its memory; and of   *)
(* all that was ever rested on, what was acknowledged is in the log.       *)
RestsInv ==
  /\ rests \in Seq(Event)
  /\ engine.at \in {"ready", "opened", "writing", "working"} => rests = known
  /\ \A i \in DOMAIN rests :
       i <= acked => i \in DOMAIN EventsOf(file) /\ EventsOf(file)[i] = rests[i]

(* The log grows behind the work, and only a sync acknowledges more.       *)
LEMMA WriterUnderWork ==
  ASSUME FileInv, RestsInv, Writer, FileInv', LogGrows, Acts
  PROVE  RestsInv'
<1>1. PICK ev \in Seq(Event), b \in Nat : ev = EventsOf(file) /\ b = Len(ev) /\ DOMAIN ev = 1..b
  BY LenProperties DEF FileInv, Shape
<1>2. PICK ev2 \in Seq(Event), c \in Nat : ev2 = EventsOf(file') /\ c = Len(ev2) /\ DOMAIN ev2 = 1..c
  BY LenProperties DEF FileInv, Shape
<1>3. CASE engine'.at \in {"ready", "working"}
  <2>1. rests' = known' /\ known' = ev2
    BY <1>2, <1>3 DEF Acts, FileInv
  <2> QED
    BY <1>2, <1>3, <2>1 DEF RestsInv
<1>4. CASE engine'.at \notin {"ready", "working"}
  <2>1. rests' = rests
    BY <1>4 DEF Acts
  <2>2. /\ acked' = acked
        /\ engine'.at \in {"opened", "writing"} =>
             known' = known /\ engine.at \in {"ready", "opened", "writing", "working"}
    <3>1. CASE Claim \/ ReadLog \/ Release \/ EngineStops
      BY <3>1, EngineIs DEF Claim, ReadLog, Release, EngineStops, Places
    <3>2. CASE BeginFresh \/ Repair \/ Sync
      BY <1>4, <3>2, EngineIs DEF BeginFresh, Repair, Sync, Places
    <3>3. CASE OpenLog
      BY <3>3 DEF OpenLog
    <3>4. CASE WriteSome
      BY <3>4 DEF WriteSome, Appendable
    <3> QED
      BY <3>1, <3>2, <3>3, <3>4 DEF Writer
  <2>3. b <= c /\ \A i \in 1..b : ev2[i] = ev[i]
    <3>1. ev2 = ev \/ \E e \in Event : ev2 = Append(ev, e)
      BY <1>1, <1>2 DEF LogGrows
    <3>2. ASSUME NEW e \in Event, ev2 = Append(ev, e)
          PROVE  c = b + 1 /\ \A i \in 1..b : ev2[i] = ev[i]
      BY <1>1, <1>2, <3>2, AppendProperties
    <3> QED
      BY <1>1, <1>2, <3>1, <3>2
  <2>4. \A i \in DOMAIN rests : i <= acked => i \in 1..b /\ ev[i] = rests[i]
    BY <1>1 DEF RestsInv
  <2>5. \A i \in DOMAIN rests' : i <= acked' => i \in 1..c /\ ev2[i] = rests'[i]
    BY <2>1, <2>2, <2>3, <2>4
  <2>6. engine'.at \in {"ready", "opened", "writing", "working"} => rests' = known'
    BY <1>4, <2>1, <2>2 DEF RestsInv
  <2> QED
    BY <1>2, <2>1, <2>5, <2>6 DEF RestsInv
<1> QED
  BY <1>3, <1>4

(* What a power loss leaves of the log has all that was acknowledged.      *)
LEMMA PowerLossUnderWork ==
  ASSUME FileInv, RestsInv, PowerLoss
  PROVE  RestsInv'
<1>1. PICK ev \in Seq(Event), b \in Nat : ev = EventsOf(file) /\ b = Len(ev) /\ DOMAIN ev = 1..b
  BY LenProperties DEF FileInv, Shape
<1>2. PICK n \in acked..b : EventsOf(file') = SubSeq(ev, 1, n)
  BY <1>1, PowerLossKeeps
<1>3. acked \in Nat
  BY DEF FileInv, Counts
<1>4. PICK ev2 \in Seq(Event) : /\ ev2 = SubSeq(ev, 1, n) /\ DOMAIN ev2 = 1..n
                                /\ \A i \in 1..n : ev2[i] = ev[i]
  <2>1. n \in 0..Len(ev)
    BY <1>1, <1>3
  <2>2. PICK ev2 \in Seq(Event) : /\ ev2 = SubSeq(ev, 1, n) /\ Len(ev2) = n
                                  /\ \A i \in 1..n : ev2[i] = ev[i]
    BY <2>1, FrontIs
  <2>3. DOMAIN ev2 = 1..n
    BY <2>2, LenProperties
  <2> QED
    BY <2>2, <2>3
<1>5. rests' = rests /\ acked' = acked /\ engine'.at = "away"
  BY EngineIs DEF PowerLoss, Places
<1>6. \A i \in DOMAIN rests : i <= acked => i \in 1..b /\ ev[i] = rests[i]
  BY <1>1 DEF RestsInv
<1>7. \A i \in DOMAIN rests : i <= acked => i \in 1..n /\ ev2[i] = rests[i]
  BY <1>2, <1>3, <1>4, <1>6
<1> QED
  BY <1>2, <1>4, <1>5, <1>7 DEF RestsInv

(***************************************************************************)
(* The snapshot readers.                                                   *)
(***************************************************************************)

ReaderPlaces == {"idle", "first", "probe", "again", "second", "same", "changed",
                 "live", "dead", "refused"}
ReaderType == [at : ReaderPlaces, as : {"status", "export", "follower"}, heldBefore : BOOLEAN,
               first : Seq(Cell), round : 0..MaxSnapshotAttempts]

(* What was read first is how the log began.                               *)
Behind(first) ==
  /\ Shape(first, EventsOf(first)) /\ Len(EventsOf(first)) <= Len(EventsOf(file))
  /\ \A i \in 1..3 * Len(EventsOf(first)) : file[i] = first[i]

(* Once the reader found nobody there, either the log was what it had read *)
(* then, or there is more in it by now and will ever be.                   *)
ReaderInv ==
  /\ reader \in ReaderType /\ still \in BOOLEAN
  /\ reader.as = "follower" => reader.at = "idle"
  /\ reader.at \in {"probe", "second", "same"} => Behind(reader.first)
  /\ reader.at = "second" => still \/ Len(EventsOf(reader.first)) < Len(EventsOf(file))
  /\ reader.at \in {"same", "dead"} => still

Watched == {"probe", "second", "same", "changed", "dead"}

(* An instant at which nobody drove stays one.                               *)
LEMMA StillStays ==
  ASSUME Watch
  PROVE  /\ still' \in BOOLEAN
         /\ still /\ reader'.at \in Watched => still'
         /\ engine'.at = "away" /\ Committed(file') = Committed(reader'.first) /\ reader'.at \in Watched
              => still'
BY DEF Watch, Watched

(* The log grows under the reader, or is left as it was.                   *)
LEMMA WriterUnderReader ==
  ASSUME FileInv, ReaderInv, FileInv', LogGrows, reader' = reader, Watch
  PROVE  ReaderInv'
<1>1. PICK ev \in Seq(Event), b \in Nat : ev = EventsOf(file) /\ b = Len(ev)
  BY LenProperties DEF FileInv, Shape
<1>2. PICK ev2 \in Seq(Event), c \in Nat : ev2 = EventsOf(file') /\ c = Len(ev2)
  BY LenProperties DEF FileInv, Shape
<1>3. b <= c
  <2>1. ev2 = ev \/ \E e \in Event : ev2 = Append(ev, e)
    BY <1>1, <1>2 DEF LogGrows
  <2>2. ASSUME NEW e \in Event, ev2 = Append(ev, e)
        PROVE  c = b + 1
    BY <1>1, <1>2, <2>2, AppendProperties
  <2> QED
    BY <1>1, <1>2, <2>1, <2>2
<1>4. \A i \in 1..3 * b : file'[i] = file[i]
  BY <1>1 DEF LogGrows
<1>5. ASSUME Behind(reader.first)
      PROVE  Behind(reader.first)'
  <2>1. PICK f : f = reader.first /\ reader'.first = f
    OBVIOUS
  <2>2. PICK d \in Nat : d = Len(EventsOf(f)) /\ d <= b
    BY <1>1, <1>5, <2>1, ShapeSizes DEF Behind
  <2>3. \A i \in 1..3 * d : file'[i] = f[i]
    <3>1. \A i \in 1..3 * d : i \in 1..3 * b /\ file[i] = f[i]
      BY <1>1, <1>5, <2>1, <2>2 DEF Behind
    <3> QED
      BY <1>4, <3>1
  <2>4. Shape(f, EventsOf(f))
    BY <1>5, <2>1 DEF Behind
  <2>5. d <= c
    BY <1>3, <2>2
  <2> QED
    BY <1>2, <2>1, <2>2, <2>3, <2>4, <2>5 DEF Behind
<1>6. ASSUME reader.at = "second"
      PROVE  still' \/ Len(EventsOf(reader'.first)) < c
  <2>1. Behind(reader.first)
    BY <1>6 DEF ReaderInv
  <2>2. Len(EventsOf(reader.first)) \in Nat
    BY <2>1, ShapeSizes DEF Behind
  <2>3. still \/ Len(EventsOf(reader.first)) < b
    BY <1>1, <1>6 DEF ReaderInv
  <2>4. still => still'
    BY <1>6, StillStays DEF Watched
  <2> QED
    BY <1>3, <2>2, <2>3, <2>4
<1>7. reader.at \in {"same", "dead"} => still'
  BY StillStays DEF ReaderInv, Watched
<1> QED
  BY <1>2, <1>5, <1>6, <1>7, StillStays DEF ReaderInv

(* Giving up or answering moves the reader and forgets nothing else.         *)
LEMMA GiveDoes ==
  ASSUME reader \in ReaderType, NEW result \in ReaderPlaces, Give(result)
  PROVE  /\ reader' \in ReaderType /\ reader'.at = result /\ reader'.as = reader.as
         /\ reader'.first = reader.first
BY DEF Give, ReaderType

(* The reader's own steps.                                                 *)
LEMMA ReaderSteps ==
  ASSUME FileInv, ReaderInv, Reader, UNCHANGED <<writerVars, tail>>, Watch
  PROVE  ReaderInv'
<1>1. file' = file /\ engine' = engine /\ EventsOf(file)' = EventsOf(file)
  BY DEF writerVars
<1>2. PICK ev \in Seq(Event), b \in Nat : ev = EventsOf(file) /\ b = Len(ev)
  BY LenProperties DEF FileInv, Shape
<1>3. reader \in ReaderType /\ (reader.as = "follower" => reader.at = "idle") /\ still \in BOOLEAN
  BY DEF ReaderInv
<1>4. ASSUME Behind(reader.first), reader'.first = reader.first
      PROVE  Behind(reader.first)'
  BY <1>1, <1>4 DEF Behind
<1>5. ASSUME reader' \in ReaderType, reader'.as = "follower" => reader'.at = "idle",
             reader'.at \notin {"probe", "second", "same", "dead"}
      PROVE  ReaderInv'
  BY <1>5, StillStays DEF ReaderInv
<1>6. CASE Probe1
  <2>1. reader.as \in {"status", "export"}
    BY <1>6 DEF Probe1
  <2>2. CASE Give("refused")
    <3>1. /\ reader' \in ReaderType /\ reader'.at = "refused" /\ reader'.as = reader.as
      BY <1>3, <2>2, GiveDoes DEF ReaderPlaces
    <3> QED
      BY <1>5, <2>1, <3>1
  <2>3. CASE reader' = [reader EXCEPT !.at = "first", !.heldBefore = Held, !.round = 1]
    <3>1. Held \in BOOLEAN /\ 1 \in 0..MaxSnapshotAttempts
      BY BoundsAreNaturals DEF Held
    <3>2. reader' \in ReaderType /\ reader'.at = "first" /\ reader'.as = reader.as
      BY <1>3, <2>3, <3>1 DEF ReaderType, ReaderPlaces
    <3> QED
      BY <1>5, <2>1, <3>2
  <2> QED
    BY <1>6, <2>2, <2>3 DEF Probe1
<1>7. CASE ReadFirst
  <2>1. reader.at = "first" /\ reader' = [reader EXCEPT !.at = "probe", !.first = file]
    BY <1>7 DEF ReadFirst
  <2>2. file \in Seq(Cell)
    BY ShapeSizes DEF FileInv
  <2>3. /\ reader' \in ReaderType /\ reader'.at = "probe" /\ reader'.as = reader.as
        /\ reader'.first = file
    BY <1>3, <2>1, <2>2 DEF ReaderType, ReaderPlaces
  <2>4. Behind(file)
    BY <1>2 DEF Behind, FileInv
  <2>5. Behind(reader.first)'
    BY <1>1, <2>3, <2>4 DEF Behind
  <2> QED
    BY <1>3, <2>1, <2>3, <2>5, StillStays DEF ReaderInv
<1>8. CASE StatusProbe \/ ExportProbe
  <2>1. reader.at = "probe" /\ Behind(reader.first)
    BY <1>8 DEF StatusProbe, ExportProbe, ReaderInv
  <2>2. \/ \E result \in {"again", "live", "refused"} : Give(result)
        \/ ~Held /\ Give("second")
    BY <1>8 DEF StatusProbe, ExportProbe
  <2>3. ASSUME NEW result \in {"again", "live", "refused"}, Give(result)
        PROVE  ReaderInv'
    <3>1. reader' \in ReaderType /\ reader'.at = result /\ reader'.as = reader.as
      BY <1>3, <2>3, GiveDoes DEF ReaderPlaces
    <3> QED
      BY <1>3, <1>5, <2>1, <3>1
  <2>4. CASE ~Held /\ Give("second")
    <3>1. /\ reader' \in ReaderType /\ reader'.at = "second" /\ reader'.as = reader.as
          /\ reader'.first = reader.first
      BY <1>3, <2>4, GiveDoes DEF ReaderPlaces
    <3>2. PICK first : first = reader.first /\ reader'.first = first
      BY <3>1
    <3>3. PICK d \in Nat : d = Len(EventsOf(first)) /\ d <= b
      BY <1>2, <2>1, <3>2, ShapeSizes DEF Behind
    <3>4. CASE d < b
      <4>1. Behind(reader.first)'
        BY <1>4, <2>1, <3>1
      <4>2. Len(EventsOf(reader'.first)) < Len(EventsOf(file'))
        BY <1>1, <1>2, <3>2, <3>3, <3>4
      <4> QED
        BY <1>3, <2>1, <3>1, <4>1, <4>2, StillStays DEF ReaderInv
    <3>5. CASE d = b
      <4>1. first \in Seq(Cell) /\ 3 * b <= Len(first) /\ Len(first) \in Nat
            /\ CommittedEnd(first) = 3 * b /\ \A i \in 1..3 * b : file[i] = first[i]
        BY <2>1, <3>2, <3>3, <3>5, ShapeSizes, Reading DEF Behind
      <4>2. file \in Seq(Cell) /\ 3 * b <= Len(file) /\ Len(file) \in Nat
            /\ CommittedEnd(file) = 3 * b
        BY <1>2, ShapeSizes, Reading DEF FileInv
      <4>3. SubSeq(file, 1, 3 * b) = SubSeq(first, 1, 3 * b)
        <5>1. 3 * b \in 0..Len(file) /\ 3 * b \in 0..Len(first)
          BY <4>1, <4>2
        <5>2. PICK x \in Seq(Cell) : x = SubSeq(file, 1, 3 * b) /\ Len(x) = 3 * b
                                     /\ \A i \in 1..3 * b : x[i] = file[i]
          BY <4>2, <5>1, FrontIs
        <5>3. PICK y \in Seq(Cell) : y = SubSeq(first, 1, 3 * b) /\ Len(y) = 3 * b
                                     /\ \A i \in 1..3 * b : y[i] = first[i]
          BY <4>1, <5>1, FrontIs
        <5>4. \A i \in 1..Len(x) : x[i] = y[i]
          BY <4>1, <5>2, <5>3
        <5> QED
          BY <5>2, <5>3, <5>4, SeqEqual
      <4>4. Committed(file') = Committed(reader'.first)
        BY <1>1, <3>2, <4>1, <4>2, <4>3 DEF Committed
      <4>5. engine'.at = "away"
        BY <1>1, <2>4 DEF Held
      <4>6. still'
        BY <3>1, <4>4, <4>5, StillStays DEF Watched
      <4>7. Behind(reader.first)'
        BY <1>4, <2>1, <3>1
      <4> QED
        BY <1>3, <2>1, <3>1, <4>6, <4>7, StillStays DEF ReaderInv
    <3> QED
      BY <3>3, <3>4, <3>5
  <2> QED
    BY <2>2, <2>3, <2>4
<1>9. CASE ReadSecond
  <2>1. reader.at = "second" /\ (still \/ Len(EventsOf(reader.first)) < b) /\ Behind(reader.first)
    BY <1>2, <1>9 DEF ReadSecond, ReaderInv
  <2>2. CASE Give("changed")
    <3>1. reader' \in ReaderType /\ reader'.at = "changed" /\ reader'.as = reader.as
      BY <1>3, <2>2, GiveDoes DEF ReaderPlaces
    <3> QED
      BY <1>3, <1>5, <2>1, <3>1
  <2>3. CASE file = reader.first /\ Give("same")
    <3>1. /\ reader' \in ReaderType /\ reader'.at = "same" /\ reader'.as = reader.as
          /\ reader'.first = reader.first
      BY <1>3, <2>3, GiveDoes DEF ReaderPlaces
    <3>2. still
      BY <1>2, <2>1, <2>3
    <3>3. still'
      BY <3>1, <3>2, StillStays DEF Watched
    <3>4. Behind(reader.first)'
      BY <1>4, <2>1, <3>1
    <3> QED
      BY <1>3, <2>1, <3>1, <3>3, <3>4, StillStays DEF ReaderInv
  <2> QED
    BY <1>9, <2>2, <2>3 DEF ReadSecond, SameAsFirst
<1>10. CASE LastProbe
  <2>1. reader.at \in {"same", "changed"}
    BY <1>10 DEF LastProbe
  <2>2. ASSUME NEW result \in {"again", "refused"}, Give(result)
        PROVE  ReaderInv'
    <3>1. reader' \in ReaderType /\ reader'.at = result /\ reader'.as = reader.as
      BY <1>3, <2>2, GiveDoes DEF ReaderPlaces
    <3> QED
      BY <1>3, <1>5, <2>1, <3>1
  <2>3. CASE reader.at = "same" /\ Give("dead")
    <3>1. /\ reader' \in ReaderType /\ reader'.at = "dead" /\ reader'.as = reader.as
      BY <1>3, <2>3, GiveDoes DEF ReaderPlaces
    <3>2. still
      BY <2>3 DEF ReaderInv
    <3>3. still'
      BY <3>1, <3>2, StillStays DEF Watched
    <3> QED
      BY <1>3, <2>1, <3>1, <3>3, StillStays DEF ReaderInv
  <2> QED
    BY <1>10, <2>2, <2>3 DEF LastProbe
<1>11. CASE TryAgain
  <2>1. reader.at = "again"
    BY <1>11 DEF TryAgain
  <2>2. CASE Give("refused")
    <3>1. reader' \in ReaderType /\ reader'.at = "refused" /\ reader'.as = reader.as
      BY <1>3, <2>2, GiveDoes DEF ReaderPlaces
    <3> QED
      BY <1>3, <1>5, <2>1, <3>1
  <2>3. CASE /\ reader.round < MaxSnapshotAttempts
             /\ reader' = [IdleReader EXCEPT !.at = "first", !.as = "status", !.heldBefore = Held,
                                             !.round = reader.round + 1]
    <3>1. Held \in BOOLEAN /\ reader.round + 1 \in 0..MaxSnapshotAttempts
      BY <1>3, <2>3, BoundsAreNaturals DEF Held, ReaderType
    <3>2. <<>> \in Seq(Cell)
      BY EmptySeq
    <3>3. reader' = [at |-> "first", as |-> "status", heldBefore |-> Held, first |-> <<>>,
                     round |-> reader.round + 1]
      BY <2>3 DEF IdleReader
    <3>4. reader' \in ReaderType /\ reader'.at = "first" /\ reader'.as = "status"
      BY <3>1, <3>2, <3>3 DEF ReaderType, ReaderPlaces
    <3> QED
      BY <1>5, <3>4
  <2> QED
    BY <1>11, <2>2, <2>3 DEF TryAgain, MayTryAgain
<1> QED
  BY <1>6, <1>7, <1>8, <1>9, <1>10, <1>11 DEF Reader

(***************************************************************************)
(* The follower.                                                           *)
(***************************************************************************)

TailPlaces == {"poll", "quiet", "ended", "done"}
TailType == [at : TailPlaces, offset : Nat, shown : Seq(Event), idle : Nat, terminal : BOOLEAN]

(* It has shown the first events of the log and stands behind their lines; *)
(* a behaviour without one has shown nothing.                              *)
TailInv ==
  /\ tail \in TailType
  /\ tail.offset = 3 * Len(tail.shown) /\ Len(tail.shown) <= Len(EventsOf(file))
  /\ tail.shown = SubSeq(EventsOf(file), 1, Len(tail.shown))
  /\ reader.as # "follower" => tail.at = "done" /\ tail.shown = <<>>

(* What the follower has shown is a sequence of events.                      *)
LEMMA ShownTerminalType ==
  ASSUME tail \in TailType, NEW events
  PROVE  ShownTerminal(events) \in BOOLEAN
BY DEF ShownTerminal, TailType

(* A poll shows everything that is committed by then, or nothing new.      *)
LEMMA PollDoes ==
  ASSUME FileInv, TailInv, Poll
  PROVE  /\ tail' \in TailType
         /\ \/ tail'.shown = tail.shown /\ tail'.offset = tail.offset
            \/ tail'.shown = EventsOf(file) /\ tail'.offset = 3 * Len(EventsOf(file))
<1>1. PICK ev \in Seq(Event), b \in Nat : ev = EventsOf(file) /\ b = Len(ev) /\ Shape(file, ev)
  BY LenProperties DEF FileInv, Shape
<1>2. PICK s \in Seq(Event), m \in Nat : s = tail.shown /\ m = Len(s)
  BY LenProperties DEF TailInv, TailType
<1>3. tail.offset = 3 * m /\ m <= b /\ s = SubSeq(ev, 1, m) /\ tail \in TailType
  BY <1>1, <1>2 DEF TailInv
<1>4. 3 * b <= Len(file) /\ Len(file) \in Nat
  BY <1>1, ShapeSizes
<1>5. From = 3 * m
  BY <1>3, <1>4 DEF From
<1>6. PICK new \in Seq(Event) : /\ new = SubSeq(ev, m + 1, b) /\ Len(new) = b - m
                               /\ Shape(Fresh, new)
  <2>1. m \in 0..Len(ev)
    BY <1>1, <1>3
  <2>2. Shape(SubSeq(file, 3 * m + 1, Len(file)), SubSeq(ev, m + 1, Len(ev)))
    BY <1>1, <2>1, ShapeRest
  <2>3. /\ SubSeq(ev, m + 1, b) \in Seq(Event) /\ Len(SubSeq(ev, m + 1, b)) = b - (m + 1) + 1
    <3>1. m + 1 \in Nat \ {0} /\ b \in 0..Len(ev) /\ m + 1 <= b + 1
      BY <1>1, <1>3
    <3> QED
      BY <3>1, SubSeqIs
  <2>4. Fresh = SubSeq(file, 3 * m + 1, Len(file))
    BY <1>5 DEF Fresh
  <2>5. b - (m + 1) + 1 = b - m
    BY <1>1, <1>2
  <2>6. Shape(Fresh, SubSeq(ev, m + 1, b))
    BY <1>1, <2>2, <2>4
  <2> QED
    BY <2>3, <2>5, <2>6
<1>7. CommittedEnd(Fresh) = 3 * (b - m) /\ EventsOf(Fresh) = new /\ ~Corrupt(Fresh)
  BY <1>6, Reading
<1>8. CASE b = m
  <2>1. tail' = [tail EXCEPT !.offset = From, !.at = "quiet"]
    BY <1>7, <1>8 DEF Poll
  <2> QED
    BY <1>3, <1>5, <2>1 DEF TailType, TailPlaces
<1>9. CASE b # m
  <2>1. CommittedEnd(Fresh) # 0
    BY <1>3, <1>7, <1>9
  <2>2. tail' = [at |-> IF ShownTerminal(new) THEN "ended" ELSE "poll",
                 offset |-> From + Advance(Fresh),
                 shown |-> tail.shown \o new,
                 idle |-> 0,
                 terminal |-> ShownTerminal(new)]
    BY <1>7, <2>1 DEF Poll
  <2>3. s \o new = ev
    <3>1. 1 \in 1..Len(ev) + 1 /\ m \in 1 - 1..Len(ev) /\ b \in m..Len(ev)
      BY <1>1, <1>3
    <3>2. SubSeq(ev, 1, m) \o SubSeq(ev, m + 1, b) = SubSeq(ev, 1, b)
      BY <3>1, ConcatAdjacentSubSeq
    <3>3. SubSeq(ev, 1, b) = ev
      BY <1>1, SubSeqFull
    <3> QED
      BY <1>3, <1>6, <3>2, <3>3
  <2>4. From + Advance(Fresh) = 3 * b
    BY <1>3, <1>5, <1>7 DEF Advance
  <2>5. ShownTerminal(new) \in BOOLEAN
    BY <1>3, ShownTerminalType
  <2>6. PICK place \in TailPlaces : tail' = [at |-> place, offset |-> 3 * b, shown |-> ev,
                                             idle |-> 0, terminal |-> ShownTerminal(new)]
    BY <1>2, <2>2, <2>3, <2>4 DEF TailPlaces
  <2> QED
    BY <1>1, <2>5, <2>6 DEF TailType
<1> QED
  BY <1>8, <1>9

(* The follower's own steps.                                               *)
LEMMA FollowerSteps ==
  ASSUME FileInv, TailInv, Follower, file' = file, reader' = reader
  PROVE  /\ TailInv'
         /\ tail'.shown \in {tail.shown, EventsOf(file)}
<1>1. PICK ev \in Seq(Event), b \in Nat : ev = EventsOf(file) /\ b = Len(ev)
  BY LenProperties DEF FileInv, Shape
<1>2. EventsOf(file') = ev /\ SubSeq(ev, 1, b) = ev
  BY <1>1, SubSeqFull
<1>3. reader.as = "follower"
  BY DEF Follower, Poll, ProbeQuiet, ProbeEnded, TailInv
<1>4. CASE Poll
  <2>1. /\ tail' \in TailType
        /\ \/ tail'.shown = tail.shown /\ tail'.offset = tail.offset
           \/ tail'.shown = ev /\ tail'.offset = 3 * b
    BY <1>1, <1>4, PollDoes
  <2>2. CASE tail'.shown = tail.shown /\ tail'.offset = tail.offset
    BY <1>1, <1>2, <1>3, <2>1, <2>2 DEF TailInv
  <2>3. CASE tail'.shown = ev /\ tail'.offset = 3 * b
    BY <1>1, <1>2, <1>3, <2>1, <2>3 DEF TailInv
  <2> QED
    BY <2>1, <2>2, <2>3
<1>5. CASE ProbeQuiet \/ ProbeEnded
  <2>1. tail \in TailType /\ Idle \in Nat
    BY DEF Idle, TailInv, TailType
  <2>2. \E place \in TailPlaces : \/ tail' = [tail EXCEPT !.at = place]
                                  \/ tail' = [tail EXCEPT !.at = place, !.idle = Idle]
    BY <1>5 DEF ProbeQuiet, ProbeEnded, TailPlaces
  <2>3. tail' \in TailType /\ tail'.shown = tail.shown /\ tail'.offset = tail.offset
    BY <2>1, <2>2 DEF TailType
  <2> QED
    BY <1>1, <1>2, <1>3, <2>3 DEF TailInv
<1> QED
  BY <1>4, <1>5 DEF Follower

(* What was shown stays the beginning of a log that grows.                 *)
LEMMA WriterUnderFollower ==
  ASSUME FileInv, TailInv, FileInv', LogGrows, tail' = tail, reader' = reader
  PROVE  TailInv'
<1>1. PICK ev \in Seq(Event), b \in Nat : ev = EventsOf(file) /\ b = Len(ev)
  BY LenProperties DEF FileInv, Shape
<1>2. PICK ev2 \in Seq(Event), c \in Nat : ev2 = EventsOf(file') /\ c = Len(ev2)
  BY LenProperties DEF FileInv, Shape
<1>3. PICK s \in Seq(Event), m \in Nat : /\ s = tail.shown /\ m = Len(s) /\ m <= b
                                        /\ s = SubSeq(ev, 1, m)
  BY <1>1, LenProperties DEF TailInv, TailType
<1>4. b <= c /\ \A i \in 1..b : ev2[i] = ev[i]
  <2>1. ev2 = ev \/ \E e \in Event : ev2 = Append(ev, e)
    BY <1>1, <1>2 DEF LogGrows
  <2>2. ASSUME NEW e \in Event, ev2 = Append(ev, e)
        PROVE  c = b + 1 /\ \A i \in 1..b : ev2[i] = ev[i]
    BY <1>1, <1>2, <2>2, AppendProperties
  <2> QED
    BY <1>1, <1>2, <2>1, <2>2
<1>5. s = SubSeq(ev2, 1, m)
  <2>1. m \in 0..Len(ev) /\ m \in 0..Len(ev2)
    BY <1>1, <1>2, <1>3, <1>4
  <2>2. PICK x \in Seq(Event) : x = SubSeq(ev, 1, m) /\ Len(x) = m /\ \A i \in 1..m : x[i] = ev[i]
    BY <2>1, FrontIs
  <2>3. PICK y \in Seq(Event) : y = SubSeq(ev2, 1, m) /\ Len(y) = m /\ \A i \in 1..m : y[i] = ev2[i]
    BY <2>1, FrontIs
  <2>4. \A i \in 1..Len(x) : x[i] = y[i]
    BY <1>3, <1>4, <2>2, <2>3
  <2>5. x = y
    BY <2>2, <2>3, <2>4, SeqEqual
  <2> QED
    BY <1>3, <2>2, <2>3, <2>5
<1>6. m <= c
  BY <1>3, <1>4
<1> QED
  BY <1>2, <1>3, <1>5, <1>6 DEF TailInv

(***************************************************************************)
(* Together.                                                               *)
(***************************************************************************)

IInv == FileInv /\ RestsInv /\ ReaderInv /\ TailInv

(* The invariant holds at the start.                                         *)
LEMMA IInvInit == Init => IInv
<1> SUFFICES ASSUME Init PROVE IInv
  OBVIOUS
<1>1. FileInv
  BY FileInvInit
<1>2. EventsOf(file) = <<>> /\ still = FALSE
  BY EmptyShape DEF Init
<1>3. <<>> \in Seq(Cell) /\ <<>> \in Seq(Event) /\ Len(<<>>) = 0 /\ SubSeq(<<>>, 1, 0) = <<>>
  BY EmptySeq, SubSeqEmpty
<1>4. PICK who \in Watchers :
        /\ reader = [IdleReader EXCEPT !.as = who]
        /\ tail = IF who = "follower" THEN NewTail ELSE [NewTail EXCEPT !.at = "done"]
  BY DEF Init
<1>5. /\ reader \in ReaderType /\ reader.at = "idle" /\ reader.as = who
  <2>1. reader = [at |-> "idle", as |-> who, heldBefore |-> FALSE, first |-> <<>>, round |-> 0]
    BY <1>4 DEF IdleReader
  <2>2. who \in {"status", "export", "follower"} /\ 0 \in 0..MaxSnapshotAttempts
    BY BoundsAreNaturals
  <2> QED
    BY <1>3, <2>1, <2>2 DEF ReaderType, ReaderPlaces
<1>6. /\ tail \in TailType /\ tail.shown = <<>> /\ tail.offset = 0
      /\ who # "follower" => tail.at = "done"
  BY <1>3, <1>4 DEF NewTail, TailType, TailPlaces
<1>7. ReaderInv
  <2>1. still \in BOOLEAN /\ reader.at \notin {"probe", "second", "same", "dead"}
    BY <1>2, <1>5
  <2> QED
    BY <1>5, <2>1 DEF ReaderInv
<1>8. TailInv
  BY <1>2, <1>3, <1>5, <1>6 DEF TailInv
<1>9. RestsInv
  <2>1. rests = <<>> /\ engine.at = "away" /\ DOMAIN rests = {}
    BY <1>3 DEF Init, Away
  <2> QED
    BY <1>3, <2>1 DEF RestsInv
<1> QED
  BY <1>1, <1>7, <1>8, <1>9 DEF IInv

(* A power loss ends every process and keeps the invariant.                  *)
LEMMA PowerLossAll ==
  ASSUME IInv, PowerLoss
  PROVE  IInv' /\ tail'.shown = <<>>
<1>1. FileInv'
  BY PowerLossKeeps DEF IInv
<1>2. PICK ev \in Seq(Event), b \in Nat : ev = EventsOf(file') /\ b = Len(ev)
  BY <1>1, LenProperties DEF FileInv, Shape
<1>3. <<>> \in Seq(Cell) /\ <<>> \in Seq(Event) /\ Len(<<>>) = 0 /\ SubSeq(ev, 1, 0) = <<>>
  BY EmptySeq, SubSeqEmpty
<1>4. /\ reader' = [IdleReader EXCEPT !.as = reader.as] /\ still' = FALSE
      /\ tail' = IF reader.as = "follower" THEN NewTail ELSE tail
  BY DEF PowerLoss
<1>5. reader' \in ReaderType /\ reader'.at = "idle" /\ reader'.as = reader.as
  <2>1. reader' = [at |-> "idle", as |-> reader.as, heldBefore |-> FALSE, first |-> <<>>, round |-> 0]
    BY <1>4 DEF IdleReader
  <2>2. reader.as \in {"status", "export", "follower"} /\ 0 \in 0..MaxSnapshotAttempts
    BY BoundsAreNaturals DEF IInv, ReaderInv, ReaderType
  <2> QED
    BY <1>3, <2>1, <2>2 DEF ReaderType, ReaderPlaces
<1>6. ReaderInv'
  <2>1. still' \in BOOLEAN /\ reader'.at \notin {"probe", "second", "same", "dead"}
    BY <1>4, <1>5
  <2> QED
    BY <1>5, <2>1 DEF ReaderInv
<1>7. /\ tail' \in TailType /\ tail'.shown = <<>> /\ tail'.offset = 0
      /\ reader.as # "follower" => tail'.at = "done"
  <2>1. CASE reader.as = "follower"
    BY <1>3, <1>4, <2>1 DEF NewTail, TailType, TailPlaces
  <2>2. CASE reader.as # "follower"
    <3>1. tail' = tail /\ tail.at = "done" /\ tail.shown = <<>> /\ tail.offset = 0 /\ tail \in TailType
      BY <1>3, <1>4, <2>2 DEF IInv, TailInv
    <3> QED
      BY <3>1
  <2> QED
    BY <2>1, <2>2
<1>8. TailInv'
  <2>1. Len(tail'.shown) = 0 /\ tail'.offset = 3 * Len(tail'.shown)
    BY <1>3, <1>7
  <2>2. tail'.shown = SubSeq(ev, 1, Len(tail'.shown)) /\ Len(tail'.shown) <= Len(ev)
    BY <1>2, <1>3, <1>7, <2>1
  <2> QED
    BY <1>2, <1>5, <1>7, <2>1, <2>2 DEF TailInv
<1>9. IInv'
  BY <1>1, <1>6, <1>8, PowerLossUnderWork DEF IInv
<1> QED
  BY <1>7, <1>9

(* Every step keeps the invariant.                                           *)
LEMMA IInvNext ==
  ASSUME IInv, [Next]_vars
  PROVE  IInv'
<1>1. CASE Writer /\ Acts /\ UNCHANGED <<reader, tail>> /\ Watch
  <2>1. FileInv' /\ LogGrows
    BY <1>1, WriterKeeps DEF IInv
  <2> QED
    BY <1>1, <2>1, WriterUnderReader, WriterUnderFollower, WriterUnderWork DEF IInv
<1>2. CASE Reader /\ UNCHANGED <<writerVars, tail>> /\ Watch
  <2>1. FileInv' /\ RestsInv'
    BY <1>2 DEF IInv, FileInv, RestsInv, Counts, Writing, writerVars
  <2>2. ReaderInv'
    BY <1>2, ReaderSteps DEF IInv
  <2>3. reader.as # "follower"
    BY <1>2 DEF IInv, ReaderInv, Reader, Probe1, ReadFirst, StatusProbe, ExportProbe, ReadSecond,
                LastProbe, TryAgain
  <2>4. TailInv'
    BY <1>2, <2>3 DEF IInv, TailInv, writerVars
  <2> QED
    BY <2>1, <2>2, <2>4 DEF IInv
<1>3. CASE Follower /\ UNCHANGED <<writerVars, reader>> /\ Watch
  <2>1. FileInv' /\ RestsInv' /\ file' = file
    BY <1>3 DEF IInv, FileInv, RestsInv, Counts, Writing, writerVars
  <2>2. LogGrows
    BY <1>3 DEF LogGrows, writerVars
  <2>3. ReaderInv'
    BY <1>3, <2>1, <2>2, WriterUnderReader DEF IInv
  <2>4. TailInv'
    BY <1>3, <2>1, FollowerSteps DEF IInv
  <2> QED
    BY <2>1, <2>3, <2>4 DEF IInv
<1>4. CASE PowerLoss
  BY <1>4, PowerLossAll
<1>5. CASE UNCHANGED vars
  BY <1>5 DEF vars, IInv, FileInv, RestsInv, Counts, Writing, ReaderInv, Behind, TailInv
<1> QED
  BY <1>1, <1>2, <1>3, <1>4, <1>5 DEF Next

(* The inductive invariant of the file and of all who use it.                *)
LEMMA IInvAlways == Spec => []IInv
<1>1. IInv /\ [Next]_vars => IInv'
  BY IInvNext
<1> QED
  BY IInvInit, <1>1, PTL DEF Spec

(* However writes are cut short and however often the run is resumed over  *)
(* them: the log stays whole lines, the engine's memory is the log, and it *)
(* works only on what the disk has (events.rs: EventLog::open, append).    *)
THEOREM WorkRestsOnTheLogAlways == Spec => []WorkRestsOnTheLog
<1>1. ASSUME IInv
      PROVE  WorkRestsOnTheLog
  <2>1. FileInv /\ RestsInv /\ ReaderInv /\ TailInv /\ Shape(file, EventsOf(file))
    BY <1>1 DEF IInv, FileInv
  <2>2. PICK ev \in Seq(Event), b \in Nat : ev = EventsOf(file) /\ b = Len(ev)
    BY <2>1, ShapeSizes
  <2>3. TypeOK
    <3>1. acked <= b /\ b < next /\ acked \in Nat /\ next \in 1..MaxEvents + 1 /\ MaxEvents \in Nat
      BY <2>1, <2>2, BoundsAreNaturals DEF FileInv, Counts, Numbered
    <3>2. acked \in 0..MaxEvents
      BY <3>1
    <3> QED
      BY <2>1, <3>2 DEF TypeOK, FileInv, RestsInv, Counts, Places, ReaderInv, ReaderType, ReaderPlaces, TailInv,
                        TailType, TailPlaces
  <2>4. NeverCorrupt
    BY <2>1, Reading DEF NeverCorrupt
  <2>5. MemoryIsTheLog
    <3>1. ASSUME engine.at = "writing"
          PROVE  EventsOf(file) \in {known} \cup {Append(known, e) : e \in Event}
      <4>1. PICK e \in Event : Writing(e)
        BY <2>1, <3>1 DEF FileInv
      <4>2. CASE engine.writing # <<>>
        BY <4>1, <4>2, Reading DEF Writing
      <4>3. CASE engine.writing = <<>>
        <5>1. file \o <<>> = file
          BY <2>1, ShapeSizes, ConcatEmptySeq
        <5>2. Shape(file, Append(known, e))
          BY <4>1, <4>3, <5>1 DEF Writing
        <5>3. EventsOf(file) = Append(known, e)
          BY <5>2, Reading
        <5> QED
          BY <5>3
      <4> QED
        BY <4>2, <4>3
    <3> QED
      BY <2>1, <3>1 DEF MemoryIsTheLog, FileInv, Numbered
  <2>6. WorkRestsOnTheDisk
    <3>1. SubSeq(file, 1, Len(file)) = file
      BY <2>1, ShapeSizes, SubSeqFull
    <3>2. engine.at = "working" => known = OnDisk
      BY <2>1, <3>1 DEF OnDisk, FileInv
    <3>3. synced \in synced..Len(file) /\ acked \in Nat
      BY <2>1, ShapeSizes DEF FileInv, Counts
    <3>4. PICK n \in acked..b : /\ OnDisk = SubSeq(ev, 1, n) /\ DOMAIN OnDisk = 1..n
                                /\ \A i \in 1..n : OnDisk[i] = ev[i]
      <4>1. PICK n \in acked..b : /\ OnDisk = SubSeq(ev, 1, n) /\ Len(SubSeq(ev, 1, n)) = n
                                  /\ SubSeq(ev, 1, n) \in Seq(Event)
                                  /\ \A i \in 1..n : SubSeq(ev, 1, n)[i] = ev[i]
        BY <2>1, <2>2, <3>3, CutKeeps DEF OnDisk
      <4>2. DOMAIN SubSeq(ev, 1, n) = 1..n
        BY <4>1, LenProperties
      <4> QED
        BY <4>1, <4>2
    <3>5. \A i \in DOMAIN rests : i <= acked => i \in 1..b /\ ev[i] = rests[i]
      BY <2>1, <2>2, LenProperties DEF RestsInv
    <3>6. \A i \in DOMAIN rests : i <= acked => i \in DOMAIN OnDisk /\ OnDisk[i] = rests[i]
      BY <2>2, <3>3, <3>4, <3>5
    <3> QED
      BY <2>1, <3>2, <3>6 DEF WorkRestsOnTheDisk, RestsInv
  <2> QED
    BY <2>3, <2>4, <2>5, <2>6 DEF WorkRestsOnTheLog
<1> QED
  BY IInvAlways, <1>1, PTL

(* A snapshot reader that says nobody drives the run saw its log at an     *)
(* instant when nobody did (status.rs: stable_event_bytes_with).           *)
THEOREM DeadMeansStillAlways == Spec => []DeadMeansStill
<1>1. IInv => DeadMeansStill
  BY DEF IInv, ReaderInv, DeadMeansStill
<1> QED
  BY IInvAlways, <1>1, PTL

(* `status --follow` never shows half an event, one twice, or none where   *)
(* there was one (status.rs: LogTail::poll).                               *)
THEOREM ShowsThePrefixAlways == Spec => []ShowsThePrefix
<1>1. ASSUME IInv
      PROVE  ShowsThePrefix
  <2>1. SubSeq(tail.shown, 1, Len(tail.shown)) = tail.shown
    BY <1>1, SubSeqFull DEF IInv, TailInv, TailType
  <2> QED
    BY <1>1, <2>1 DEF IInv, TailInv, ShowsThePrefix, IsPrefix
<1> QED
  BY IInvAlways, <1>1, PTL

(***************************************************************************)
(* The promise of AppendOnlyLog.                                           *)
(***************************************************************************)

(* An empty file is the promise's empty log.                                 *)
LEMMA PromiseInit == Init => Promise!Init
<1> SUFFICES ASSUME Init PROVE Promise!Init
  OBVIOUS
<1>1. EventsOf(file) = <<>> /\ acked = 0
  BY EmptyShape DEF Init
<1>2. tail.shown = <<>>
  BY DEF Init, NewTail
<1> QED
  BY <1>1, <1>2 DEF Promise!Init

(* A step of the engine commits an event, acknowledges all of them, or     *)
(* does nothing to the log.                                                *)
LEMMA WriterKeepsPromise ==
  ASSUME FileInv, FileInv', LogGrows, tail' = tail
  PROVE  [Promise!Next]_Promise!vars
<1>1. PICK ev \in Seq(Event), b \in Nat : ev = EventsOf(file) /\ b = Len(ev)
  BY LenProperties DEF FileInv, Shape
<1>2. CASE EventsOf(file') = EventsOf(file)
  <2>1. CASE acked' = acked
    BY <1>2, <2>1 DEF Promise!vars
  <2>2. CASE acked' = Len(EventsOf(file))
    BY <1>2, <2>2 DEF Promise!Next, Promise!Acknowledge
  <2> QED
    BY <2>1, <2>2 DEF LogGrows
<1>3. ASSUME NEW e \in Event, acked' = acked, EventsOf(file') = Append(EventsOf(file), e)
      PROVE  Promise!Commit
  <2>0. /\ Append(ev, e) \in Seq(Event) /\ Len(Append(ev, e)) = Len(ev) + 1
        /\ \A i \in 1..Len(ev) : Append(ev, e)[i] = ev[i]
        /\ Append(ev, e)[Len(ev) + 1] = e
    BY AppendProperties
  <2>1. PICK more \in Seq(Event) : /\ more = Append(ev, e) /\ Len(more) = b + 1 /\ more[b + 1] = e
                                  /\ \A i \in 1..b : more[i] = ev[i]
    BY <1>1, <2>0
  <2>2. EventsOf(file') = more
    BY <1>1, <1>3, <2>1
  <2>3. Promise!Last(more) = e
    BY <2>1 DEF Promise!Last
  <2>4. Promise!IsPrefix(ev, more)
    <3>1. b \in 0..Len(ev) /\ b \in 0..Len(more)
      BY <1>1, <2>1
    <3>2. PICK x \in Seq(Event) : x = SubSeq(ev, 1, b) /\ Len(x) = b /\ \A i \in 1..b : x[i] = ev[i]
      BY <3>1, FrontIs
    <3>3. PICK y \in Seq(Event) : y = SubSeq(more, 1, b) /\ Len(y) = b /\ \A i \in 1..b : y[i] = more[i]
      BY <3>1, FrontIs
    <3>4. \A i \in 1..Len(x) : x[i] = y[i]
      BY <2>1, <3>2, <3>3
    <3>5. x = y
      BY <3>2, <3>3, <3>4, SeqEqual
    <3>6. SubSeq(ev, 1, Len(ev)) = SubSeq(more, 1, Len(ev)) /\ Len(ev) <= Len(more)
      BY <1>1, <2>1, <3>2, <3>3, <3>5
    <3> QED
      BY <3>6 DEF Promise!IsPrefix
  <2>5. Len(more) = Len(ev) + 1
    BY <1>1, <2>1
  <2> QED
    <3>1. Len(EventsOf(file')) = Len(EventsOf(file)) + 1
      BY <1>1, <2>2, <2>5
    <3>2. Promise!IsPrefix(EventsOf(file), EventsOf(file'))
      BY <1>1, <2>2, <2>4
    <3>3. Promise!Last(EventsOf(file')) \in Event
      BY <2>2, <2>3
    <3>4. acked' = acked /\ tail'.shown = tail.shown
      BY <1>3
    <3> QED
      BY <3>1, <3>2, <3>3, <3>4 DEF Promise!Commit
<1> QED
  BY <1>2, <1>3 DEF LogGrows, Promise!Next

(* A step of the follower shows what is there by now, or nothing new.      *)
LEMMA FollowerKeepsPromise ==
  ASSUME FileInv, TailInv, Follower, file' = file, reader' = reader, acked' = acked
  PROVE  [Promise!Next]_Promise!vars
<1>1. PICK ev \in Seq(Event), b \in Nat : ev = EventsOf(file) /\ b = Len(ev)
  BY LenProperties DEF FileInv, Shape
<1>2. EventsOf(file') = EventsOf(file)
  OBVIOUS
<1>3. CASE tail'.shown = tail.shown
  BY <1>2, <1>3 DEF Promise!vars
<1>4. CASE tail'.shown = EventsOf(file)
  <2>1. SubSeq(ev, 1, b) = ev
    BY <1>1, SubSeqFull
  <2>2. b \in Len(tail.shown)..Len(EventsOf(file))
    BY <1>1, LenProperties DEF TailInv, TailType
  <2>3. tail'.shown = SubSeq(EventsOf(file), 1, b)
    BY <1>1, <1>4, <2>1
  <2> QED
    BY <1>2, <2>2, <2>3 DEF Promise!Next, Promise!Show
<1> QED
  BY <1>3, <1>4, FollowerSteps

(* Every step is one of the promise's, or changes nothing it speaks of.      *)
LEMMA PromiseNext ==
  ASSUME IInv, [Next]_vars
  PROVE  [Promise!Next]_Promise!vars
<1>1. CASE Writer /\ Acts /\ UNCHANGED <<reader, tail>> /\ Watch
  BY <1>1, WriterKeeps, WriterKeepsPromise DEF IInv
<1>2. CASE Reader /\ UNCHANGED <<writerVars, tail>> /\ Watch
  BY <1>2 DEF writerVars, Promise!vars
<1>3. CASE Follower /\ UNCHANGED <<writerVars, reader>> /\ Watch
  BY <1>3, FollowerKeepsPromise DEF IInv, writerVars
<1>4. CASE PowerLoss
  <2>1. PICK n \in acked..Len(EventsOf(file)) : EventsOf(file') = SubSeq(EventsOf(file), 1, n)
    BY <1>4, PowerLossKeeps DEF IInv
  <2>2. tail'.shown = <<>> /\ acked' = acked
    BY <1>4, PowerLossAll DEF PowerLoss
  <2> QED
    BY <2>1, <2>2 DEF Promise!Next, Promise!Forget
<1>5. CASE UNCHANGED vars
  BY <1>5 DEF vars, Promise!vars
<1> QED
  BY <1>1, <1>2, <1>3, <1>4, <1>5 DEF Next

(* The file keeps the promise of an append-only log: what an append has    *)
(* acknowledged stays, in its order, through every crash and power loss,   *)
(* and the follower is shown nothing else (events.rs: EventLog::append).   *)
THEOREM KeepsThePromiseAlways == Spec => KeepsThePromise
<1>1. IInv /\ [Next]_vars => [Promise!Next]_Promise!vars
  BY PromiseNext
<1> QED
  BY PromiseInit, IInvAlways, <1>1, PTL DEF Spec, KeepsThePromise, Promise!Spec
==============================================================================
