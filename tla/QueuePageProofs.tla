-------------------------- MODULE QueuePageProofs --------------------------
(***************************************************************************)
(* Proofs about the queue page, for any number of jobs and any page sizes. *)
(***************************************************************************)
EXTENDS QueuePage, SequenceTheorems, TLAPS

\* Numbers of pages and the rounding of serveQueue.
LEMMA PagesCounted ==
    ASSUME NEW n \in Nat, NEW lim \in Nat \ {0}
    PROVE  LET p == TotalPages(n, lim) IN
           /\ p \in Nat /\ n <= p * lim
           /\ p > 0 => (p - 1) * lim < n
           /\ p = 0 => n = 0
<1> DEFINE p == TotalPages(n, lim)
           x == n + lim - 1
<1>1. x \in Nat /\ p = x \div lim
  BY DEF TotalPages
<1> HIDE DEF p, x
<1>2. p \in Nat /\ lim * p <= x /\ x < lim * p + lim
  BY <1>1
<1>3. p * lim = lim * p /\ (p - 1) * lim = lim * p - lim /\ lim * p \in Nat
  BY <1>2
<1>4. n <= p * lim /\ (p - 1) * lim < n
  BY <1>2, <1>3 DEF x
<1>5. p = 0 => n = 0
  BY <1>4
<1> QED
  BY <1>2, <1>4, <1>5 DEF p

(***************************************************************************)
(* The numbers between the first and the last page.                        *)
(***************************************************************************)
GapBefore(c) == IF c - 2 > 2 THEN 1 ELSE 0
GapAfter(c, p) == IF LastShown(c, p, 2) < p - 1 THEN 1 ELSE 0
Between(c, p) ==
    IF FirstShown(c, 2) <= LastShown(c, p, 2) THEN LastShown(c, p, 2) - FirstShown(c, 2) + 1 ELSE 0
LastPage(p) == IF p > 1 THEN 1 ELSE 0

\* Each of the five parts calculatePagination puts together.
LEMMA PartsAre ==
    ASSUME NEW c \in Nat \ {0}, NEW p \in Nat
    PROVE  LET before == IF c - 2 > 2 THEN <<Gap>> ELSE << >>
               middle == SubSeq([n \in 1 .. p |-> n], FirstShown(c, 2), LastShown(c, p, 2))
               after == IF LastShown(c, p, 2) < p - 1 THEN <<Gap>> ELSE << >>
               last == IF p > 1 THEN <<p>> ELSE << >>
           IN  /\ before \in Seq(Nat) /\ Len(before) = GapBefore(c)
               /\ \A k \in 1 .. GapBefore(c) : before[k] = Gap
               /\ middle \in Seq(Nat) /\ Len(middle) = Between(c, p)
               /\ \A k \in 1 .. Between(c, p) : middle[k] = FirstShown(c, 2) + k - 1
               /\ after \in Seq(Nat) /\ Len(after) = GapAfter(c, p)
               /\ \A k \in 1 .. GapAfter(c, p) : after[k] = Gap
               /\ last \in Seq(Nat) /\ Len(last) = LastPage(p)
               /\ \A k \in 1 .. LastPage(p) : last[k] = p
<1> DEFINE before == IF c - 2 > 2 THEN <<Gap>> ELSE << >>
           s == FirstShown(c, 2)
           e == LastShown(c, p, 2)
           numbers == [n \in 1 .. p |-> n]
           middle == SubSeq(numbers, s, e)
           after == IF e < p - 1 THEN <<Gap>> ELSE << >>
           last == IF p > 1 THEN <<p>> ELSE << >>
<1>0. \A x \in Nat : <<x>> \in Seq(Nat) /\ Len(<<x>>) = 1 /\ <<x>>[1] = x
  OBVIOUS
<1>1. << >> \in Seq(Nat) /\ Len(<< >>) = 0
  OBVIOUS
<1>2. /\ before \in Seq(Nat) /\ Len(before) = GapBefore(c)
      /\ \A k \in 1 .. GapBefore(c) : before[k] = Gap
  <2>1. CASE c - 2 > 2
    BY <1>0, <2>1 DEF GapBefore, Gap
  <2>2. CASE ~(c - 2 > 2)
    BY <1>1, <2>2 DEF GapBefore
  <2> QED
    BY <2>1, <2>2
<1>3. /\ after \in Seq(Nat) /\ Len(after) = GapAfter(c, p)
      /\ \A k \in 1 .. GapAfter(c, p) : after[k] = Gap
  <2> HIDE DEF e
  <2>1. CASE e < p - 1
    BY <1>0, <2>1 DEF GapAfter, Gap, e
  <2>2. CASE ~(e < p - 1)
    BY <1>1, <2>2 DEF GapAfter, e
  <2> QED
    BY <2>1, <2>2
<1>4. /\ last \in Seq(Nat) /\ Len(last) = LastPage(p)
      /\ \A k \in 1 .. LastPage(p) : last[k] = p
  <2>1. CASE p > 1
    BY <1>0, <2>1 DEF LastPage
  <2>2. CASE ~(p > 1)
    BY <1>1, <2>2 DEF LastPage
  <2> QED
    BY <2>1, <2>2
<1>5. /\ middle \in Seq(Nat) /\ Len(middle) = Between(c, p)
      /\ \A k \in 1 .. Between(c, p) : middle[k] = s + k - 1
  <2>1. s \in Int /\ e \in Int /\ s >= 2 /\ e <= p - 1
    BY DEF FirstShown, LastShown
  <2>2. Between(c, p) = IF s <= e THEN e - s + 1 ELSE 0
    BY DEF Between
  <2> HIDE DEF s, e
  <2>3. \A k \in s .. e : numbers[k] \in Nat /\ numbers[k] = k
    BY <2>1
  <2>4. /\ middle \in Seq(Nat) /\ Len(middle) = IF s <= e THEN e - s + 1 ELSE 0
        /\ \A k \in 1 .. e - s + 1 : middle[k] = numbers[s + k - 1]
    <3> HIDE DEF numbers
    <3> QED
      BY <2>1, <2>3, SubSeqProperties
  <2> HIDE DEF middle, numbers
  <2>5. ASSUME NEW k \in 1 .. Between(c, p) PROVE middle[k] = s + k - 1
    <3>1. k \in 1 .. e - s + 1 /\ s + k - 1 \in s .. e
      BY <2>1, <2>2
    <3> QED
      BY <2>3, <2>4, <3>1
  <2> QED
    BY <2>2, <2>4, <2>5
<1> QED
  BY <1>2, <1>3, <1>4, <1>5

\* What is at which place: 1, a gap or none, the m numbers from s on, a gap or
\* none, and the last page unless it is the first.
InParts(tokens, g, m, h, l, s, p) ==
    /\ tokens \in Seq(Nat) /\ Len(tokens) = 1 + g + m + h + l
    /\ tokens[1] = 1
    /\ \A k \in 2 .. 1 + g : tokens[k] = Gap
    /\ \A k \in 1 + g + 1 .. 1 + g + m : tokens[k] = s + (k - 1 - g) - 1
    /\ \A k \in 1 + g + m + 1 .. 1 + g + m + h : tokens[k] = Gap
    /\ \A k \in 1 + g + m + h + 1 .. 1 + g + m + h + l : tokens[k] = p

\* calculatePagination puts its tokens together like that.
LEMMA PaginationIs ==
    ASSUME NEW c \in Nat \ {0}, NEW p \in Nat,
           NEW g, g = GapBefore(c), NEW m, m = Between(c, p), NEW h, h = GapAfter(c, p),
           NEW l, l = LastPage(p)
    PROVE  InParts(calculatePagination(c, p, 2), g, m, h, l, FirstShown(c, 2), p)
<1> DEFINE before == IF c - 2 > 2 THEN <<Gap>> ELSE << >>
           middle == SubSeq([n \in 1 .. p |-> n], FirstShown(c, 2), LastShown(c, p, 2))
           after == IF LastShown(c, p, 2) < p - 1 THEN <<Gap>> ELSE << >>
           last == IF p > 1 THEN <<p>> ELSE << >>
           tokens == calculatePagination(c, p, 2)
           a == <<1>> \o before
           b == a \o middle
           d == b \o after
<1>1. tokens = d \o last
  BY DEF calculatePagination
<1>2. /\ before \in Seq(Nat) /\ Len(before) = g /\ \A k \in 1 .. g : before[k] = Gap
      /\ middle \in Seq(Nat) /\ Len(middle) = m
      /\ \A k \in 1 .. m : middle[k] = FirstShown(c, 2) + k - 1
      /\ after \in Seq(Nat) /\ Len(after) = h /\ \A k \in 1 .. h : after[k] = Gap
      /\ last \in Seq(Nat) /\ Len(last) = l /\ \A k \in 1 .. l : last[k] = p
  BY PartsAre
<1>3. <<1>> \in Seq(Nat) /\ Len(<<1>>) = 1 /\ <<1>>[1] = 1
  OBVIOUS
<1>4. g \in Nat /\ m \in Nat /\ h \in Nat /\ l \in Nat
  BY <1>2
<1> HIDE DEF before, middle, after, last, tokens
<1>5. /\ a \in Seq(Nat) /\ Len(a) = 1 + g /\ a[1] = 1 /\ \A k \in 2 .. 1 + g : a[k] = Gap
  <2>1. /\ a \in Seq(Nat) /\ Len(a) = 1 + g
        /\ \A k \in 1 .. 1 + g : a[k] = IF k <= 1 THEN <<1>>[k] ELSE before[k - 1]
    BY <1>2, <1>3, ConcatProperties
  <2> HIDE DEF a
  <2>2. \A k \in 2 .. 1 + g : k \in 1 .. 1 + g /\ ~(k <= 1) /\ k - 1 \in 1 .. g
    BY <1>4
  <2>3. a[1] = 1
    BY <1>3, <1>4, <2>1
  <2> QED
    BY <1>2, <2>1, <2>2, <2>3
<1> HIDE DEF a
<1>6. /\ b \in Seq(Nat) /\ Len(b) = 1 + g + m
      /\ \A k \in 1 .. 1 + g : b[k] = a[k]
      /\ \A k \in 1 + g + 1 .. 1 + g + m : b[k] = FirstShown(c, 2) + (k - 1 - g) - 1
  <2>1. /\ b \in Seq(Nat) /\ Len(b) = 1 + g + m
        /\ \A k \in 1 .. 1 + g + m : b[k] = IF k <= 1 + g THEN a[k] ELSE middle[k - (1 + g)]
    <3>1. /\ b \in Seq(Nat) /\ Len(b) = Len(a) + Len(middle)
          /\ \A k \in 1 .. Len(a) + Len(middle) :
               b[k] = IF k <= Len(a) THEN a[k] ELSE middle[k - Len(a)]
      BY <1>2, <1>5, ConcatProperties
    <3>2. Len(a) = 1 + g /\ Len(middle) = m
      BY <1>2, <1>5
    <3> QED
      BY <3>1, <3>2
  <2> HIDE DEF b
  <2>2. \A k \in 1 .. 1 + g : k \in 1 .. 1 + g + m /\ k <= 1 + g
    BY <1>4
  <2>3. \A k \in 1 + g + 1 .. 1 + g + m :
          k \in 1 .. 1 + g + m /\ ~(k <= 1 + g) /\ k - (1 + g) \in 1 .. m /\ k - (1 + g) = k - 1 - g
    BY <1>4
  <2> QED
    BY <1>2, <2>1, <2>2, <2>3
<1> HIDE DEF b
<1>7. /\ d \in Seq(Nat) /\ Len(d) = 1 + g + m + h
      /\ \A k \in 1 .. 1 + g + m : d[k] = b[k]
      /\ \A k \in 1 + g + m + 1 .. 1 + g + m + h : d[k] = Gap
  <2>1. /\ d \in Seq(Nat) /\ Len(d) = 1 + g + m + h
        /\ \A k \in 1 .. 1 + g + m + h : d[k] = IF k <= 1 + g + m THEN b[k] ELSE after[k - (1 + g + m)]
    <3>1. /\ d \in Seq(Nat) /\ Len(d) = Len(b) + Len(after)
          /\ \A k \in 1 .. Len(b) + Len(after) :
               d[k] = IF k <= Len(b) THEN b[k] ELSE after[k - Len(b)]
      BY <1>2, <1>6, ConcatProperties
    <3>2. Len(b) = 1 + g + m /\ Len(after) = h
      BY <1>2, <1>6
    <3> QED
      BY <3>1, <3>2
  <2> HIDE DEF d
  <2>2. \A k \in 1 .. 1 + g + m : k \in 1 .. 1 + g + m + h /\ k <= 1 + g + m
    BY <1>4
  <2>3. \A k \in 1 + g + m + 1 .. 1 + g + m + h :
          k \in 1 .. 1 + g + m + h /\ ~(k <= 1 + g + m) /\ k - (1 + g + m) \in 1 .. h
    BY <1>4
  <2> QED
    BY <1>2, <2>1, <2>2, <2>3
<1> HIDE DEF d
<1>8. /\ tokens \in Seq(Nat) /\ Len(tokens) = 1 + g + m + h + l
      /\ \A k \in 1 .. 1 + g + m + h : tokens[k] = d[k]
      /\ \A k \in 1 + g + m + h + 1 .. 1 + g + m + h + l : tokens[k] = p
  <2>1. /\ tokens \in Seq(Nat) /\ Len(tokens) = 1 + g + m + h + l
        /\ \A k \in 1 .. 1 + g + m + h + l :
             tokens[k] = IF k <= 1 + g + m + h THEN d[k] ELSE last[k - (1 + g + m + h)]
    <3>1. /\ tokens \in Seq(Nat) /\ Len(tokens) = Len(d) + Len(last)
          /\ \A k \in 1 .. Len(d) + Len(last) :
               tokens[k] = IF k <= Len(d) THEN d[k] ELSE last[k - Len(d)]
      BY <1>1, <1>2, <1>7, ConcatProperties
    <3>2. Len(d) = 1 + g + m + h /\ Len(last) = l
      BY <1>1, <1>2, <1>7
    <3> QED
      BY <3>1, <3>2
  <2>2. \A k \in 1 .. 1 + g + m + h : k \in 1 .. 1 + g + m + h + l /\ k <= 1 + g + m + h
    BY <1>4
  <2>3. \A k \in 1 + g + m + h + 1 .. 1 + g + m + h + l :
          k \in 1 .. 1 + g + m + h + l /\ ~(k <= 1 + g + m + h) /\ k - (1 + g + m + h) \in 1 .. l
    BY <1>4
  <2> QED
    BY <1>2, <2>1, <2>2, <2>3
<1>9. /\ \A k \in 1 .. 1 + g : k \in 1 .. 1 + g + m
      /\ \A k \in 1 + g + 1 .. 1 + g + m : k \in 1 .. 1 + g + m
      /\ \A k \in 1 .. 1 + g + m : k \in 1 .. 1 + g + m + h
      /\ \A k \in 1 + g + m + 1 .. 1 + g + m + h : k \in 1 .. 1 + g + m + h
      /\ \A k \in 2 .. 1 + g : k \in 1 .. 1 + g
      /\ 1 \in 1 .. 1 + g
  BY <1>4
<1>10. tokens[1] = 1
  BY <1>5, <1>6, <1>7, <1>8, <1>9
<1>11. \A k \in 2 .. 1 + g : tokens[k] = Gap
  BY <1>5, <1>6, <1>7, <1>8, <1>9
<1>12. \A k \in 1 + g + 1 .. 1 + g + m : tokens[k] = FirstShown(c, 2) + (k - 1 - g) - 1
  BY <1>6, <1>7, <1>8, <1>9
<1>13. \A k \in 1 + g + m + 1 .. 1 + g + m + h : tokens[k] = Gap
  BY <1>7, <1>8, <1>9
<1> QED
  BY <1>8, <1>10, <1>11, <1>12, <1>13 DEF tokens, InParts

\* The numbers are true while the current page exists.
LEMMA TokensAreTrue ==
    ASSUME NEW c \in Nat \ {0}, NEW p \in Nat, c <= p
    PROVE  LET tokens == calculatePagination(c, p, 2) IN
           /\ tokens[1] = 1
           /\ tokens[Len(tokens)] = p
           /\ \A k \in 1 .. Len(tokens) - 1 :
               \/ tokens[k] # Gap /\ tokens[k + 1] = tokens[k] + 1
               \/ tokens[k] # Gap /\ tokens[k + 1] = Gap
               \/ k > 1 /\ tokens[k] = Gap /\ tokens[k + 1] > tokens[k - 1] + 1
           /\ \A n \in (c - 2) .. (c + 2) : n \in 1 .. p => n \in ToSet(tokens)
<1> DEFINE tokens == calculatePagination(c, p, 2)
           s == FirstShown(c, 2)
           e == LastShown(c, p, 2)
           g == GapBefore(c)
           m == Between(c, p)
           h == GapAfter(c, p)
           l == LastPage(p)
           last == 1 + g + m + h + l
<1>1. /\ s = IF c > 4 THEN c - 2 ELSE 2
      /\ e = IF c + 2 < p - 1 THEN c + 2 ELSE p - 1
      /\ g = IF c > 4 THEN 1 ELSE 0
      /\ m = IF s <= e THEN e - s + 1 ELSE 0
      /\ h = IF e < p - 1 THEN 1 ELSE 0
      /\ l = IF p > 1 THEN 1 ELSE 0
  BY DEF FirstShown, LastShown, GapBefore, Between, GapAfter, LastPage
<1>0. InParts(tokens, g, m, h, l, s, p)
  <2> HIDE DEF tokens, s, g, m, h, l
  <2> QED
    BY PaginationIs DEF tokens, s, g, m, h, l
<1>2. /\ tokens \in Seq(Nat) /\ Len(tokens) = last
      /\ tokens[1] = 1
      /\ \A k \in 2 .. 1 + g : tokens[k] = Gap
      /\ \A k \in 1 + g + 1 .. 1 + g + m : tokens[k] = s + (k - 1 - g) - 1
      /\ \A k \in 1 + g + m + 1 .. 1 + g + m + h : tokens[k] = Gap
      /\ \A k \in 1 + g + m + h + 1 .. last : tokens[k] = p
  <2> HIDE DEF tokens, s, g, m, h, l
  <2> QED
    BY <1>0 DEF InParts
<1> HIDE DEF tokens, s, e, g, m, h, l
<1>3. /\ s \in Nat /\ s >= 2 /\ e \in Int /\ g \in {0, 1} /\ m \in Nat /\ h \in {0, 1} /\ l \in {0, 1}
      /\ last \in Nat /\ last >= 1 /\ p >= 1
  BY <1>1
<1>4. Gap = 0
  BY DEF Gap
<1>5. p = 1 => last = 1
  BY <1>1
<1>6. p > 1 => /\ l = 1
               /\ m = 0 => p = 2 /\ g = 0 /\ h = 0
               /\ m > 0 => s + m - 1 = e
               /\ h = 1 => e + 1 < p
               /\ h = 0 => e + 1 = p
               /\ g = 1 => s > 2
               /\ g = 0 => s = 2
  BY <1>1
<1>7. tokens[last] = p
  <2>1. CASE p = 1
    BY <1>2, <1>5, <2>1
  <2>2. CASE p > 1
    <3>1. last \in 1 + g + m + h + 1 .. last
      BY <1>3, <1>6, <2>2
    <3> QED
      BY <1>2, <3>1
  <2> QED
    BY <1>3, <2>1, <2>2
<1>8. ASSUME NEW k \in 1 .. last - 1
      PROVE  \/ tokens[k] # Gap /\ tokens[k + 1] = tokens[k] + 1
             \/ tokens[k] # Gap /\ tokens[k + 1] = Gap
             \/ k > 1 /\ tokens[k] = Gap /\ tokens[k + 1] > tokens[k - 1] + 1
  <2>0. p > 1 /\ k \in Nat
    BY <1>3, <1>5
  <2>1. CASE k = 1 /\ g = 1
    <3>1. k + 1 \in 2 .. 1 + g
      BY <2>1
    <3> QED
      BY <1>2, <1>4, <2>1, <3>1
  <2>2. CASE k = 1 /\ g = 0 /\ m > 0
    <3>1. k + 1 \in 1 + g + 1 .. 1 + g + m /\ s = 2 /\ s + (k + 1 - 1 - g) - 1 = 2
      BY <1>3, <1>6, <2>0, <2>2
    <3>2. tokens[k + 1] = s + (k + 1 - 1 - g) - 1
      BY <1>2, <1>3, <2>0, <3>1
    <3> QED
      BY <1>2, <1>4, <2>2, <3>1, <3>2
  <2>3. CASE k = 1 /\ g = 0 /\ m = 0
    <3>1. k + 1 \in 1 + g + m + h + 1 .. last /\ p = 2
      BY <1>3, <1>6, <2>0, <2>3
    <3>2. tokens[k + 1] = 2
      BY <1>2, <3>1
    <3> QED
      BY <1>2, <1>4, <2>3, <3>2
  <2>4. CASE k = 2 /\ g = 1
    <3>1. /\ k \in 2 .. 1 + g /\ m > 0 /\ k + 1 \in 1 + g + 1 .. 1 + g + m
          /\ s + (k + 1 - 1 - g) - 1 = s /\ s > 2 /\ k - 1 = 1
      BY <1>3, <1>6, <2>0, <2>4
    <3>2. tokens[k + 1] = s + (k + 1 - 1 - g) - 1 /\ tokens[k] = Gap
      BY <1>2, <1>3, <2>0, <3>1
    <3>3. tokens[k - 1] = 1
      BY <1>2, <3>1
    <3> QED
      BY <1>3, <2>4, <3>1, <3>2, <3>3
  <2>5. CASE k \in 1 + g + 1 .. 1 + g + m - 1
    <3>1. k \in 1 + g + 1 .. 1 + g + m /\ k + 1 \in 1 + g + 1 .. 1 + g + m
      BY <1>3, <2>5
    <3>2. tokens[k] = s + (k - 1 - g) - 1 /\ tokens[k + 1] = s + (k + 1 - 1 - g) - 1
      BY <1>2, <1>3, <2>0, <3>1
    <3>3. s + (k - 1 - g) - 1 # 0 /\ s + (k + 1 - 1 - g) - 1 = s + (k - 1 - g) - 1 + 1
      BY <1>3, <2>0, <3>1
    <3> QED
      BY <1>4, <3>2, <3>3
  <2>6. CASE k = 1 + g + m /\ m > 0
    <3>1. k \in 1 + g + 1 .. 1 + g + m /\ s + (k - 1 - g) - 1 = e /\ e # 0
      BY <1>3, <1>6, <2>0, <2>6
    <3>2. tokens[k] = s + (k - 1 - g) - 1
      BY <1>2, <3>1
    <3>3. CASE h = 1
      <4>1. k + 1 \in 1 + g + m + 1 .. 1 + g + m + h
        BY <1>3, <2>6, <3>3
      <4> QED
        BY <1>2, <1>4, <3>1, <3>2, <4>1
    <3>4. CASE h = 0
      <4>1. k + 1 \in 1 + g + m + h + 1 .. last /\ e + 1 = p
        BY <1>3, <1>6, <2>0, <2>6, <3>4
      <4> QED
        BY <1>2, <1>4, <3>1, <3>2, <4>1
    <3> QED
      BY <1>3, <3>3, <3>4
  <2>7. CASE k = 1 + g + m + 1 /\ h = 1
    <3>1. /\ m > 0 /\ e + 1 < p /\ k > 1
          /\ k \in 1 + g + m + 1 .. 1 + g + m + h
          /\ k - 1 \in 1 + g + 1 .. 1 + g + m /\ s + (k - 1 - 1 - g) - 1 = e
          /\ k + 1 \in 1 + g + m + h + 1 .. last
      BY <1>3, <1>6, <2>0, <2>7
    <3>2. tokens[k] = Gap /\ tokens[k + 1] = p
      BY <1>2, <3>1
    <3>3. tokens[k - 1] = s + (k - 1 - 1 - g) - 1
      BY <1>2, <3>1
    <3> QED
      BY <1>3, <3>1, <3>2, <3>3
  <2>8. \/ k = 1 /\ g = 1
        \/ k = 1 /\ g = 0 /\ m > 0
        \/ k = 1 /\ g = 0 /\ m = 0
        \/ k = 2 /\ g = 1
        \/ k \in 1 + g + 1 .. 1 + g + m - 1
        \/ k = 1 + g + m /\ m > 0
        \/ k = 1 + g + m + 1 /\ h = 1
    <3>1. k <= g + m + h + l /\ k >= 1
      BY <1>3, <1>8
    <3>2. CASE m = 0
      BY <1>3, <1>6, <2>0, <3>1, <3>2
    <3>3. CASE m > 0 /\ g = 0
      BY <1>3, <1>6, <2>0, <3>1, <3>3
    <3>4. CASE m > 0 /\ g = 1
      BY <1>3, <1>6, <2>0, <3>1, <3>4
    <3> QED
      BY <1>3, <3>2, <3>3, <3>4
  <2> QED
    BY <2>1, <2>2, <2>3, <2>4, <2>5, <2>6, <2>7, <2>8
<1>9. ASSUME NEW n \in (c - 2) .. (c + 2), n \in 1 .. p
      PROVE  n \in ToSet(tokens)
  <2>0. DOMAIN tokens = 1 .. last
    BY <1>2
  <2>1. CASE n = 1
    <3>1. 1 \in 1 .. last
      BY <1>3
    <3> QED
      BY <1>2, <2>0, <2>1, <3>1 DEF ToSet
  <2>2. CASE n = p
    <3>1. last \in 1 .. last
      BY <1>3
    <3> QED
      BY <1>7, <2>0, <2>2, <3>1 DEF ToSet
  <2>3. CASE n # 1 /\ n # p
    <3> DEFINE k == 1 + g + (n - s) + 1
    <3>1. s <= n /\ n <= e /\ n \in Nat
      BY <1>1, <1>9, <2>3
    <3>2. m = e - s + 1
      BY <1>1, <1>3, <3>1
    <3>3. /\ k \in 1 + g + 1 .. 1 + g + m /\ k \in 1 .. last
          /\ s + (k - 1 - g) - 1 = n
      BY <1>3, <3>1, <3>2
    <3> HIDE DEF k
    <3>4. tokens[k] = n
      BY <1>2, <3>3
    <3> QED
      BY <2>0, <3>3, <3>4 DEF ToSet
  <2> QED
    BY <2>1, <2>2, <2>3
<1> QED
  BY <1>2, <1>7, <1>8, <1>9 DEF tokens

(***************************************************************************)
(* What a page shows.                                                      *)
(***************************************************************************)

\* The jobs of one page, by number.
LEMMA PageShows ==
    ASSUME NEW t \in Nat, NEW off \in Nat, NEW lim \in Nat \ {0}
    PROVE  LET page == Window([k \in 1 .. t |-> k], off, lim) IN
           /\ page \in Seq(Nat)
           /\ Len(page) = IF off >= t THEN 0 ELSE IF t - off > lim THEN lim ELSE t - off
           /\ off >= t => page = << >>
           /\ \A a \in DOMAIN page : page[a] = off + a
<1> DEFINE all == [k \in 1 .. t |-> k]
           page == Window(all, off, lim)
           rest == SubSeq(all, off + 1, t)
<1>1. all \in Seq(Nat) /\ Len(all) = t
  OBVIOUS
<1>2. CASE off >= t
  <2>1. page = << >>
    BY <1>1, <1>2 DEF Window
  <2>2. << >> \in Seq(Nat) /\ Len(<< >>) = 0 /\ DOMAIN << >> = {}
    OBVIOUS
  <2> QED
    BY <1>2, <2>1, <2>2
<1>3. CASE off < t
  <2>1. page = IF Len(rest) > lim THEN SubSeq(rest, 1, lim) ELSE rest
    BY <1>1, <1>3 DEF Window
  <2>2. \A k \in off + 1 .. t : all[k] \in Nat /\ all[k] = k
    OBVIOUS
  <2> HIDE DEF all, page
  <2>3. off + 1 \in Int /\ t \in Int /\ t - (off + 1) + 1 = t - off
    OBVIOUS
  <2>4. /\ rest \in Seq(Nat) /\ Len(rest) = IF off + 1 <= t THEN t - (off + 1) + 1 ELSE 0
        /\ \A a \in 1 .. t - (off + 1) + 1 : rest[a] = all[off + 1 + a - 1]
    BY <2>2, <2>3, SubSeqProperties
  <2> HIDE DEF rest
  <2>5. \A a \in 1 .. t - off : off + 1 + a - 1 = off + a /\ off + a \in off + 1 .. t
    BY <1>3
  <2>6. /\ rest \in Seq(Nat) /\ Len(rest) = t - off
        /\ \A a \in 1 .. t - off : rest[a] = off + a
    BY <1>3, <2>2, <2>3, <2>4, <2>5
  <2>7. CASE t - off > lim
    <3>1. page = SubSeq(rest, 1, lim)
      BY <2>1, <2>6, <2>7
    <3>2. \A a \in 1 .. lim : rest[a] \in Nat /\ a \in 1 .. t - off
      BY <2>6, <2>7
    <3>3. /\ page \in Seq(Nat) /\ Len(page) = IF 1 <= lim THEN lim - 1 + 1 ELSE 0
          /\ \A a \in 1 .. lim - 1 + 1 : page[a] = rest[1 + a - 1]
      BY <3>1, <3>2, SubSeqProperties
    <3>4. lim - 1 + 1 = lim /\ 1 <= lim /\ \A a \in 1 .. lim : 1 + a - 1 = a
      OBVIOUS
    <3>5. page \in Seq(Nat) /\ Len(page) = lim /\ DOMAIN page = 1 .. lim
      BY <3>3, <3>4
    <3>6. ASSUME NEW a \in 1 .. lim PROVE page[a] = off + a
      <4>1. page[a] = rest[1 + a - 1] /\ 1 + a - 1 = a /\ a \in 1 .. t - off
        BY <3>2, <3>3, <3>4, <3>6
      <4> QED
        BY <2>6, <4>1
    <3> QED
      BY <1>3, <2>7, <3>5, <3>6 DEF page, all
  <2>8. CASE ~(t - off > lim)
    <3>1. /\ page \in Seq(Nat) /\ Len(page) = t - off /\ DOMAIN page = 1 .. t - off
          /\ \A a \in 1 .. t - off : page[a] = off + a
      BY <2>1, <2>6, <2>8
    <3> QED
      BY <1>3, <2>8, <3>1 DEF page, all
  <2> QED
    BY <2>7, <2>8
<1> QED
  BY <1>2, <1>3

\* Multiples of the page size are where pages begin.
LEMMA MultiplesBegin ==
    ASSUME NEW m \in Nat, NEW lim \in Nat \ {0}
    PROVE  m * lim \in Nat /\ (m * lim) % lim = 0
  OBVIOUS

LEMMA BeginsAtMultiple ==
    ASSUME NEW off \in Nat, NEW lim \in Nat \ {0}, off % lim = 0
    PROVE  off \div lim \in Nat /\ off = (off \div lim) * lim
<1>1. off = lim * (off \div lim) + (off % lim) /\ off \div lim \in Nat
  OBVIOUS
<1> QED
  BY <1>1

LEMMA MultiplesGrow ==
    ASSUME NEW a \in Nat, NEW b \in Nat, NEW lim \in Nat \ {0}
    PROVE  /\ (a + 1) * lim = a * lim + lim
           /\ (a - 1) * lim = a * lim - lim
           /\ a <= b => a * lim <= b * lim
           /\ a * lim < b * lim => a < b
<1>1. (a + 1) * lim = a * lim + lim
  OBVIOUS
<1>2. (a - 1) * lim = a * lim - lim
  OBVIOUS
<1>3. a <= b => a * lim <= b * lim
  OBVIOUS
<1>4. b <= a => b * lim <= a * lim
  OBVIOUS
<1>5. a * lim \in Nat /\ b * lim \in Nat
  OBVIOUS
<1> QED
  BY <1>1, <1>2, <1>3, <1>4, <1>5

\* What is on the nth page, where there are t jobs and lim of them to a page:
\* the numbers after the pages before it, as far as there are jobs.
LEMMA PageOf ==
    ASSUME NEW t \in Nat, NEW lim \in Nat \ {0}, NEW n \in Nat \ {0}
    PROVE  LET page == Window([k \in 1 .. t |-> k], (n - 1) * lim, lim) IN
           /\ (n - 1) * lim \in Nat
           /\ \A a \in DOMAIN page : /\ a \in 1 .. lim
                                      /\ page[a] = (n - 1) * lim + a
                                      /\ page[a] \in 1 .. t
           /\ \A a \in 1 .. lim : (n - 1) * lim + a <= t => a \in DOMAIN page
           /\ (n - 1) * lim >= t => page = << >>
<1> DEFINE off == (n - 1) * lim
           page == Window([k \in 1 .. t |-> k], off, lim)
<1>1. off \in Nat
  <2>1. n - 1 \in Nat
    OBVIOUS
  <2> QED
    BY <2>1, MultiplesBegin
<1> HIDE DEF off
<1>2. /\ page \in Seq(Nat)
      /\ Len(page) = IF off >= t THEN 0 ELSE IF t - off > lim THEN lim ELSE t - off
      /\ off >= t => page = << >>
      /\ \A a \in DOMAIN page : page[a] = off + a
  BY <1>1, PageShows
<1> HIDE DEF page
<1>3. DOMAIN page = 1 .. Len(page)
  BY <1>2
<1>4. ASSUME NEW a \in DOMAIN page PROVE a \in 1 .. lim /\ page[a] = off + a /\ page[a] \in 1 .. t
  BY <1>1, <1>2, <1>3
<1>5. ASSUME NEW a \in 1 .. lim, off + a <= t PROVE a \in DOMAIN page
  BY <1>1, <1>2, <1>3, <1>5
<1> QED
  BY <1>1, <1>2, <1>4, <1>5 DEF off, page

\* The pages share the jobs out among them.
LEMMA PagesShareOut ==
    ASSUME NEW t \in Nat, NEW lim \in Nat \ {0}
    PROVE  LET all == [k \in 1 .. t |-> k]
               page(n) == Window(all, (n - 1) * lim, lim)
               p == TotalPages(t, lim)
               shown == UNION {{page(n)[a] : a \in DOMAIN page(n)} : n \in 1 .. p}
           IN  /\ shown = 1 .. t
               /\ \A n, m \in 1 .. p : \A a \in DOMAIN page(n), b \in DOMAIN page(m) :
                    n < m \/ (n = m /\ a < b) => page(n)[a] < page(m)[b]
               /\ \A n \in 1 .. p : page(n) # << >>
               /\ page(p + 1) = << >>
<1> DEFINE all == [k \in 1 .. t |-> k]
           page(n) == Window(all, (n - 1) * lim, lim)
           p == TotalPages(t, lim)
           shown == UNION {{page(n)[a] : a \in DOMAIN page(n)} : n \in 1 .. p}
<1>1. p \in Nat /\ t <= p * lim /\ (p > 0 => (p - 1) * lim < t)
  BY PagesCounted
<1>2. ASSUME NEW n \in Nat \ {0}
      PROVE  /\ (n - 1) * lim \in Nat
             /\ \A a \in DOMAIN page(n) : /\ a \in 1 .. lim
                                           /\ page(n)[a] = (n - 1) * lim + a
                                           /\ page(n)[a] \in 1 .. t
             /\ \A a \in 1 .. lim : (n - 1) * lim + a <= t => a \in DOMAIN page(n)
             /\ (n - 1) * lim >= t => page(n) = << >>
  BY <1>2, PageOf, Zenon
<1> HIDE DEF page, p
<1>3. shown \subseteq 1 .. t
  BY <1>1, <1>2
<1>4. ASSUME NEW k \in 1 .. t PROVE k \in shown
  <2> DEFINE n == ((k - 1) \div lim) + 1
             a == ((k - 1) % lim) + 1
  <2>1. k - 1 \in Nat
    OBVIOUS
  <2>2. /\ n \in Nat \ {0} /\ a \in 1 .. lim /\ n - 1 = (k - 1) \div lim
        /\ k - 1 = lim * ((k - 1) \div lim) + ((k - 1) % lim)
    BY <2>1
  <2>3. k = (n - 1) * lim + a
    BY <2>2
  <2> HIDE DEF n, a
  <2>4. a \in DOMAIN page(n) /\ page(n)[a] = k
    BY <1>2, <2>2, <2>3
  <2>5. n <= p
    <3>1. n - 1 \in Nat /\ (n - 1) * lim \in Nat
      BY <1>2, <2>2
    <3>2. (n - 1) * lim < t
      BY <2>2, <2>3, <3>1
    <3>3. p * lim \in Nat
      BY <1>1, MultiplesBegin
    <3>4. (n - 1) * lim < p * lim
      BY <1>1, <3>1, <3>2, <3>3
    <3>5. n - 1 < p
      BY <1>1, <3>1, <3>4, MultiplesGrow
    <3> QED
      BY <1>1, <2>2, <3>5
  <2>6. n \in 1 .. p
    BY <1>1, <2>2, <2>5
  <2> QED
    BY <2>4, <2>6
<1>5. ASSUME NEW n \in 1 .. p, NEW m \in 1 .. p, NEW a \in DOMAIN page(n), NEW b \in DOMAIN page(m),
             n < m \/ (n = m /\ a < b)
      PROVE  page(n)[a] < page(m)[b]
  <2>1. /\ n \in Nat \ {0} /\ m \in Nat \ {0}
        /\ n \in Nat /\ m \in Nat /\ n - 1 \in Nat /\ m - 1 \in Nat
    BY <1>1
  <2>2. /\ page(n)[a] = (n - 1) * lim + a /\ a \in 1 .. lim /\ (n - 1) * lim \in Nat
        /\ page(m)[b] = (m - 1) * lim + b /\ b \in 1 .. lim /\ (m - 1) * lim \in Nat
    BY <1>2, <2>1
  <2>3. CASE n = m /\ a < b
    BY <2>2, <2>3
  <2>4. CASE n < m
    <3>1. n <= m - 1
      BY <2>1, <2>4
    <3>2. n * lim <= (m - 1) * lim
      BY <2>1, <3>1, MultiplesGrow
    <3>3. (n - 1) * lim = n * lim - lim /\ n * lim \in Nat
      BY <2>1, MultiplesGrow, MultiplesBegin
    <3> QED
      BY <2>2, <3>2, <3>3
  <2> QED
    BY <1>5, <2>3, <2>4
<1>6. ASSUME NEW n \in 1 .. p PROVE page(n) # << >>
  <2>1. n \in Nat \ {0} /\ n - 1 \in Nat /\ p - 1 \in Nat /\ n - 1 <= p - 1 /\ p > 0
    BY <1>1
  <2>2. (n - 1) * lim <= (p - 1) * lim /\ (p - 1) * lim \in Nat /\ (n - 1) * lim \in Nat
    BY <2>1, MultiplesGrow, MultiplesBegin
  <2>3. (n - 1) * lim + 1 <= t
    BY <1>1, <2>1, <2>2
  <2>4. 1 \in DOMAIN page(n)
    BY <1>2, <2>1, <2>3
  <2> QED
    BY <2>4
<1>7. page(p + 1) = << >>
  <2>1. p + 1 \in Nat \ {0} /\ (p + 1) - 1 = p
    BY <1>1
  <2>2. ((p + 1) - 1) * lim >= t
    <3>1. ((p + 1) - 1) * lim = p * lim
      BY <2>1
    <3>2. p * lim \in Nat
      BY <1>1, MultiplesBegin
    <3> QED
      BY <1>1, <3>1, <3>2
  <2> QED
    BY <1>2, <2>1, <2>2
<1>8. shown = 1 .. t
  BY <1>3, <1>4
<1> QED
  BY <1>5, <1>6, <1>7, <1>8 DEF page, p

(***************************************************************************)
(* The pages a user gets to.                                               *)
(***************************************************************************)

\* The page on the screen: its size is one the page offers, and it begins at a
\* multiple of it.
PageInv ==
    /\ limit \in Limits
    /\ total \in 0 .. MaxTotal
    /\ offset \in Nat
    /\ BeginsAPage

\* The current page has a number from 1 on, and the tokens are numbers.
LEMMA CurrentIs ==
    ASSUME PageInv
    PROVE  /\ limit \in Nat \ {0} /\ total \in Nat /\ offset \in Nat
           /\ offset = (offset \div limit) * limit /\ offset \div limit \in Nat
           /\ Current = (offset \div limit) + 1 /\ Current \in Nat \ {0}
           /\ PageCount \in Nat
           /\ Tokens \in Seq(Nat)
<1>1. limit \in Nat \ {0} /\ total \in Nat /\ offset \in Nat /\ offset % limit = 0
  BY LimitsAssumption, MaxTotalAssumption DEF PageInv, BeginsAPage
<1>2. offset \div limit \in Nat /\ offset = (offset \div limit) * limit
  BY <1>1, BeginsAtMultiple
<1>3. Current = (offset \div limit) + 1
  BY DEF Current, CurrentPage
<1>4. Current \in Nat \ {0}
  BY <1>2, <1>3
<1>5. PageCount \in Nat
  BY <1>1, PagesCounted DEF PageCount
<1>6. Tokens \in Seq(Nat)
  BY <1>4, <1>5, PaginationIs DEF Tokens, InParts
<1> QED
  BY <1>1, <1>2, <1>3, <1>4, <1>5, <1>6

LEMMA FirstPageBegins == PageInit => PageInv
<1> SUFFICES ASSUME PageInit PROVE PageInv
  OBVIOUS
<1>1. limit \in Nat \ {0}
  BY LimitsAssumption DEF PageInit
<1>2. 0 % limit = 0
  BY <1>1
<1> QED
  BY <1>2 DEF PageInit, PageInv, BeginsAPage

\* A step that leaves limit and total where they belong and goes to a multiple
\* of the page size.
LEMMA GoingToAPage ==
    ASSUME limit' \in Limits, total' \in 0 .. MaxTotal, NEW q \in Nat, offset' = q * limit'
    PROVE  PageInv'
<1>1. limit' \in Nat \ {0}
  BY LimitsAssumption
<1>2. offset' \in Nat /\ offset' % limit' = 0
  BY <1>1, MultiplesBegin
<1>3. offset' >= 0
  BY <1>2
<1> QED
  BY <1>2, <1>3 DEF PageInv, BeginsAPage

LEMMA LinksKeepPages == PageInv /\ [PageNext]_pageVars => PageInv'
<1> SUFFICES ASSUME PageInv, [PageNext]_pageVars
             PROVE  PageInv'
  OBVIOUS
<1> DEFINE q == offset \div limit
<1>0. limit \in Limits /\ total \in 0 .. MaxTotal
  BY DEF PageInv
<1>1. /\ limit \in Nat \ {0} /\ offset = q * limit /\ q \in Nat
      /\ Current = q + 1 /\ Tokens \in Seq(Nat)
  BY CurrentIs
<1> HIDE DEF q
<1>2. CASE JobsChange
  BY <1>0, <1>1, <1>2, GoingToAPage DEF JobsChange
<1>3. CASE PreviousPage
  <2>1. q - 1 \in Nat /\ offset' = q * limit - limit
    BY <1>1, <1>3 DEF PreviousPage
  <2>4. offset' = (q - 1) * limit
    BY <1>1, <2>1, MultiplesGrow
  <2>5. limit' = limit /\ total' = total
    BY <1>3 DEF PreviousPage
  <2> QED
    BY <1>0, <2>1, <2>4, <2>5, GoingToAPage
<1>4. CASE NextPage
  <2>1. q + 1 \in Nat /\ offset' = (q + 1) * limit
    BY <1>1, <1>4, MultiplesGrow DEF NextPage
  <2>2. limit' = limit /\ total' = total
    BY <1>4 DEF NextPage
  <2> QED
    BY <1>0, <2>1, <2>2, GoingToAPage
<1>5. ASSUME NEW n \in ToSet(Tokens), GotoPage(n) PROVE PageInv'
  <2>1. n \in Nat
    BY <1>1, <1>5 DEF ToSet
  <2>2. n - 1 \in Nat
    BY <1>5, <2>1 DEF GotoPage, Gap
  <2>3. offset' = (n - 1) * limit /\ limit' = limit /\ total' = total
    BY <1>5 DEF GotoPage
  <2> QED
    BY <1>0, <2>2, <2>3, GoingToAPage
<1>6. ASSUME NEW lim \in Limits, SelectLimit(lim) PROVE PageInv'
  <2>1. limit' \in Limits /\ total' = total /\ offset' = 0
    BY <1>6 DEF SelectLimit
  <2>2. limit' \in Nat
    BY <2>1, LimitsAssumption
  <2>3. \A m \in Nat : 0 = 0 * m
    OBVIOUS
  <2> QED
    BY <1>0, <2>1, <2>2, <2>3, GoingToAPage
<1>7. ASSUME NEW found \in 0 .. MaxTotal - 1, SearchRedirect(found) PROVE PageInv'
  <2>1. offset' = (found \div limit) * limit /\ limit' = limit /\ total' = total
    BY <1>7 DEF SearchRedirect, SearchOffset
  <2>2. found \in Nat
    BY <1>7
  <2>3. found \div limit \in Nat
    BY <1>1, <2>2
  <2> QED
    BY <1>0, <2>1, <2>3, GoingToAPage
<1>8. CASE UNCHANGED pageVars
  BY <1>8 DEF pageVars, PageInv, BeginsAPage
<1> QED
  BY <1>2, <1>3, <1>4, <1>5, <1>6, <1>7, <1>8 DEF PageNext

LEMMA PagesKept == PageSpec => []PageInv
  BY FirstPageBegins, LinksKeepPages, PTL DEF PageSpec

\* Whatever links are followed and whatever the number of jobs does meanwhile,
\* the page on the screen begins where a page begins.
THEOREM PagesBeginPages == PageSpec => []BeginsAPage
<1>1. PageInv => BeginsAPage
  BY DEF PageInv
<1> QED
  BY <1>1, PagesKept, PTL

\* The page numbers under the table are true as long as the current page is
\* one of the pages, for any number of jobs and any page size.
THEOREM PageNumbersTrue == PageSpec => []GapsAreReal
<1>1. PageInv => GapsAreReal
  <2> SUFFICES ASSUME PageInv, Current <= PageCount PROVE GapsAreReal
    BY DEF GapsAreReal
  <2>1. Current \in Nat \ {0} /\ PageCount \in Nat
    BY CurrentIs
  <2> QED
    BY <2>1, TokensAreTrue DEF GapsAreReal, Tokens
<1> QED
  BY <1>1, PagesKept, PTL

\* Going through the pages shows each job once and in order and leaves none out,
\* for any number of jobs and any page size.
THEOREM PagesPartitionJobs == PageSpec => []PagesPartition
<1>1. PageInv => PagesPartition
  <2> SUFFICES ASSUME PageInv PROVE PagesPartition
    OBVIOUS
  <2>1. limit \in Nat \ {0} /\ total \in Nat
    BY CurrentIs
  <2> QED
    BY <2>1, PagesShareOut DEF PagesPartition, PageCount
<1> QED
  BY <1>1, PagesKept, PTL
=============================================================================
