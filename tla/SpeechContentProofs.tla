-------------------------- MODULE SpeechContentProofs --------------------------
(***************************************************************************)
(* What holds of SpeechContent for any books, both sources: the text is    *)
(* the pages' segments in order, the voice reads what the source has       *)
(* selected, goes on in order, and next and previous undo each other.      *)
(*                                                                         *)
(* What FlattenSeq computes is proved by induction, in the form of the     *)
(* least counterexample: a set of numbers that is not empty has a least.   *)
(***************************************************************************)
EXTENDS SpeechContent, SequenceTheorems, WellFoundedInduction, TLAPS

-----------------------------------------------------------------------------
(* Least and greatest numbers *)

\* A set of numbers has a least one (the least-number principle).
LEMMA LeastNumber ==
  ASSUME NEW S \in SUBSET Nat, S # {}
  PROVE  \E x \in S : \A y \in S : x <= y
<1>1. PICK x \in S : \A y \in S : ~ (<<y, x>> \in OpToRel(<, Nat))
  BY WFMin, NatLessThanWellFounded
<1>2. ASSUME NEW y \in S PROVE x <= y
  <2>1. x \in Nat /\ y \in Nat
    OBVIOUS
  <2>2. ~ (<<y, x>> \in OpToRel(<, Nat))
    BY <1>1
  <2>3. ~ (y < x)
    BY <2>1, <2>2 DEF OpToRel
  <2> QED BY <2>1, <2>3
<1> QED BY <1>2

\* A bounded set of numbers has a greatest one.
LEMMA GreatestNumber ==
  ASSUME NEW n \in Nat, NEW S \in SUBSET (0..n), S # {}
  PROVE  \E x \in S : \A y \in S : y <= x
<1> DEFINE T == {n - x : x \in S}
<1>1. T \in SUBSET Nat /\ T # {}
  <2>1. \A x \in S : n - x \in Nat
    OBVIOUS
  <2>2. T \subseteq Nat
    BY <2>1
  <2> QED BY <2>2
<1>2. PICK t \in T : \A u \in T : t <= u
  BY <1>1, LeastNumber
<1>3. PICK x \in S : t = n - x
  OBVIOUS
<1>4. ASSUME NEW y \in S PROVE y <= x
  <2>1. n - y \in T
    OBVIOUS
  <2>2. n - x <= n - y
    BY <1>2, <1>3, <2>1
  <2> QED BY <2>2
<1> QED BY <1>4

\* Induction, for a set in place of a predicate.
LEMMA Everything ==
  ASSUME NEW S, 0 \in S, \A n \in Nat : n \in S => n + 1 \in S
  PROVE  Nat \subseteq S
<1> SUFFICES ASSUME Nat \ S # {} PROVE FALSE
  OBVIOUS
<1>1. PICK x \in Nat \ S : \A y \in Nat \ S : x <= y
  BY LeastNumber
<1>2. x # 0 /\ x - 1 \in Nat
  BY <1>1
<1>3. x - 1 \in S
  BY <1>1, <1>2
<1> QED BY <1>1, <1>2, <1>3

-----------------------------------------------------------------------------
(* The text *)

\* The segments of page p of book b.
SegmentsOf(b, p) == [i \in 1..b[p] |-> <<p, i>>]

\* The equation of the recursive function in FlattenSeq, for the first n pages.
Flattens(b, n, f) ==
  f = [p \in 1..n |-> IF p = 1 THEN SegmentsOf(b, p) ELSE f[p - 1] \o SegmentsOf(b, p)]

\* In the order of the book.
Before(s, t) == s[1] < t[1] \/ (s[1] = t[1] /\ s[2] < t[2])

\* t lists every segment of the first n pages, once and in order.
Lists(b, n, t) ==
  /\ t \in Seq(Nat \X Nat)
  /\ \A k \in 1..Len(t) : t[k][1] \in 1..n /\ t[k][2] \in 1..b[t[k][1]]
  /\ \A p \in 1..n : \A i \in 1..b[p] : \E k \in 1..Len(t) : t[k] = <<p, i>>
  /\ \A j, k \in 1..Len(t) : j < k => Before(t[j], t[k])

\* The recursion has a solution.
LEMMA FlattensExists ==
  ASSUME NEW b
  PROVE  \A n \in Nat : \E f : Flattens(b, n, f)
<1> DEFINE S == {n \in Nat : \E f : Flattens(b, n, f)}
<1>1. 0 \in S
  <2>1. Flattens(b, 0, [p \in 1..0 |-> 0])
    BY DEF Flattens
  <2> QED BY <2>1
<1>2. ASSUME NEW n \in Nat, n \in S PROVE n + 1 \in S
  <2>1. PICK f : Flattens(b, n, f)
    BY <1>2
  <2> DEFINE g == [p \in 1..(n + 1) |->
                     IF p = 1 THEN SegmentsOf(b, p) ELSE f[p - 1] \o SegmentsOf(b, p)]
  <2>2. ASSUME NEW p \in 1..n PROVE g[p] = f[p]
    <3>1. f[p] = IF p = 1 THEN SegmentsOf(b, p) ELSE f[p - 1] \o SegmentsOf(b, p)
      BY <2>1, Zenon DEF Flattens
    <3>2. p \in 1..(n + 1)
      OBVIOUS
    <3> QED BY <3>1, <3>2, Zenon
  <2>3. ASSUME NEW p \in 1..(n + 1), p # 1 PROVE g[p - 1] = f[p - 1]
    <3>1. PICK q \in 1..n : q = p - 1
      BY <2>3
    <3>2. g[q] = f[q]
      BY <2>2
    <3> QED BY <3>1, <3>2
  <2>4. Flattens(b, n + 1, g)
    BY <2>3 DEF Flattens
  <2> QED BY <2>4
<1> HIDE DEF S
<1>3. Nat \subseteq S
  BY <1>1, <1>2, Everything
<1> QED BY <1>3 DEF S

\* A page's segments are a sequence.
LEMMA PageTyped ==
  ASSUME NEW b \in Seq(Nat), NEW p \in DOMAIN b
  PROVE  /\ b[p] \in Nat /\ SegmentsOf(b, p) \in Seq(Nat \X Nat)
         /\ Len(SegmentsOf(b, p)) = b[p]
         /\ \A i \in 1..b[p] : SegmentsOf(b, p)[i] = <<p, i>>
<1>1. b[p] \in Nat /\ p \in Nat
  OBVIOUS
<1> QED BY <1>1 DEF SegmentsOf

\* The first page lists itself.
LEMMA FirstPage ==
  ASSUME NEW b \in Seq(Nat), 1 \in DOMAIN b
  PROVE  Lists(b, 1, SegmentsOf(b, 1))
<1> DEFINE t == SegmentsOf(b, 1)
<1>1. /\ b[1] \in Nat /\ t \in Seq(Nat \X Nat) /\ Len(t) = b[1]
      /\ \A i \in 1..b[1] : t[i] = <<1, i>>
  BY PageTyped
<1> HIDE DEF t
<1>2. \A k \in 1..Len(t) : t[k][1] = 1 /\ t[k][2] = k
  BY <1>1
<1>3. \A j, k \in 1..Len(t) : j < k => Before(t[j], t[k])
  BY <1>2 DEF Before
<1>4. ASSUME NEW p \in 1..1, NEW i \in 1..b[p] PROVE \E k \in 1..Len(t) : t[k] = <<p, i>>
  <2>1. p = 1
    OBVIOUS
  <2>2. i \in 1..Len(t) /\ t[i] = <<p, i>>
    BY <1>1, <2>1
  <2> QED BY <2>2
<1>5. \A k \in 1..Len(t) : t[k][1] \in 1..1 /\ t[k][2] \in 1..b[t[k][1]]
  BY <1>1, <1>2
<1>6. Lists(b, 1, t)
  BY <1>1, <1>3, <1>4, <1>5 DEF Lists
<1> QED BY <1>6 DEF t

\* And a page that is appended lists itself after those before it.
LEMMA NextPage ==
  ASSUME NEW b \in Seq(Nat), NEW n \in Nat \ {0}, n + 1 \in DOMAIN b, NEW s, Lists(b, n, s)
  PROVE  Lists(b, n + 1, s \o SegmentsOf(b, n + 1))
<1> DEFINE u == SegmentsOf(b, n + 1)
           t == s \o u
<1>1. /\ b[n + 1] \in Nat /\ u \in Seq(Nat \X Nat) /\ Len(u) = b[n + 1]
      /\ \A i \in 1..b[n + 1] : u[i] = <<n + 1, i>>
  BY PageTyped
<1>2. s \in Seq(Nat \X Nat) /\ Len(s) \in Nat
  BY DEF Lists
<1> HIDE DEF u
<1>3. /\ t \in Seq(Nat \X Nat) /\ Len(t) = Len(s) + b[n + 1]
      /\ \A k \in 1..Len(s) : t[k] = s[k]
      /\ \A i \in 1..b[n + 1] : t[Len(s) + i] = <<n + 1, i>>
  <2>1. /\ t \in Seq(Nat \X Nat) /\ Len(t) = Len(s) + Len(u)
        /\ \A k \in 1..(Len(s) + Len(u)) : t[k] = IF k <= Len(s) THEN s[k] ELSE u[k - Len(s)]
    BY <1>1, <1>2, ConcatProperties
  <2> HIDE DEF t
  <2>2. ASSUME NEW k \in 1..Len(s) PROVE t[k] = s[k]
    <3>0. Len(u) \in Nat
      BY <1>1
    <3>1. k \in 1..(Len(s) + Len(u)) /\ k <= Len(s)
      BY <1>2, <3>0
    <3> QED BY <2>1, <3>1
  <2>3. ASSUME NEW i \in 1..b[n + 1] PROVE t[Len(s) + i] = <<n + 1, i>>
    <3>1. PICK k : k = Len(s) + i
      OBVIOUS
    <3>0. Len(u) \in Nat /\ i \in 1..Len(u)
      BY <1>1
    <3>2. k \in 1..(Len(s) + Len(u)) /\ ~ (k <= Len(s)) /\ k - Len(s) = i
      BY <1>2, <3>0, <3>1
    <3>3. t[k] = u[i]
      BY <2>1, <3>2
    <3> QED BY <1>1, <3>1, <3>3
  <2> QED BY <1>1, <2>1, <2>2, <2>3
<1> HIDE DEF t
<1>4. ASSUME NEW k \in 1..Len(t), k > Len(s)
      PROVE  t[k] = <<n + 1, k - Len(s)>> /\ k - Len(s) \in 1..b[n + 1]
  <2>0. b[n + 1] \in Nat /\ Len(s) \in Nat /\ k \in 1..(Len(s) + b[n + 1])
    BY <1>1, <1>2, <1>3
  <2>1. k - Len(s) \in 1..b[n + 1]
    BY <1>4, <2>0
  <2>2. t[Len(s) + (k - Len(s))] = <<n + 1, k - Len(s)>>
    BY <1>3, <2>1
  <2>3. Len(s) + (k - Len(s)) = k
    BY <1>2
  <2> QED BY <2>1, <2>2, <2>3
<1>5. ASSUME NEW k \in 1..Len(t), k <= Len(s)
      PROVE  k \in 1..Len(s) /\ t[k] = s[k] /\ t[k][1] \in 1..n /\ t[k][2] \in 1..b[t[k][1]]
  <2>1. k \in 1..Len(s)
    BY <1>2, <1>3, <1>5
  <2> QED BY <1>3, <2>1 DEF Lists
<1>6. ASSUME NEW k \in 1..Len(t)
      PROVE  t[k][1] \in 1..(n + 1) /\ t[k][2] \in 1..b[t[k][1]]
  <2>1. CASE k <= Len(s)
    BY <1>5, <2>1
  <2>2. CASE k > Len(s)
    <3>1. t[k] = <<n + 1, k - Len(s)>> /\ k - Len(s) \in 1..b[n + 1]
      BY <1>4, <2>2
    <3>2. t[k][1] = n + 1 /\ t[k][2] = k - Len(s)
      BY <3>1
    <3> QED BY <3>1, <3>2
  <2>3. k \in Nat
    OBVIOUS
  <2> QED BY <1>2, <2>1, <2>2, <2>3
<1>7. ASSUME NEW p \in 1..(n + 1), NEW i \in 1..b[p]
      PROVE  \E k \in 1..Len(t) : t[k] = <<p, i>>
  <2>1. CASE p = n + 1
    <3>1. i \in 1..b[n + 1]
      BY <2>1
    <3>2. Len(s) + i \in 1..Len(t)
      <4>1. Len(t) = Len(s) + b[n + 1] /\ b[n + 1] \in Nat
        BY <1>1, <1>3
      <4> QED BY <1>2, <3>1, <4>1
    <3>3. t[Len(s) + i] = <<n + 1, i>>
      BY <1>3, <3>1
    <3> QED BY <2>1, <3>2, <3>3
  <2>2. CASE p # n + 1
    <3>0. p \in 1..n
      BY <2>2
    <3>1. PICK k \in 1..Len(s) : s[k] = <<p, i>>
      BY <3>0 DEF Lists
    <3>2. k \in 1..Len(t)
      BY <1>1, <1>2, <1>3
    <3> QED BY <1>3, <3>1, <3>2
  <2> QED BY <2>1, <2>2
<1>8. ASSUME NEW j \in 1..Len(t), NEW k \in 1..Len(t), j < k
      PROVE  Before(t[j], t[k])
  <2>0. j \in Nat /\ k \in Nat
    OBVIOUS
  <2>1. CASE k <= Len(s)
    <3>1. j <= Len(s)
      BY <1>2, <1>8, <2>0, <2>1
    <3>2. t[j] = s[j] /\ t[k] = s[k] /\ j \in 1..Len(s) /\ k \in 1..Len(s)
      BY <1>5, <2>1, <3>1
    <3>3. Before(s[j], s[k])
      BY <1>8, <3>2 DEF Lists
    <3> QED BY <3>2, <3>3
  <2>2. CASE j <= Len(s) /\ k > Len(s)
    <3>1. t[j][1] \in 1..n
      BY <1>5, <2>2
    <3>2. t[k] = <<n + 1, k - Len(s)>>
      BY <1>4, <2>2
    <3>3. t[k][1] = n + 1
      BY <3>2
    <3>4. t[j][1] < t[k][1]
      BY <3>1, <3>3
    <3> QED BY <3>4 DEF Before
  <2>3. CASE j > Len(s) /\ k > Len(s)
    <3>1. t[j] = <<n + 1, j - Len(s)>> /\ t[k] = <<n + 1, k - Len(s)>>
      BY <1>4, <2>3
    <3>2. j - Len(s) < k - Len(s)
      BY <1>2, <1>8, <2>0
    <3>3. t[j][1] = t[k][1] /\ t[j][2] < t[k][2]
      BY <3>1, <3>2
    <3> QED BY <3>3 DEF Before
  <2>4. (k <= Len(s) \/ k > Len(s)) /\ (j <= Len(s) \/ j > Len(s))
    BY <1>2, <2>0
  <2> QED BY <2>1, <2>2, <2>3, <2>4
<1>9. Lists(b, n + 1, t)
  BY <1>3, <1>6, <1>7, <1>8 DEF Lists
<1> QED BY <1>9 DEF t, u

\* What the recursion computes.
LEMMA FlattensLists ==
  ASSUME NEW b \in Seq(Nat), NEW f, Flattens(b, Len(b), f)
  PROVE  \A n \in 1..Len(b) : Lists(b, n, f[n])
<1> DEFINE S == {n \in Nat : n \in 1..Len(b) => Lists(b, n, f[n])}
<1>0. Len(b) \in Nat /\ DOMAIN b = 1..Len(b)
  OBVIOUS
<1>1. 0 \in S
  OBVIOUS
<1>2. ASSUME NEW n \in Nat, n \in S PROVE n + 1 \in S
  <2> SUFFICES ASSUME n + 1 \in 1..Len(b) PROVE Lists(b, n + 1, f[n + 1])
    OBVIOUS
  <2>1. CASE n = 0
    <3>1. 1 \in DOMAIN b /\ n + 1 = 1
      BY <1>0, <2>1
    <3>2. f[1] = SegmentsOf(b, 1)
      BY <1>0, <3>1 DEF Flattens
    <3>3. Lists(b, 1, f[1])
      BY <3>1, <3>2, FirstPage
    <3> QED BY <3>1, <3>3
  <2>2. CASE n # 0
    <3>1. n \in 1..Len(b) /\ n \in Nat \ {0} /\ n + 1 \in DOMAIN b
      BY <1>0, <2>2
    <3>2. Lists(b, n, f[n])
      BY <1>2, <3>1
    <3>3. PICK m : m = n + 1
      OBVIOUS
    <3>4. f[m] = f[m - 1] \o SegmentsOf(b, m)
      <4>1. m \in 1..Len(b) /\ m # 1
        BY <3>1, <3>3
      <4> QED BY <4>1, Zenon DEF Flattens
    <3>5. m - 1 = n
      BY <3>3
    <3>6. f[n + 1] = f[n] \o SegmentsOf(b, n + 1)
      BY <3>3, <3>4, <3>5
    <3> QED BY <3>1, <3>2, <3>6, NextPage
  <2> QED BY <2>1, <2>2
<1> HIDE DEF S
<1>3. Nat \subseteq S
  BY <1>1, <1>2, Everything
<1> QED BY <1>0, <1>3 DEF S

\* The text of a book lists the segments of its pages, each once, in order.
LEMMA TextLists ==
  ASSUME book \in Seq(Nat), Len(book) # 0
  PROVE  Lists(book, Len(book), Text)
<1> DEFINE paged == [p \in DOMAIN book |-> SegmentsOf(book, p)]
           flat == CHOOSE f : f = [i \in 1..Len(paged) |->
                                     IF i = 1 THEN paged[i] ELSE f[i - 1] \o paged[i]]
<1>0. Len(book) \in Nat /\ DOMAIN book = 1..Len(book)
  OBVIOUS
<1>1. Len(paged) = Len(book) /\ \A p \in 1..Len(book) : paged[p] = SegmentsOf(book, p)
  BY <1>0
<1>2. Text = flat[Len(paged)]
  <2>1. Len(paged) # 0
    BY <1>1
  <2> QED BY <2>1 DEF Text, FlattenSeq, SegmentsOf, Pages
<1>3. \A f : Flattens(book, Len(book), f) <=>
               f = [i \in 1..Len(paged) |-> IF i = 1 THEN paged[i] ELSE f[i - 1] \o paged[i]]
  BY <1>1 DEF Flattens
<1>4. \E f : Flattens(book, Len(book), f)
  BY <1>0, FlattensExists
<1>5. Flattens(book, Len(book), flat)
  BY <1>3, <1>4
<1> HIDE DEF flat, paged
<1>6. Lists(book, Len(book), flat[Len(book)])
  BY <1>0, <1>5, FlattensLists
<1> QED BY <1>1, <1>2, <1>6

-----------------------------------------------------------------------------
(* Books and places in them *)

\* There is a book, with at least a page.
Readable == book \in Seq(Nat) /\ Len(book) # 0

LEMMA PagesAre ==
  ASSUME Readable
  PROVE  /\ Len(book) \in Nat \ {0} /\ Pages = 1..Len(book)
         /\ \A p \in Pages : p \in Nat \ {0} /\ book[p] \in Nat
  BY DEF Readable, Pages

\* What the rest needs to know of the text.
LEMMA TextIs ==
  ASSUME Readable
  PROVE  /\ Len(Text) \in Nat /\ DOMAIN Text = 1..Len(Text)
         /\ Text # <<>> => 1 \in DOMAIN Text
         /\ \A k \in DOMAIN Text :
              /\ Text[k] = <<Text[k][1], Text[k][2]>> /\ Text[k] # None
              /\ Text[k][1] \in Pages /\ Text[k][2] \in 1..book[Text[k][1]]
         /\ \A p \in Pages : \A i \in 1..book[p] : <<p, i>> \in Segments
         /\ \A j, k \in DOMAIN Text : j < k => Before(Text[j], Text[k])
<1>1. Lists(book, Len(book), Text)
  BY TextLists DEF Readable
<1>2. Text \in Seq(Nat \X Nat)
  BY <1>1 DEF Lists
<1>3. Len(Text) \in Nat /\ DOMAIN Text = 1..Len(Text)
  BY <1>2
<1>7. Text # <<>> => 1 \in DOMAIN Text
  <2>1. Text # <<>> => Len(Text) \in Nat \ {0}
    BY <1>2, EmptySeq
  <2> QED BY <1>3, <2>1
<1>4. ASSUME NEW k \in DOMAIN Text
      PROVE  /\ Text[k] = <<Text[k][1], Text[k][2]>> /\ Text[k] # None
             /\ Text[k][1] \in Pages /\ Text[k][2] \in 1..book[Text[k][1]]
  <2>1. Text[k] \in Nat \X Nat
    BY <1>2, <1>3, <1>4
  <2>2. Text[k] = <<Text[k][1], Text[k][2]>> /\ Text[k] # None
    BY <2>1, ContentAssumption
  <2>3. Text[k][1] \in 1..Len(book) /\ Text[k][2] \in 1..book[Text[k][1]]
    BY <1>1, <1>3, <1>4 DEF Lists
  <2> QED BY <2>2, <2>3, PagesAre
<1>5. ASSUME NEW p \in Pages, NEW i \in 1..book[p]
      PROVE  <<p, i>> \in Segments
  <2>1. PICK k \in 1..Len(Text) : Text[k] = <<p, i>>
    BY <1>1, PagesAre DEF Lists
  <2> QED BY <1>3, <2>1 DEF Segments
<1>6. \A j, k \in DOMAIN Text : j < k => Before(Text[j], Text[k])
  BY <1>1, <1>3 DEF Lists
<1> QED BY <1>3, <1>4, <1>5, <1>6, <1>7

LEMMA InTextIs == \A s : InText(s) <=> s \in Segments
  BY DEF InText, Segments

\* A segment is at one place of the text.
LEMMA TextOnce ==
  ASSUME Readable, NEW j \in DOMAIN Text, NEW k \in DOMAIN Text, Text[j] = Text[k]
  PROVE  j = k
<1>1. j \in Nat /\ k \in Nat
  BY TextIs
<1>2. Text[j][1] \in Nat /\ Text[j][2] \in Nat
  <2>1. Text[j][1] \in Pages /\ Text[j][2] \in 1..book[Text[j][1]]
    BY TextIs
  <2> QED BY <2>1, PagesAre
<1>3. ~ Before(Text[j], Text[j])
  BY <1>2 DEF Before
<1>4. ~ (j < k) /\ ~ (k < j)
  BY <1>3, TextIs
<1> QED BY <1>1, <1>4

\* A cursor that points into the book.
Fits(c) ==
  /\ c \in [nav : Pages, page : Pages \cup {0}, index : Nat]
  /\ c.index <= (IF Reflowable THEN IF c.page = 0 THEN 0 ELSE book[c.page] ELSE Len(Text))

\* The segment a source has selected.
SelectedAt(c) == IF Reflowable THEN <<c.page, c.index>> ELSE Text[c.index]

\* A source that answers a segment has selected it; one that answers null has
\* nothing selected, or what it had.
Sound(c, r) ==
  /\ Fits(r.cursor)
  /\ \/ /\ r.answer = None
        /\ r.cursor.index = 0 \/ (r.cursor.page = c.page /\ r.cursor.index = c.index)
     \/ r.answer \in Segments /\ r.cursor.index > 0 /\ r.answer = SelectedAt(r.cursor)

LEMMA SegmentIsNotNull == ASSUME Readable PROVE None \notin Segments
  BY TextIs DEF Segments

LEMMA ResultIs ==
  /\ \A c, a : Result(c, a).cursor = c /\ Result(c, a).answer = a
  /\ \A n, p, i : Cursor(n, p, i).nav = n /\ Cursor(n, p, i).page = p /\ Cursor(n, p, i).index = i
  BY DEF Result, Cursor

\* Null, with the cursor where it was.
LEMMA StaysSound ==
  ASSUME NEW c, Fits(c)
  PROVE  Sound(c, Result(c, None))
  BY ResultIs DEF Sound

\* A segment of a page, selected.
LEMMA SelectsSound ==
  ASSUME Readable, Reflowable, NEW c, NEW n \in Pages, NEW p \in Pages, NEW i \in 1..book[p]
  PROVE  Sound(c, Result(Cursor(n, p, i), <<p, i>>)) /\ Fits(Cursor(n, p, i))
<1>1. p # 0 /\ book[p] \in Nat /\ i \in Nat /\ i > 0 /\ i <= book[p]
  BY PagesAre
<1>2. Fits(Cursor(n, p, i))
  BY <1>1 DEF Cursor, Fits
<1>3. <<p, i>> \in Segments
  BY TextIs
<1> QED BY <1>1, <1>2, <1>3, ResultIs DEF Sound, SelectedAt

\* Nothing selected, on the page where the search for text ended.
LEMMA LosesSound ==
  ASSUME Readable, Reflowable, NEW c, NEW p \in Pages
  PROVE  Sound(c, Result(Cursor(p, p, 0), None))
<1>1. p # 0 /\ book[p] \in Nat
  BY PagesAre
<1>2. Fits(Cursor(p, p, 0))
  BY <1>1 DEF Cursor, Fits
<1> QED BY <1>2, ResultIs DEF Sound

-----------------------------------------------------------------------------
(* The reflowable source *)

\* Forward from page p: the first segment of the first page with text, if any.
LEMMA ForwardIs ==
  ASSUME Readable, NEW c, NEW p \in Nat \ {0}
  PROVE  \/ /\ \A q \in p..Len(book) : book[q] = 0
            /\ SelectForward(c, p) = IF p > Len(book) THEN Result(c, None)
                                     ELSE Result(Cursor(Len(book), Len(book), 0), None)
         \/ \E q \in p..Len(book) :
              /\ book[q] > 0 /\ \A x \in p..(q - 1) : book[x] = 0
              /\ SelectForward(c, p) = Result(Cursor(q, q, 1), <<q, 1>>)
<1> DEFINE found == Spoken(p..Len(book))
<1>0. /\ Len(book) \in Nat \ {0}
      /\ \A q \in p..Len(book) : q \in Nat /\ q \in Pages /\ book[q] \in Nat
  BY PagesAre
<1>1. CASE p > Len(book)
  BY <1>0, <1>1 DEF SelectForward
<1>2. CASE p <= Len(book) /\ found = {}
  <2>1. \A q \in p..Len(book) : book[q] = 0
    BY <1>0, <1>2 DEF Spoken
  <2>2. SelectForward(c, p) = Result(Cursor(Len(book), Len(book), 0), None)
    BY <1>0, <1>2 DEF SelectForward
  <2> QED BY <1>0, <1>2, <2>1, <2>2
<1>3. CASE p <= Len(book) /\ found # {}
  <2>1. found \in SUBSET Nat
    BY <1>0 DEF Spoken
  <2>2. \E x \in found : \A y \in found : x <= y
    BY <1>3, <2>1, LeastNumber
  <2> DEFINE q == CHOOSE q \in found : \A r \in found : q <= r
  <2>3. q \in found /\ \A r \in found : q <= r
    BY <2>2
  <2>4. SelectForward(c, p) = Result(Cursor(q, q, 1), <<q, 1>>)
    BY <1>0, <1>3 DEF SelectForward
  <2> HIDE DEF q
  <2>5. q \in p..Len(book) /\ book[q] > 0
    BY <2>3 DEF Spoken
  <2>6. ASSUME NEW x \in p..(q - 1) PROVE book[x] = 0
    <3>1. x \in p..Len(book) /\ x < q /\ book[x] \in Nat
      BY <1>0, <2>5
    <3>2. x \notin found
      BY <2>3, <2>5, <3>1
    <3> QED BY <3>1, <3>2 DEF Spoken
  <2> QED BY <2>4, <2>5, <2>6
<1> QED BY <1>0, <1>1, <1>2, <1>3

\* Backward from page p: the last segment of the last page with text, if any.
LEMMA BackwardIs ==
  ASSUME Readable, NEW c, NEW p \in Nat, p <= Len(book)
  PROVE  \/ /\ \A q \in 1..p : book[q] = 0
            /\ SelectBackward(c, p) \in {Result(c, None), Result(Cursor(1, 1, 0), None)}
         \/ \E q \in 1..p :
              /\ book[q] > 0 /\ \A x \in (q + 1)..p : book[x] = 0
              /\ SelectBackward(c, p) = Result(Cursor(q, q, book[q]), <<q, book[q]>>)
<1> DEFINE found == Spoken(1..p)
<1>0. /\ Len(book) \in Nat \ {0}
      /\ \A q \in 1..p : q \in Nat /\ q \in Pages /\ book[q] \in Nat
  BY PagesAre
<1>1. CASE p = 0
  BY <1>0, <1>1 DEF SelectBackward
<1>2. CASE p # 0 /\ found = {}
  <2>1. \A q \in 1..p : book[q] = 0
    BY <1>0, <1>2 DEF Spoken
  <2>2. SelectBackward(c, p) = Result(Cursor(1, 1, 0), None)
    BY <1>2 DEF SelectBackward
  <2> QED BY <2>1, <2>2
<1>3. CASE p # 0 /\ found # {}
  <2>1. found \in SUBSET (0..p)
    BY <1>0 DEF Spoken
  <2>2. \E x \in found : \A y \in found : y <= x
    BY <1>3, <2>1, GreatestNumber
  <2> DEFINE q == CHOOSE q \in found : \A r \in found : r <= q
  <2>3. q \in found /\ \A r \in found : r <= q
    BY <2>2
  <2>4. SelectBackward(c, p) = Result(Cursor(q, q, book[q]), <<q, book[q]>>)
    BY <1>3 DEF SelectBackward, LastOfPage
  <2> HIDE DEF q
  <2>5. q \in 1..p /\ book[q] > 0
    BY <2>3 DEF Spoken
  <2>6. ASSUME NEW x \in (q + 1)..p PROVE book[x] = 0
    <3>1. x \in 1..p /\ q < x /\ book[x] \in Nat
      BY <1>0, <2>5
    <3>2. x \notin found
      BY <2>3, <2>5, <3>1
    <3> QED BY <3>1, <3>2 DEF Spoken
  <2> QED BY <2>4, <2>5, <2>6
<1> QED BY <1>1, <1>2, <1>3

LEMMA ForwardSound ==
  ASSUME Readable, Reflowable, NEW c, Fits(c), NEW p \in Nat \ {0}
  PROVE  Sound(c, SelectForward(c, p))
<1>0. Len(book) \in Pages
  BY PagesAre
<1>1. CASE SelectForward(c, p) \in {Result(c, None), Result(Cursor(Len(book), Len(book), 0), None)}
  BY <1>0, <1>1, StaysSound, LosesSound
<1>2. ASSUME NEW q \in p..Len(book), book[q] > 0, SelectForward(c, p) = Result(Cursor(q, q, 1), <<q, 1>>)
      PROVE  Sound(c, SelectForward(c, p))
  <2>1. q \in Pages /\ 1 \in 1..book[q]
    BY <1>2, PagesAre
  <2> QED BY <1>2, <2>1, SelectsSound
<1> QED BY <1>1, <1>2, ForwardIs

LEMMA BackwardSound ==
  ASSUME Readable, Reflowable, NEW c, Fits(c), NEW p \in Nat, p <= Len(book)
  PROVE  Sound(c, SelectBackward(c, p))
<1>0. 1 \in Pages
  BY PagesAre
<1>1. CASE SelectBackward(c, p) \in {Result(c, None), Result(Cursor(1, 1, 0), None)}
  BY <1>0, <1>1, StaysSound, LosesSound
<1>2. ASSUME NEW q \in 1..p, book[q] > 0, SelectBackward(c, p) = Result(Cursor(q, q, book[q]), <<q, book[q]>>)
      PROVE  Sound(c, SelectBackward(c, p))
  <2>1. q \in Pages /\ book[q] \in 1..book[q]
    BY <1>2, PagesAre
  <2> QED BY <1>2, <2>1, SelectsSound
<1> QED BY <1>1, <1>2, BackwardIs

\* A cursor of the reflowable source that has selected a segment.
LEMMA OnPage ==
  ASSUME Readable, Reflowable, NEW c, Fits(c), c.index # 0
  PROVE  /\ c.nav \in Pages /\ c.page \in Pages /\ c.index \in 1..book[c.page]
         /\ c = Cursor(c.nav, c.page, c.index)
<1>1. /\ c.nav \in Pages /\ c.page \in Pages \cup {0} /\ c.index \in Nat
      /\ c = Cursor(c.nav, c.page, c.index)
  BY DEF Fits, Cursor
<1>2. c.page # 0 /\ c.index <= book[c.page]
  BY <1>1 DEF Fits
<1> QED BY <1>1, <1>2, PagesAre

LEMMA NavIs ==
  ASSUME Readable, NEW c, Fits(c)
  PROVE  c.nav \in Nat \ {0} /\ c.nav + 1 \in Nat \ {0} /\ c.nav - 1 \in Nat /\ c.nav <= Len(book)
         /\ c.nav \in Pages /\ c.nav - 1 <= Len(book) /\ c.index \in Nat
  BY PagesAre DEF Fits

LEMMA ReflowableSound ==
  ASSUME Readable, Reflowable, NEW c, Fits(c)
  PROVE  /\ Sound(c, ReflowableCurrent(c))
         /\ Sound(c, ReflowableNext(c))
         /\ Sound(c, ReflowablePrevious(c))
         /\ \A s, refused : Sound(c, ReflowableSeek(c, s, refused))
<1>0. /\ c.nav \in Nat \ {0} /\ c.nav + 1 \in Nat \ {0} /\ c.nav - 1 \in Nat
      /\ c.nav - 1 <= Len(book) /\ c.index \in Nat
  BY NavIs
<1>1. Sound(c, ReflowableCurrent(c))
  <2>1. CASE c.index > 0
    <3>1. c.page \in Pages /\ c.index \in 1..book[c.page] /\ c.nav \in Pages
          /\ c = Cursor(c.nav, c.page, c.index)
      BY <2>1, OnPage
    <3>2. Sound(c, Result(Cursor(c.nav, c.page, c.index), <<c.page, c.index>>))
      BY <3>1, SelectsSound
    <3> QED BY <2>1, <3>1, <3>2 DEF ReflowableCurrent
  <2>2. CASE ~ (c.index > 0)
    BY <1>0, <2>2, ForwardSound DEF ReflowableCurrent
  <2> QED BY <2>1, <2>2
<1>2. Sound(c, ReflowableNext(c))
  <2>1. CASE c.index = 0
    BY <1>1, <2>1 DEF ReflowableNext
  <2>2. CASE c.index # 0 /\ c.index < book[c.page]
    <3>1. /\ c.nav \in Pages /\ c.page \in Pages /\ c.index \in 1..book[c.page]
          /\ c = Cursor(c.nav, c.page, c.index)
      BY <2>2, OnPage
    <3>2. c.index + 1 \in 1..book[c.page]
      BY <2>2, <3>1, PagesAre
    <3>3. [c EXCEPT !.index = @ + 1] = Cursor(c.nav, c.page, c.index + 1)
      BY <3>1 DEF Cursor
    <3>4. PICK i : i = c.index + 1
      OBVIOUS
    <3>5. Sound(c, Result(Cursor(c.nav, c.page, i), <<c.page, i>>))
      BY <3>1, <3>2, <3>4, SelectsSound
    <3> QED BY <2>2, <3>3, <3>4, <3>5 DEF ReflowableNext
  <2>3. CASE c.index # 0 /\ ~ (c.index < book[c.page])
    BY <1>0, <2>3, ForwardSound DEF ReflowableNext
  <2> QED BY <2>1, <2>2, <2>3
<1>3. Sound(c, ReflowablePrevious(c))
  <2>1. CASE c.index = 0
    BY <1>1, <2>1 DEF ReflowablePrevious
  <2>2. CASE c.index # 0 /\ c.index > 1
    <3>1. /\ c.nav \in Pages /\ c.page \in Pages /\ c.index \in 1..book[c.page]
          /\ c = Cursor(c.nav, c.page, c.index)
      BY <2>2, OnPage
    <3>2. c.index - 1 \in 1..book[c.page]
      BY <2>2, <3>1, PagesAre
    <3>3. [c EXCEPT !.index = @ - 1] = Cursor(c.nav, c.page, c.index - 1)
      BY <3>1 DEF Cursor
    <3>4. PICK i : i = c.index - 1
      OBVIOUS
    <3>5. Sound(c, Result(Cursor(c.nav, c.page, i), <<c.page, i>>))
      BY <3>1, <3>2, <3>4, SelectsSound
    <3> QED BY <2>2, <3>3, <3>4, <3>5 DEF ReflowablePrevious
  <2>3. CASE c.index # 0 /\ ~ (c.index > 1)
    BY <1>0, <2>3, BackwardSound DEF ReflowablePrevious
  <2> QED BY <2>1, <2>2, <2>3
<1>4. ASSUME NEW s, NEW refused PROVE Sound(c, ReflowableSeek(c, s, refused))
  <2>1. CASE refused \/ ~ InText(s)
    BY <2>1, StaysSound DEF ReflowableSeek
  <2>2. CASE ~ (refused \/ ~ InText(s))
    <3>1. PICK k \in DOMAIN Text : Text[k] = s
      BY <2>2 DEF InText
    <3>2. s = <<s[1], s[2]>> /\ s[1] \in Pages /\ s[2] \in 1..book[s[1]]
      BY <3>1, TextIs
    <3>3. Sound(c, Result(Cursor(s[1], s[1], s[2]), <<s[1], s[2]>>))
      BY <3>2, SelectsSound
    <3> QED BY <2>2, <3>2, <3>3 DEF ReflowableSeek
  <2> QED BY <2>1, <2>2
<1> QED BY <1>1, <1>2, <1>3, <1>4

-----------------------------------------------------------------------------
(* The PDF source *)

LEMMA PdfAtSound ==
  ASSUME Readable, ~ Reflowable, NEW c, Fits(c), NEW k \in DOMAIN Text
  PROVE  Sound(c, PdfAt(c, k))
<1>1. k \in Nat /\ k > 0 /\ k <= Len(Text)
  BY TextIs
<1>2. Fits([c EXCEPT !.index = k]) /\ [c EXCEPT !.index = k].index = k
  BY <1>1 DEF Fits
<1>3. Text[k] \in Segments
  BY DEF Segments
<1>4. PICK d : d = [c EXCEPT !.index = k]
  OBVIOUS
<1>5. Fits(d) /\ d.index = k
  BY <1>2, <1>4
<1>6. PdfAt(c, k) = Result(d, Text[k])
  BY <1>4 DEF PdfAt
<1>7. SelectedAt(d) = Text[k]
  BY <1>5 DEF SelectedAt
<1>8. Sound(c, Result(d, Text[k]))
  BY <1>1, <1>3, <1>5, <1>7, ResultIs DEF Sound
<1> QED BY <1>6, <1>8

LEMMA PdfSound ==
  ASSUME Readable, ~ Reflowable, NEW c, Fits(c)
  PROVE  /\ Sound(c, PdfCurrent(c))
         /\ Sound(c, PdfNext(c))
         /\ Sound(c, PdfPrevious(c))
         /\ \A s : Sound(c, PdfSeek(c, s))
<1>0. c.index \in Nat /\ c.index <= Len(Text)
  BY DEF Fits
<1>1. Sound(c, PdfCurrent(c))
  <2>1. CASE c.index > 0
    <3>1. c.index \in DOMAIN Text
      BY <1>0, <2>1, TextIs
    <3> QED BY <2>1, <3>1, PdfAtSound DEF PdfCurrent
  <2>2. CASE ~ (c.index > 0) /\ Text # <<>>
    BY <2>2, TextIs, PdfAtSound DEF PdfCurrent
  <2>3. CASE ~ (c.index > 0) /\ Text = <<>>
    BY <2>3, StaysSound DEF PdfCurrent
  <2> QED BY <2>1, <2>2, <2>3
<1>2. Sound(c, PdfNext(c))
  <2>1. CASE c.index = 0
    BY <1>1, <2>1 DEF PdfNext
  <2>2. CASE c.index # 0 /\ HasFollowing(c)
    <3>1. PICK k \in DOMAIN Text : k = c.index + 1
      BY <1>0, <2>2, TextIs DEF HasFollowing
    <3> QED BY <2>2, <3>1, PdfAtSound DEF PdfNext
  <2>3. CASE c.index # 0 /\ ~ HasFollowing(c)
    BY <2>3, StaysSound DEF PdfNext
  <2> QED BY <2>1, <2>2, <2>3
<1>3. Sound(c, PdfPrevious(c))
  <2>1. CASE c.index = 0
    BY <1>1, <2>1 DEF PdfPrevious
  <2>2. CASE c.index # 0 /\ c.index > 1
    <3>1. PICK k \in DOMAIN Text : k = c.index - 1
      BY <1>0, <2>2, TextIs
    <3> QED BY <2>2, <3>1, PdfAtSound DEF PdfPrevious
  <2>3. CASE c.index # 0 /\ ~ (c.index > 1)
    BY <2>3, StaysSound DEF PdfPrevious
  <2> QED BY <2>1, <2>2, <2>3
<1>4. ASSUME NEW s PROVE Sound(c, PdfSeek(c, s))
  <2>1. CASE InText(s)
    <3>1. PICK k \in DOMAIN Text : k = CHOOSE j \in DOMAIN Text : Text[j] = s
      BY <2>1 DEF InText
    <3> QED BY <2>1, <3>1, PdfAtSound DEF PdfSeek
  <2>2. CASE ~ InText(s)
    <3>1. Fits([c EXCEPT !.index = 0]) /\ [c EXCEPT !.index = 0].index = 0
      <4>1. c.page # 0 => book[c.page] \in Nat
        BY PagesAre DEF Fits
      <4> QED BY <1>0, <4>1 DEF Fits
    <3> QED BY <2>2, <3>1, ResultIs DEF PdfSeek, Sound
  <2> QED BY <2>1, <2>2
<1> QED BY <1>1, <1>2, <1>3, <1>4

-----------------------------------------------------------------------------
(* The inductive invariant *)

\* The voice reads a segment of the book, the one the source has selected unless it
\* has selected none, and the source's cursor points into the book.
IInv ==
  /\ kind \in Kinds /\ book \in Books /\ played \in BOOLEAN
  /\ Fits(cursor)
  /\ reading \in Segments \cup {None}
  /\ VoiceIsSelected

LEMMA InvReadable == IInv => Readable
<1> SUFFICES ASSUME IInv PROVE Readable
  OBVIOUS
<1>1. book \in Seq(Nat) /\ cursor.nav \in DOMAIN book
  BY ContentAssumption DEF IInv, Fits, Pages
<1> QED BY <1>1 DEF Readable

\* Whatever the source is asked, its answer is sound.
LEMMA MovesSound ==
  ASSUME Readable, NEW c, Fits(c)
  PROVE  /\ Sound(c, Current(c)) /\ Sound(c, Following(c)) /\ Sound(c, Preceding(c))
         /\ \A s, refused : Sound(c, Sought(c, s, refused))
<1>1. CASE Reflowable
  BY <1>1, ReflowableSound DEF Current, Following, Preceding, Sought
<1>2. CASE ~ Reflowable
  BY <1>2, PdfSound DEF Current, Following, Preceding, Sought
<1> QED BY <1>1, <1>2

LEMMA SelectedIs == Selected = SelectedAt(cursor)
  BY DEF Selected, SelectedAt

\* A session that begins what a sound answer names.
LEMMA ReadKeeps ==
  ASSUME IInv, NEW c, NEW r, Sound(c, r), Read(r), UNCHANGED <<kind, book>>, played' \in BOOLEAN
  PROVE  IInv'
<1>1. cursor' = r.cursor /\ reading' = r.answer /\ kind' = kind /\ book' = book
  BY DEF Read
<1>2. Fits(cursor)'
  BY <1>1 DEF Sound, Fits, Pages, Reflowable, Text
<1>3. reading' \in Segments' \cup {None}
  BY <1>1 DEF Sound, Segments, Text, Pages
<1>4. VoiceIsSelected'
  BY <1>1 DEF Sound, VoiceIsSelected, Selected, SelectedAt, Reflowable, Text, Pages
<1> QED BY <1>1, <1>2, <1>3, <1>4 DEF IInv

\* A command's sound answer; null leaves the voice and what the source has selected.
LEMMA MoveKeeps ==
  ASSUME IInv, NEW c, c.page = cursor.page, c.index = cursor.index,
         NEW r, Sound(c, r), Move(r)
  PROVE  IInv'
<1>1. /\ cursor' = r.cursor /\ kind' = kind /\ book' = book /\ played' = played
      /\ reading' = IF r.answer = None THEN reading ELSE r.answer
  BY DEF Move
<1>2. Fits(cursor)'
  BY <1>1 DEF Sound, Fits, Pages, Reflowable, Text
<1>3. reading' \in Segments' \cup {None}
  BY <1>1 DEF IInv, Sound, Segments, Text, Pages
<1>4. VoiceIsSelected'
  <2>1. CASE r.answer = None /\ r.cursor.index = 0
    BY <1>1, <2>1 DEF VoiceIsSelected
  <2>2. CASE r.answer = None /\ r.cursor.page = cursor.page /\ r.cursor.index = cursor.index
    BY <1>1, <2>2 DEF IInv, VoiceIsSelected, Selected, Reflowable, Text, Pages
  <2>3. CASE r.answer # None /\ r.answer = SelectedAt(r.cursor)
    BY <1>1, <2>3 DEF VoiceIsSelected, Selected, SelectedAt, Reflowable, Text, Pages
  <2> QED BY <2>1, <2>2, <2>3, InvReadable, SegmentIsNotNull DEF Sound
<1> QED BY <1>1, <1>2, <1>3, <1>4 DEF IInv

LEMMA TurnedFits ==
  ASSUME Fits(cursor), NEW p \in Pages
  PROVE  /\ Fits([cursor EXCEPT !.nav = p])
         /\ [cursor EXCEPT !.nav = p].page = cursor.page /\ [cursor EXCEPT !.nav = p].index = cursor.index
  BY DEF Fits

LEMMA InvStep == IInv /\ [Next]_vars => IInv'
<1> SUFFICES ASSUME IInv, [Next]_vars PROVE IInv'
  OBVIOUS
<1>0. Readable /\ Fits(cursor) /\ played \in BOOLEAN
  BY InvReadable DEF IInv
<1>1. CASE Start
  <2>1. Fits(PdfSeek(cursor, <<cursor.nav, 1>>).cursor) \/ Reflowable
    BY <1>0, PdfSound DEF Sound
  <2>2. PICK c : /\ c = IF Reflowable THEN cursor ELSE PdfSeek(cursor, <<cursor.nav, 1>>).cursor
                 /\ Fits(c)
    BY <1>0, <2>1
  <2>3. Read(Current(c)) /\ UNCHANGED <<kind, book>> /\ played' \in BOOLEAN
    BY <1>1, <2>2 DEF Start
  <2>4. Sound(c, Current(c))
    BY <1>0, <2>2, MovesSound
  <2> QED BY <2>3, <2>4, ReadKeeps
<1>2. CASE Finished
  <2>1. Read(Following(cursor)) /\ UNCHANGED <<kind, book>> /\ played' \in BOOLEAN
    BY <1>0, <1>2 DEF Finished
  <2> QED BY <1>0, <2>1, MovesSound, ReadKeeps
<1>3. CASE NextCommand \/ PreviousCommand
  BY <1>0, <1>3, MovesSound, MoveKeeps DEF NextCommand, PreviousCommand
<1>4. ASSUME NEW p \in Pages, TurnsTo(p) PROVE IInv'
  <2>1. PICK c : c = [cursor EXCEPT !.nav = p]
    OBVIOUS
  <2>2. Fits(c) /\ c.page = cursor.page /\ c.index = cursor.index
    BY <1>0, <2>1, TurnedFits
  <2>3. \/ Move(Result(c, None))
        \/ \E refused \in BOOLEAN : Move(Sought(c, <<p, 1>>, refused))
    BY <1>4, <2>1 DEF TurnsTo
  <2>4. Sound(c, Result(c, None)) /\ \A refused : Sound(c, Sought(c, <<p, 1>>, refused))
    BY <1>0, <2>2, MovesSound, StaysSound
  <2> QED BY <2>2, <2>3, <2>4, MoveKeeps
<1>5. CASE UNCHANGED vars
  BY <1>5 DEF vars, IInv, Fits, Segments, VoiceIsSelected, Selected, Reflowable, Text, Pages
<1> QED BY <1>1, <1>2, <1>3, <1>4, <1>5 DEF Next

LEMMA InitInv == Init => IInv
<1> SUFFICES ASSUME Init PROVE IInv
  OBVIOUS
<1>1. PICK p \in Pages : cursor = Cursor(p, 0, 0)
  BY DEF Init
<1>2. Fits(cursor)
  <2>1. Len(Text) >= 0
    <3>1. book \in Seq(Nat)
      BY ContentAssumption DEF Init
    <3>2. Readable
      BY <1>1, <3>1 DEF Readable, Pages
    <3>3. Len(Text) \in Nat
      BY <3>2, TextIs
    <3> QED BY <3>3
  <2> QED BY <1>1, <2>1 DEF Fits, Cursor
<1> QED BY <1>2 DEF Init, IInv, VoiceIsSelected


\* The voice reads a segment of the book that the source has selected, and the
\* cursor points into the book: an invariant for any books and both sources.
THEOREM Inductive == Spec => []IInv
<1> QED BY InitInv, InvStep, PTL DEF Spec

\* The variables stay within their types.
THEOREM TypeCorrect == Spec => []TypeOK
<1>1. IInv => TypeOK
  <2> SUFFICES ASSUME IInv PROVE TypeOK
    OBVIOUS
  <2>1. /\ Fits(cursor) /\ cursor.index \in Nat
        /\ cursor.nav \in Pages /\ cursor.page \in Pages \cup {0}
    BY DEF IInv, Fits
  <2>2. Len(Text) \in Nat /\ \A p \in Pages : book[p] \in Nat
    BY InvReadable, PagesAre, TextIs
  <2>3. cursor.index \in 0..(IF Reflowable THEN IF cursor.page = 0 THEN 0 ELSE book[cursor.page]
                             ELSE Len(Text))
    BY <2>1, <2>2 DEF Fits
  <2> QED BY <2>1, <2>3 DEF IInv, TypeOK
<1> QED BY <1>1, Inductive, PTL

\* What is read is what the source has selected, unless it has selected nothing.
THEOREM VoiceSelected == Spec => []VoiceIsSelected
<1>1. IInv => VoiceIsSelected
  BY DEF IInv
<1> QED BY <1>1, Inductive, PTL

-----------------------------------------------------------------------------
(* Next and previous, from a selected segment of the page shown *)

\* Next: the page's next segment, or the first of the next page with text, if any.
LEMMA NextIs ==
  ASSUME Readable, NEW p \in Pages, NEW i \in 1..book[p], NEW c, c = Cursor(p, p, i)
  PROVE  \/ /\ i < book[p]
            /\ ReflowableNext(c) = Result(Cursor(p, p, i + 1), <<p, i + 1>>)
         \/ /\ i = book[p] /\ \A q \in (p + 1)..Len(book) : book[q] = 0
            /\ ReflowableNext(c) = IF p = Len(book) THEN Result(c, None)
                                   ELSE Result(Cursor(Len(book), Len(book), 0), None)
         \/ /\ i = book[p]
            /\ \E q \in (p + 1)..Len(book) :
                 /\ book[q] > 0 /\ \A x \in (p + 1)..(q - 1) : book[x] = 0
                 /\ ReflowableNext(c) = Result(Cursor(q, q, 1), <<q, 1>>)
<1>1. p \in Nat /\ p + 1 \in Nat \ {0} /\ book[p] \in Nat /\ i \in Nat /\ i # 0 /\ i <= book[p]
  BY PagesAre
<1>2. c.nav = p /\ c.page = p /\ c.index = i
  BY ResultIs
<1>3. CASE i < book[p]
  <2>1. ReflowableNext(c) = Result([c EXCEPT !.index = @ + 1], <<p, i + 1>>)
    BY <1>1, <1>2, <1>3 DEF ReflowableNext
  <2>2. [c EXCEPT !.index = @ + 1] = Cursor(p, p, i + 1)
    BY <1>2 DEF Cursor
  <2> QED BY <1>3, <2>1, <2>2
<1>4. CASE ~ (i < book[p])
  <2>1. i = book[p]
    BY <1>1, <1>4
  <2>2. PICK m \in Nat \ {0} : m = p + 1
    BY <1>1
  <2>3. ReflowableNext(c) = SelectForward(c, m)
    BY <1>1, <1>2, <1>4, <2>2 DEF ReflowableNext
  <2>4. CASE /\ \A q \in m..Len(book) : book[q] = 0
             /\ SelectForward(c, m) = IF m > Len(book) THEN Result(c, None)
                                      ELSE Result(Cursor(Len(book), Len(book), 0), None)
    <3>1. m > Len(book) <=> p = Len(book)
      BY <2>2, PagesAre
    <3> QED BY <2>1, <2>2, <2>3, <2>4, <3>1
  <2>5. CASE \E q \in m..Len(book) :
               /\ book[q] > 0 /\ \A x \in m..(q - 1) : book[x] = 0
               /\ SelectForward(c, m) = Result(Cursor(q, q, 1), <<q, 1>>)
    BY <2>1, <2>2, <2>3, <2>5
  <2> QED BY <2>4, <2>5, ForwardIs
<1> QED BY <1>3, <1>4

\* Previous: the page's previous segment, or the last of the last page with text.
LEMMA PreviousIs ==
  ASSUME Readable, NEW p \in Pages, NEW i \in 1..book[p], NEW c, c = Cursor(p, p, i)
  PROVE  \/ /\ i > 1
            /\ ReflowablePrevious(c) = Result(Cursor(p, p, i - 1), <<p, i - 1>>)
         \/ /\ i = 1 /\ \A q \in 1..(p - 1) : book[q] = 0
            /\ ReflowablePrevious(c) \in {Result(c, None), Result(Cursor(1, 1, 0), None)}
         \/ /\ i = 1
            /\ \E q \in 1..(p - 1) :
                 /\ book[q] > 0 /\ \A x \in (q + 1)..(p - 1) : book[x] = 0
                 /\ ReflowablePrevious(c) = Result(Cursor(q, q, book[q]), <<q, book[q]>>)
<1>1. /\ p - 1 \in Nat /\ p - 1 <= Len(book) /\ book[p] \in Nat
      /\ i \in Nat /\ i # 0 /\ i <= book[p]
  BY PagesAre
<1>2. c.nav = p /\ c.page = p /\ c.index = i
  BY ResultIs
<1>3. CASE i > 1
  <2>1. ReflowablePrevious(c) = Result([c EXCEPT !.index = @ - 1], <<p, i - 1>>)
    BY <1>1, <1>2, <1>3 DEF ReflowablePrevious
  <2>2. [c EXCEPT !.index = @ - 1] = Cursor(p, p, i - 1)
    BY <1>2 DEF Cursor
  <2> QED BY <1>3, <2>1, <2>2
<1>4. CASE ~ (i > 1)
  <2>1. i = 1
    BY <1>1, <1>4
  <2>2. PICK m \in Nat : m = p - 1 /\ m <= Len(book)
    BY <1>1
  <2>3. ReflowablePrevious(c) = SelectBackward(c, m)
    BY <1>1, <1>2, <1>4, <2>2 DEF ReflowablePrevious
  <2>4. CASE /\ \A q \in 1..m : book[q] = 0
             /\ SelectBackward(c, m) \in {Result(c, None), Result(Cursor(1, 1, 0), None)}
    BY <2>1, <2>2, <2>3, <2>4, ResultIs
  <2>5. CASE \E q \in 1..m :
               /\ book[q] > 0 /\ \A x \in (q + 1)..m : book[x] = 0
               /\ SelectBackward(c, m) = Result(Cursor(q, q, book[q]), <<q, book[q]>>)
    BY <2>1, <2>2, <2>3, <2>5
  <2> QED BY <2>2, <2>4, <2>5, BackwardIs
<1> QED BY <1>3, <1>4

\* On and back, over the page end and the blank pages behind it.
LEMMA NextUndone ==
  ASSUME Readable, NEW p \in Pages, NEW i \in 1..book[p], NEW c, c = Cursor(p, p, i),
         ReflowableNext(c).answer # None
  PROVE  ReflowablePrevious(ReflowableNext(c).cursor) = Result(c, <<p, i>>)
<1>1. p \in Nat \ {0} /\ book[p] \in Nat /\ i \in Nat \ {0} /\ p <= Len(book) /\ Len(book) \in Nat
  BY PagesAre
<1>2. CASE i < book[p] /\ ReflowableNext(c) = Result(Cursor(p, p, i + 1), <<p, i + 1>>)
  <2>1. PICK j \in 1..book[p] : j = i + 1
    BY <1>1, <1>2
  <2>2. PICK d : d = Cursor(p, p, j)
    OBVIOUS
  <2>3. j > 1 /\ j # 1 /\ j - 1 = i
    BY <1>1, <2>1
  <2>4. ReflowablePrevious(d) = Result(Cursor(p, p, j - 1), <<p, j - 1>>)
    BY <2>2, <2>3, PreviousIs
  <2> QED BY <1>2, <2>1, <2>2, <2>3, <2>4, ResultIs
<1>3. ASSUME i = book[p], NEW q \in (p + 1)..Len(book),
             book[q] > 0, \A x \in (p + 1)..(q - 1) : book[x] = 0,
             ReflowableNext(c) = Result(Cursor(q, q, 1), <<q, 1>>)
      PROVE  ReflowablePrevious(ReflowableNext(c).cursor) = Result(c, <<p, i>>)
  <2>1. PICK d : d = Cursor(q, q, 1)
    OBVIOUS
  <2>2. q \in Pages /\ 1 \in 1..book[q] /\ q \in Nat /\ ~ (1 > 1)
    BY <1>1, <1>3, PagesAre
  <2>3. p \in 1..(q - 1) /\ book[p] # 0
    BY <1>1, <2>2
  <2>4. PICK r \in 1..(q - 1) :
          /\ book[r] > 0 /\ \A x \in (r + 1)..(q - 1) : book[x] = 0
          /\ ReflowablePrevious(d) = Result(Cursor(r, r, book[r]), <<r, book[r]>>)
    BY <2>1, <2>2, <2>3, PreviousIs
  <2>5. r = p
    <3>1. ~ (r < p)
      BY <1>1, <2>2, <2>3, <2>4
    <3>2. ~ (r > p)
      <4>1. ASSUME r > p PROVE r \in (p + 1)..(q - 1)
        BY <1>1, <2>2, <4>1
      <4> QED BY <1>3, <2>4, <4>1
    <3> QED BY <1>1, <2>2, <3>1, <3>2
  <2> QED BY <1>3, <2>1, <2>4, <2>5, ResultIs
<1>4. \/ i < book[p] /\ ReflowableNext(c) = Result(Cursor(p, p, i + 1), <<p, i + 1>>)
      \/ \E q \in (p + 1)..Len(book) :
           /\ i = book[p] /\ book[q] > 0 /\ \A x \in (p + 1)..(q - 1) : book[x] = 0
           /\ ReflowableNext(c) = Result(Cursor(q, q, 1), <<q, 1>>)
  BY NextIs, ResultIs
<1> QED BY <1>2, <1>3, <1>4

\* Back and on.
LEMMA PreviousUndone ==
  ASSUME Readable, NEW p \in Pages, NEW i \in 1..book[p], NEW c, c = Cursor(p, p, i),
         ReflowablePrevious(c).answer # None
  PROVE  ReflowableNext(ReflowablePrevious(c).cursor) = Result(c, <<p, i>>)
<1>1. p \in Nat \ {0} /\ book[p] \in Nat /\ i \in Nat \ {0} /\ i <= book[p]
      /\ p <= Len(book) /\ Len(book) \in Nat
  BY PagesAre
<1>2. CASE i > 1 /\ ReflowablePrevious(c) = Result(Cursor(p, p, i - 1), <<p, i - 1>>)
  <2>1. PICK j \in 1..book[p] : j = i - 1
    BY <1>1, <1>2
  <2>2. PICK d : d = Cursor(p, p, j)
    OBVIOUS
  <2>3. j < book[p] /\ j # book[p] /\ j + 1 = i
    BY <1>1, <2>1
  <2>4. ReflowableNext(d) = Result(Cursor(p, p, j + 1), <<p, j + 1>>)
    BY <2>2, <2>3, NextIs
  <2> QED BY <1>2, <2>1, <2>2, <2>3, <2>4, ResultIs
<1>3. ASSUME i = 1, NEW q \in 1..(p - 1),
             book[q] > 0, \A x \in (q + 1)..(p - 1) : book[x] = 0,
             ReflowablePrevious(c) = Result(Cursor(q, q, book[q]), <<q, book[q]>>)
      PROVE  ReflowableNext(ReflowablePrevious(c).cursor) = Result(c, <<p, i>>)
  <2>1. PICK d : d = Cursor(q, q, book[q])
    OBVIOUS
  <2>2. q \in Pages /\ book[q] \in 1..book[q] /\ q \in Nat /\ ~ (book[q] < book[q])
    BY <1>1, <1>3, PagesAre
  <2>3. p \in (q + 1)..Len(book) /\ book[p] # 0
    BY <1>1, <2>2
  <2>4. PICK r \in (q + 1)..Len(book) :
          /\ book[r] > 0 /\ \A x \in (q + 1)..(r - 1) : book[x] = 0
          /\ ReflowableNext(d) = Result(Cursor(r, r, 1), <<r, 1>>)
    <3>1. PICK j \in 1..book[q] : j = book[q] /\ ~ (j < book[q]) /\ d = Cursor(q, q, j)
      BY <2>1, <2>2
    <3>2. ~ \A x \in (q + 1)..Len(book) : book[x] = 0
      BY <2>3
    <3>3. \/ \A x \in (q + 1)..Len(book) : book[x] = 0
          \/ \E x \in (q + 1)..Len(book) :
               /\ book[x] > 0 /\ \A y \in (q + 1)..(x - 1) : book[y] = 0
               /\ ReflowableNext(d) = Result(Cursor(x, x, 1), <<x, 1>>)
      <4>1. q \in Pages /\ ~ (j < book[q])
        BY <2>2, <3>1
      <4> QED BY <3>1, <4>1, NextIs
    <3> QED BY <3>2, <3>3
  <2>5. r = p
    <3>1. ~ (r > p)
      <4>1. ASSUME r > p PROVE p \in (q + 1)..(r - 1)
        BY <1>1, <2>2, <4>1
      <4> QED BY <2>3, <2>4, <4>1
    <3>2. ~ (r < p)
      <4>1. ASSUME r < p PROVE r \in (q + 1)..(p - 1)
        BY <1>1, <2>2, <4>1
      <4> QED BY <1>3, <2>4, <4>1
    <3> QED BY <1>1, <2>2, <3>1, <3>2
  <2> QED BY <1>3, <2>1, <2>4, <2>5, ResultIs
<1>4. ~ ReflowablePrevious(c) \in {Result(c, None), Result(Cursor(1, 1, 0), None)}
  BY ResultIs
<1>5. \/ i > 1 /\ ReflowablePrevious(c) = Result(Cursor(p, p, i - 1), <<p, i - 1>>)
      \/ \E q \in 1..(p - 1) :
           /\ i = 1 /\ book[q] > 0 /\ \A x \in (q + 1)..(p - 1) : book[x] = 0
           /\ ReflowablePrevious(c) = Result(Cursor(q, q, book[q]), <<q, book[q]>>)
  BY <1>4, PreviousIs
<1> QED BY <1>2, <1>3, <1>5

\* On from the last segment with text: there is nothing, then and afterwards.
LEMMA NextStays ==
  ASSUME Readable, NEW p \in Pages, NEW i \in 1..book[p], NEW c, c = Cursor(p, p, i),
         ReflowableNext(c).answer = None
  PROVE  ReflowableNext(ReflowableNext(c).cursor).answer = None
<1>1. p \in Nat \ {0} /\ Len(book) \in Nat \ {0} /\ p <= Len(book) /\ <<p, i + 1>> # None
  BY PagesAre, ContentAssumption
<1>2. \A q \in (p + 1)..Len(book) : <<q, 1>> # None
  BY <1>1, ContentAssumption
<1>3. /\ \A q \in (p + 1)..Len(book) : book[q] = 0
      /\ ReflowableNext(c) = IF p = Len(book) THEN Result(c, None)
                             ELSE Result(Cursor(Len(book), Len(book), 0), None)
  <2>1. ReflowableNext(c) # Result(Cursor(p, p, i + 1), <<p, i + 1>>)
    BY <1>1, ResultIs
  <2>2. \A q \in (p + 1)..Len(book) : ReflowableNext(c) # Result(Cursor(q, q, 1), <<q, 1>>)
    BY <1>2, ResultIs
  <2>3. \/ ReflowableNext(c) = Result(Cursor(p, p, i + 1), <<p, i + 1>>)
        \/ /\ \A q \in (p + 1)..Len(book) : book[q] = 0
           /\ ReflowableNext(c) = IF p = Len(book) THEN Result(c, None)
                                  ELSE Result(Cursor(Len(book), Len(book), 0), None)
        \/ \E q \in (p + 1)..Len(book) : ReflowableNext(c) = Result(Cursor(q, q, 1), <<q, 1>>)
    BY NextIs
  <2> QED BY <2>1, <2>2, <2>3
<1>4. CASE p = Len(book)
  BY <1>3, <1>4, ResultIs
<1>5. CASE p # Len(book)
  <2>1. PICK d : d = Cursor(Len(book), Len(book), 0)
    OBVIOUS
  <2>2. ReflowableNext(d) = SelectForward(d, Len(book))
    BY <2>1, ResultIs DEF ReflowableNext, ReflowableCurrent
  <2>3. book[Len(book)] = 0 /\ \A q \in Len(book)..Len(book) : q = Len(book)
    BY <1>1, <1>3, <1>5
  <2>4. SelectForward(d, Len(book)).answer = None
    <3>1. ~ \E q \in Len(book)..Len(book) : book[q] > 0
      BY <2>3
    <3>2. SelectForward(d, Len(book)) = IF Len(book) > Len(book) THEN Result(d, None)
                                        ELSE Result(Cursor(Len(book), Len(book), 0), None)
      BY <1>1, <3>1, ForwardIs
    <3> QED BY <3>2, ResultIs
  <2> QED BY <1>3, <1>5, <2>1, <2>2, <2>4, ResultIs
<1> QED BY <1>4, <1>5

\* Back from the first segment with text: the source stays, or is before it.
LEMMA PreviousStays ==
  ASSUME Readable, NEW p \in Pages, NEW i \in 1..book[p], NEW c, c = Cursor(p, p, i),
         ReflowablePrevious(c).answer = None
  PROVE  LET back == ReflowablePrevious(c) IN
           back.cursor = c \/ ReflowableNext(back.cursor).answer = <<p, i>>
<1>1. p \in Nat \ {0} /\ Len(book) \in Nat \ {0} /\ p <= Len(book) /\ book[p] # 0
  BY PagesAre
<1>2. i > 1 => <<p, i - 1>> # None
  BY <1>1, ContentAssumption
<1>3. \A q \in 1..(p - 1) : <<q, book[q]>> # None
  <2>1. \A q \in 1..(p - 1) : q \in Pages /\ q \in Nat
    BY <1>1, PagesAre
  <2> QED BY <2>1, PagesAre, ContentAssumption
<1>4. /\ i = 1 /\ \A q \in 1..(p - 1) : book[q] = 0
      /\ ReflowablePrevious(c) \in {Result(c, None), Result(Cursor(1, 1, 0), None)}
  <2>1. i > 1 => ReflowablePrevious(c) # Result(Cursor(p, p, i - 1), <<p, i - 1>>)
    BY <1>2, ResultIs
  <2>2. \A q \in 1..(p - 1) : ReflowablePrevious(c) # Result(Cursor(q, q, book[q]), <<q, book[q]>>)
    BY <1>3, ResultIs
  <2> QED BY <2>1, <2>2, PreviousIs
<1>5. PICK d : d = Cursor(1, 1, 0)
  OBVIOUS
<1>6. ReflowableNext(d) = SelectForward(d, 1)
  BY <1>5, ResultIs DEF ReflowableNext, ReflowableCurrent
<1>7. p \in 1..Len(book)
  BY <1>1
<1>8. PICK q \in 1..Len(book) :
        /\ book[q] > 0 /\ \A x \in 1..(q - 1) : book[x] = 0
        /\ SelectForward(d, 1) = Result(Cursor(q, q, 1), <<q, 1>>)
  BY <1>1, <1>7, ForwardIs
<1>9. q = p
  <2>1. ~ (p < q)
    BY <1>1, <1>8
  <2>2. ~ (q < p)
    BY <1>1, <1>4, <1>8
  <2> QED BY <1>1, <1>8, <2>1, <2>2
<1> QED BY <1>4, <1>5, <1>6, <1>8, <1>9, ResultIs

\* A cursor of a document at segment k, and one moved there.
LEMMA DocumentAt ==
  ASSUME ~ Reflowable, NEW c, Fits(c)
  PROVE  /\ PdfAt(c, c.index) = Result(c, Text[c.index])
         /\ \A k \in Nat : /\ PdfAt(c, k).cursor.index = k /\ PdfAt(c, k).answer = Text[k]
                           /\ \A j : PdfAt(PdfAt(c, k).cursor, j) = PdfAt(c, j)
  BY ResultIs DEF Fits, PdfAt

\* The same for a document: one segment on, and one back.
LEMMA DocumentUndone ==
  ASSUME Readable, ~ Reflowable, NEW c, Fits(c), c.index > 0
  PROVE  /\ PdfNext(c).answer # None =>
              PdfPrevious(PdfNext(c).cursor) = Result(c, Text[c.index])
         /\ PdfPrevious(c).answer # None =>
              PdfNext(PdfPrevious(c).cursor) = Result(c, Text[c.index])
         /\ PdfNext(c).answer = None => PdfNext(PdfNext(c).cursor).answer = None
         /\ PdfPrevious(c).answer = None => PdfPrevious(c).cursor = c
<1>1. c.index \in Nat /\ c.index # 0 /\ c.index <= Len(Text) /\ Len(Text) \in Nat
  BY TextIs DEF Fits
<1>2. ASSUME PdfNext(c).answer # None
      PROVE  PdfPrevious(PdfNext(c).cursor) = Result(c, Text[c.index])
  <2>1. HasFollowing(c)
    BY <1>1, <1>2, ResultIs DEF PdfNext
  <2>2. PICK k \in Nat : k = c.index + 1
    BY <1>1
  <2>3. PdfNext(c) = PdfAt(c, k)
    BY <1>1, <2>1, <2>2 DEF PdfNext
  <2>4. PICK d : d = PdfAt(c, k).cursor
    OBVIOUS
  <2>5. d.index = k /\ \A j : PdfAt(d, j) = PdfAt(c, j)
    BY <2>4, DocumentAt
  <2>6. k > 1 /\ k # 0 /\ k - 1 = c.index
    BY <1>1, <2>2
  <2>7. PdfPrevious(d) = PdfAt(d, c.index)
    BY <2>5, <2>6 DEF PdfPrevious
  <2> QED BY <2>3, <2>4, <2>5, <2>7, DocumentAt
<1>3. ASSUME PdfPrevious(c).answer # None
      PROVE  PdfNext(PdfPrevious(c).cursor) = Result(c, Text[c.index])
  <2>1. c.index > 1
    BY <1>1, <1>3, ResultIs DEF PdfPrevious
  <2>2. PICK k \in Nat : k = c.index - 1
    BY <1>1
  <2>3. PdfPrevious(c) = PdfAt(c, k)
    BY <1>1, <2>1, <2>2 DEF PdfPrevious
  <2>4. PICK d : d = PdfAt(c, k).cursor
    OBVIOUS
  <2>5. d.index = k /\ \A j : PdfAt(d, j) = PdfAt(c, j)
    BY <2>4, DocumentAt
  <2>6. k # 0 /\ k < Len(Text) /\ k + 1 = c.index
    BY <1>1, <2>1, <2>2
  <2>7. PdfNext(d) = PdfAt(d, c.index)
    BY <2>5, <2>6 DEF PdfNext, HasFollowing
  <2> QED BY <2>3, <2>4, <2>5, <2>7, DocumentAt
<1>4. \A k \in 1..Len(Text) : Text[k] # None
  BY TextIs
<1>5. ASSUME PdfNext(c).answer = None PROVE PdfNext(PdfNext(c).cursor).answer = None
  <2>1. ~HasFollowing(c)
    <3>1. HasFollowing(c) => c.index + 1 \in 1..Len(Text) /\ c.index + 1 \in Nat
      BY <1>1 DEF HasFollowing
    <3>2. HasFollowing(c) => PdfNext(c).answer = Text[c.index + 1]
      BY <1>1, <3>1, DocumentAt DEF PdfNext
    <3> QED BY <1>4, <1>5, <3>1, <3>2
  <2>2. PdfNext(c) = Result(c, None)
    BY <1>1, <2>1 DEF PdfNext
  <2> QED BY <2>2, ResultIs
<1>6. ASSUME PdfPrevious(c).answer = None PROVE PdfPrevious(c).cursor = c
  <2>1. ~(c.index > 1)
    <3>1. c.index > 1 => c.index - 1 \in 1..Len(Text) /\ c.index - 1 \in Nat
      BY <1>1
    <3>2. c.index > 1 => PdfPrevious(c).answer = Text[c.index - 1]
      BY <1>1, <3>1, DocumentAt DEF PdfPrevious
    <3> QED BY <1>4, <1>6, <3>1, <3>2
  <2> QED BY <1>1, <2>1, ResultIs DEF PdfPrevious
<1> QED BY <1>2, <1>3, <1>5, <1>6

\* Next and previous undo each other wherever the source has kept its place: over
\* page ends and any number of blank pages, in any book; and one that finds
\* nothing leaves no segment out.
THEOREM MovesUndone == Spec => []MovesInvert
<1>1. IInv => MovesInvert
  <2> SUFFICES ASSUME IInv, reading # None, InPlace PROVE MovesInvert
    BY DEF MovesInvert
  <2>1. Readable /\ Fits(cursor) /\ cursor.index > 0 /\ reading = Selected
    BY InvReadable DEF IInv, InPlace, VoiceIsSelected
  <2>2. CASE Reflowable
    <3>1. /\ cursor.page \in Pages /\ cursor.index \in 1..book[cursor.page]
          /\ cursor = Cursor(cursor.page, cursor.page, cursor.index)
      BY <2>1, <2>2, OnPage DEF InPlace
    <3>2. reading = <<cursor.page, cursor.index>>
      BY <2>1, <2>2 DEF Selected
    <3>3. /\ ReflowableNext(cursor).answer # None =>
               ReflowablePrevious(ReflowableNext(cursor).cursor) = Result(cursor, reading)
          /\ ReflowablePrevious(cursor).answer # None =>
               ReflowableNext(ReflowablePrevious(cursor).cursor) = Result(cursor, reading)
      BY <2>1, <3>1, <3>2, NextUndone, PreviousUndone
    <3>4. ReflowableNext(cursor).answer = None =>
            ReflowableNext(ReflowableNext(cursor).cursor).answer = None
      BY <2>1, <3>1, NextStays
    <3>5. ReflowablePrevious(cursor).answer = None =>
            \/ ReflowablePrevious(cursor).cursor = cursor
            \/ ReflowableNext(ReflowablePrevious(cursor).cursor).answer = reading
      BY <2>1, <3>1, <3>2, PreviousStays
    <3> QED BY <2>2, <3>3, <3>4, <3>5 DEF MovesInvert, Following, Preceding
  <2>3. CASE ~ Reflowable
    <3>1. reading = Text[cursor.index]
      BY <2>1, <2>3 DEF Selected
    <3> QED BY <2>1, <2>3, <3>1, DocumentUndone DEF MovesInvert, Following, Preceding
  <2> QED BY <2>2, <2>3
<1> QED BY <1>1, Inductive, PTL

-----------------------------------------------------------------------------
(* The order of the book *)

\* What follows a segment of the text is the next one, and the end the last.
LEMMA AheadIs ==
  ASSUME Readable, NEW k \in DOMAIN Text
  PROVE  /\ k < Len(Text) => Ahead(Text[k]) = Text[k + 1]
         /\ k = Len(Text) => Ahead(Text[k]) = None
<1> DEFINE later == {j \in DOMAIN Text : \E i \in 1..(j - 1) : Text[i] = Text[k]}
<1>0. Len(Text) \in Nat /\ DOMAIN Text = 1..Len(Text) /\ k \in 1..Len(Text)
  BY TextIs
<1>1. \A j : j \in later <=> j \in DOMAIN Text /\ k < j
  <2>1. ASSUME NEW j \in DOMAIN Text, NEW i \in 1..(j - 1), Text[i] = Text[k] PROVE k < j
    <3>1. i \in DOMAIN Text
      BY <1>0
    <3>2. i = k
      BY <2>1, <3>1, TextOnce
    <3> QED BY <1>0, <3>2
  <2>2. ASSUME NEW j \in DOMAIN Text, k < j PROVE k \in 1..(j - 1)
    BY <1>0, <2>2
  <2> QED BY <2>1, <2>2
<1>2. Ahead(Text[k]) = IF later = {} THEN None ELSE Text[CHOOSE j \in later : \A i \in later : j <= i]
  BY DEF Ahead
<1> HIDE DEF later
<1>3. ASSUME k < Len(Text) PROVE Ahead(Text[k]) = Text[k + 1]
  <2>1. k + 1 \in later /\ \A j \in later : k + 1 <= j
    BY <1>0, <1>1, <1>3
  <2>2. \A j \in later : j \in Nat
    BY <1>0, <1>1
  <2>3. \A x \in later : (\A i \in later : x <= i) => x = k + 1
    BY <1>0, <2>1, <2>2
  <2>4. (CHOOSE j \in later : \A i \in later : j <= i) = k + 1
    BY <2>1, <2>3
  <2> QED BY <1>2, <2>1, <2>4
<1>4. ASSUME k = Len(Text) PROVE Ahead(Text[k]) = None
  <2>1. later = {}
    BY <1>0, <1>1, <1>4
  <2> QED BY <1>2, <2>1
<1> QED BY <1>3, <1>4

\* A segment's page and number.
LEMMA SegmentIs ==
  ASSUME Readable, NEW s \in Segments
  PROVE  s[1] \in Pages /\ s[2] \in 1..book[s[1]] /\ s[1] \in Nat /\ s[2] \in Nat
<1>1. s[1] \in Pages /\ s[2] \in 1..book[s[1]]
  BY TextIs DEF Segments
<1> QED BY <1>1, PagesAre

\* The segment right behind another is what follows it.
LEMMA RightBehind ==
  ASSUME Readable, NEW s \in Segments, NEW t \in Segments, Before(s, t),
         \A u \in Segments : ~ (Before(s, u) /\ Before(u, t))
  PROVE  t = Ahead(s)
<1>0. DOMAIN Text = 1..Len(Text) /\ Len(Text) \in Nat
  BY TextIs
<1>1. PICK k \in DOMAIN Text : s = Text[k]
  BY DEF Segments
<1>2. PICK j \in DOMAIN Text : t = Text[j]
  BY DEF Segments
<1>3. ~ Before(t, s) /\ ~ Before(s, s)
  BY SegmentIs DEF Before
<1>4. k < j
  <2>1. ~ (j < k)
    BY <1>1, <1>2, <1>3, TextIs
  <2>2. j # k
    BY <1>1, <1>2, <1>3
  <2> QED BY <1>0, <2>1, <2>2
<1>5. k < Len(Text) /\ k + 1 \in DOMAIN Text
  BY <1>0, <1>4
<1>6. Text[k + 1] \in Segments /\ Before(s, Text[k + 1])
  <2>1. k < k + 1
    BY <1>0
  <2> QED BY <1>1, <1>5, <2>1, TextIs DEF Segments
<1>7. ~ (k + 1 < j)
  <2>1. ~ Before(Text[k + 1], t)
    BY <1>6
  <2> QED BY <1>2, <1>5, <2>1, TextIs
<1>8. j = k + 1
  BY <1>0, <1>4, <1>7
<1> QED BY <1>1, <1>2, <1>5, <1>8, AheadIs

\* Nothing follows a segment that no segment is behind.
LEMMA NothingBehind ==
  ASSUME Readable, NEW s \in Segments, \A u \in Segments : ~ Before(s, u)
  PROVE  Ahead(s) = None
<1>0. DOMAIN Text = 1..Len(Text) /\ Len(Text) \in Nat
  BY TextIs
<1>1. PICK k \in DOMAIN Text : s = Text[k]
  BY DEF Segments
<1>2. ~ (k < Len(Text))
  <2>1. SUFFICES ASSUME k < Len(Text) PROVE FALSE
    OBVIOUS
  <2>2. k + 1 \in DOMAIN Text /\ k < k + 1
    BY <1>0, <2>1
  <2>3. Before(s, Text[k + 1]) /\ Text[k + 1] \in Segments
    BY <1>1, <2>2, TextIs DEF Segments
  <2> QED BY <2>3
<1>3. k = Len(Text)
  BY <1>0, <1>2
<1> QED BY <1>1, <1>3, AheadIs

\* The reflowable source answers the segment that follows, or null behind the last.
LEMMA NextInOrder ==
  ASSUME Readable, NEW p \in Pages, NEW i \in 1..book[p], NEW c, c = Cursor(p, p, i)
  PROVE  ReflowableNext(c).answer = Ahead(<<p, i>>)
<1>0. p \in Nat /\ i \in Nat /\ book[p] \in Nat /\ <<p, i>> \in Segments
  BY PagesAre, TextIs
<1>1. PICK s \in Segments : s = <<p, i>> /\ s[1] = p /\ s[2] = i
  BY <1>0
<1>2. CASE i < book[p] /\ ReflowableNext(c) = Result(Cursor(p, p, i + 1), <<p, i + 1>>)
  <2>1. PICK j \in 1..book[p] : j = i + 1
    BY <1>0, <1>2
  <2>2. PICK t \in Segments : t = <<p, j>> /\ t[1] = p /\ t[2] = j
    BY TextIs
  <2>3. Before(s, t)
    BY <1>0, <1>1, <2>1, <2>2 DEF Before
  <2>4. \A u \in Segments : ~ (Before(s, u) /\ Before(u, t))
    BY <1>0, <1>1, <2>1, <2>2, SegmentIs DEF Before
  <2> QED BY <1>1, <1>2, <2>1, <2>2, <2>3, <2>4, RightBehind, ResultIs
<1>3. CASE /\ i = book[p] /\ \A q \in (p + 1)..Len(book) : book[q] = 0
           /\ ReflowableNext(c).answer = None
  <2>1. ASSUME NEW u \in Segments PROVE ~ Before(s, u)
    <3>1. /\ u[1] \in 1..Len(book) /\ u[1] \in Nat /\ u[2] \in Nat /\ Len(book) \in Nat
          /\ u[2] \in 1..book[u[1]]
      BY SegmentIs, PagesAre
    <3>2. ~ (p < u[1])
      <4>1. ASSUME p < u[1] PROVE u[1] \in (p + 1)..Len(book)
        BY <1>0, <3>1, <4>1
      <4>2. ASSUME p < u[1] PROVE book[u[1]] = 0
        BY <1>3, <4>1, <4>2
      <4> QED BY <3>1, <4>2
    <3>3. p = u[1] => ~ (i < u[2])
      BY <1>0, <1>3, <3>1
    <3> QED BY <1>1, <3>2, <3>3 DEF Before
  <2> QED BY <1>1, <1>3, <2>1, NothingBehind
<1>4. ASSUME i = book[p], NEW q \in (p + 1)..Len(book),
             book[q] > 0, \A x \in (p + 1)..(q - 1) : book[x] = 0,
             ReflowableNext(c) = Result(Cursor(q, q, 1), <<q, 1>>)
      PROVE  ReflowableNext(c).answer = Ahead(<<p, i>>)
  <2>1. q \in Pages /\ q \in Nat /\ 1 \in 1..book[q] /\ p < q
    BY <1>0, <1>4, PagesAre
  <2>2. PICK t \in Segments : t = <<q, 1>> /\ t[1] = q /\ t[2] = 1
    BY <2>1, TextIs
  <2>3. Before(s, t)
    BY <1>1, <2>1, <2>2 DEF Before
  <2>4. ASSUME NEW u \in Segments, Before(s, u), Before(u, t) PROVE FALSE
    <3>1. u[1] \in Nat /\ u[2] \in Nat /\ u[2] \in 1..book[u[1]]
      BY SegmentIs
    <3>2. p # u[1]
      BY <1>0, <1>1, <1>4, <2>4, <3>1 DEF Before
    <3>3. q # u[1]
      BY <2>1, <2>2, <2>4, <3>1 DEF Before
    <3>4. p < u[1] /\ u[1] < q
      BY <1>1, <2>2, <2>4, <3>2, <3>3 DEF Before
    <3>5. u[1] \in (p + 1)..(q - 1)
      BY <1>0, <2>1, <3>1, <3>4
    <3>6. book[u[1]] = 0
      BY <1>4, <3>5
    <3> QED BY <3>1, <3>6
  <2> QED BY <1>1, <1>4, <2>2, <2>3, <2>4, RightBehind, ResultIs
<1>5. \/ i < book[p] /\ ReflowableNext(c) = Result(Cursor(p, p, i + 1), <<p, i + 1>>)
      \/ /\ i = book[p] /\ \A q \in (p + 1)..Len(book) : book[q] = 0
         /\ ReflowableNext(c).answer = None
      \/ \E q \in (p + 1)..Len(book) :
           /\ i = book[p] /\ book[q] > 0 /\ \A x \in (p + 1)..(q - 1) : book[x] = 0
           /\ ReflowableNext(c) = Result(Cursor(q, q, 1), <<q, 1>>)
  BY NextIs, ResultIs
<1> QED BY <1>2, <1>3, <1>4, <1>5

\* And so does the source over a document.
LEMMA DocumentInOrder ==
  ASSUME Readable, ~ Reflowable, NEW c, Fits(c), c.index > 0
  PROVE  PdfNext(c).answer = Ahead(Text[c.index])
<1>1. /\ c.index \in Nat /\ c.index # 0 /\ c.index <= Len(Text)
      /\ Len(Text) \in Nat /\ c.index \in DOMAIN Text
  BY TextIs DEF Fits
<1>2. PICK k : k = c.index
  OBVIOUS
<1>3. CASE HasFollowing(c)
  <2>1. PdfNext(c).answer = Text[k + 1]
    BY <1>1, <1>2, <1>3, ResultIs DEF PdfNext, PdfAt
  <2> QED BY <1>1, <1>2, <1>3, <2>1, AheadIs DEF HasFollowing
<1>4. CASE ~ HasFollowing(c)
  <2>1. c.index = Len(Text)
    BY <1>1, <1>4 DEF HasFollowing
  <2> QED BY <1>1, <1>4, <2>1, AheadIs, ResultIs DEF PdfNext
<1> QED BY <1>3, <1>4

\* Where the source kept its place, a finished segment is followed by the next of
\* the book, over any blank pages, and the last by the end: none twice, none left out.
THEOREM GoesOnInOrder == Spec => ContinuesInOrder
<1>1. ASSUME IInv, Finished, InPlace PROVE reading' = Ahead(reading)
  <2>1. Readable /\ Fits(cursor) /\ cursor.index > 0 /\ reading = Selected
    BY <1>1, InvReadable DEF IInv, InPlace, VoiceIsSelected, Finished
  <2>2. reading' = Following(cursor).answer
    BY <1>1 DEF Finished, Read
  <2>3. CASE Reflowable
    <3>1. /\ cursor.page \in Pages /\ cursor.index \in 1..book[cursor.page]
          /\ cursor = Cursor(cursor.page, cursor.page, cursor.index)
      BY <1>1, <2>1, <2>3, OnPage DEF InPlace
    <3>2. reading = <<cursor.page, cursor.index>>
      BY <2>1, <2>3 DEF Selected
    <3> QED BY <2>1, <2>2, <2>3, <3>1, <3>2, NextInOrder DEF Following
  <2>4. CASE ~ Reflowable
    <3>1. reading = Text[cursor.index]
      BY <2>1, <2>4 DEF Selected
    <3> QED BY <2>1, <2>2, <2>4, <3>1, DocumentInOrder DEF Following
  <2> QED BY <2>3, <2>4
<1>2. IInv /\ [Next]_vars => [Finished /\ InPlace => reading' = Ahead(reading)]_vars
  BY <1>1
<1> QED BY <1>2, Inductive, PTL DEF Spec, ContinuesInOrder
===============================================================================
