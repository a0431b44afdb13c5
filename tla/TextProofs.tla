----------------------------- MODULE TextProofs -----------------------------
(* Theorems about TextStream, for all texts, tags and cuts. *)
EXTENDS TextStream, SequenceTheorems, WellFoundedInduction, TLAPS

-----------------------------------------------------------------------------
(* Induction, as facts about sets: NatLessThanWellFounded needs no operator. *)

LEMMA SmallestOf ==
  ASSUME NEW T, T \subseteq Nat, T # {}
  PROVE  \E x \in T : \A y \in T : x <= y
<1> DEFINE R == {ss \in Nat \X Nat : ss[1] < ss[2]}
<1>1. IsWellFoundedOn(R, Nat)
  BY NatLessThanWellFounded, Zenon DEF OpToRel
<1>2. PICK x \in T : \A y \in T : <<y, x>> \notin R
  <2> HIDE DEF R
  <2> QED
    BY <1>1, WFMin
<1>3. ASSUME NEW y \in T PROVE x <= y
  <2>1. ~(y < x)
    BY <1>2
  <2> QED
    BY <2>1
<1> QED
  BY <1>3

LEMMA NatInductionOf ==
  ASSUME NEW S, 0 \in S, \A n \in Nat : n \in S => n + 1 \in S
  PROVE  Nat \subseteq S
<1> SUFFICES ASSUME Nat \ S # {} PROVE FALSE
  OBVIOUS
<1>1. PICK x \in Nat \ S : \A y \in Nat \ S : x <= y
  BY SmallestOf
<1>2. x # 0 /\ x - 1 \in Nat
  BY <1>1
<1>3. x - 1 \in S
  BY <1>1, <1>2
<1> QED
  BY <1>1, <1>2, <1>3

LEMMA LargestOf ==
  ASSUME NEW T, NEW n \in Nat, T \subseteq 0..n, T # {}
  PROVE  \E x \in T : \A y \in T : x >= y
<1> DEFINE U == {n - x : x \in T}
<1>1. U \subseteq Nat /\ U # {}
  <2>1. ASSUME NEW x \in T PROVE n - x \in Nat
    <3>1. x \in 0..n
      OBVIOUS
    <3> QED
      BY <3>1
  <2> QED
    BY <2>1
<1>2. PICK u \in U : \A v \in U : u <= v
  BY <1>1, SmallestOf
<1>3. PICK x \in T : u = n - x
  BY <1>2
<1>4. ASSUME NEW y \in T PROVE x >= y
  <2>1. n - x <= n - y
    BY <1>2, <1>3
  <2> QED
    BY <2>1
<1> QED
  BY <1>4

\* A loop over a set: its states exist, and are in the set.
LEMMA LoopExists ==
  ASSUME NEW X, NEW x0 \in X, NEW F \in [X -> X]
  PROVE  \E g \in [Nat -> X] : g[0] = x0 /\ \A n \in Nat : g[n + 1] = F[g[n]]
<1> DEFINE Upto(n, g) == g \in [0..n -> X] /\ g[0] = x0 /\ \A i \in 0..(n - 1) : g[i + 1] = F[g[i]]
           S == {n \in Nat : \E g : Upto(n, g)}
<1>1. 0 \in S
  <2>1. Upto(0, [i \in 0..0 |-> x0])
    OBVIOUS
  <2> QED
    BY <2>1
<1>2. ASSUME NEW n \in Nat, n \in S PROVE n + 1 \in S
  <2>1. PICK g : Upto(n, g)
    BY <1>2
  <2> DEFINE h == [i \in 0..(n + 1) |-> IF i <= n THEN g[i] ELSE F[g[n]]]
  <2>2. h \in [0..(n + 1) -> X] /\ h[0] = x0
    BY <2>1
  <2>3. ASSUME NEW i \in 0..n PROVE h[i + 1] = F[h[i]]
    BY <2>1
  <2>4. Upto(n + 1, h)
    <3> HIDE DEF h
    <3>1. (n + 1) - 1 = n
      OBVIOUS
    <3> QED
      BY <2>2, <2>3, <3>1
  <2> QED
    BY <2>4
<1>3. Nat \subseteq S
  <2> HIDE DEF S
  <2> QED
    BY <1>1, <1>2, NatInductionOf
<1>4. ASSUME NEW n \in Nat, NEW g, NEW h, Upto(n, g), Upto(n, h), NEW m \in 0..n
      PROVE  g[m] = h[m]
  <2> DEFINE A == {i \in Nat : i <= n => g[i] = h[i]}
  <2>1. 0 \in A
    BY <1>4
  <2>2. ASSUME NEW i \in Nat, i \in A PROVE i + 1 \in A
    <3> SUFFICES ASSUME i + 1 <= n PROVE g[i + 1] = h[i + 1]
      OBVIOUS
    <3>1. i \in 0..(n - 1) /\ g[i] = h[i]
      BY <2>2
    <3> QED
      BY <1>4, <3>1
  <2>3. Nat \subseteq A
    <3> HIDE DEF A
    <3> QED
      BY <2>1, <2>2, NatInductionOf
  <2> QED
    BY <2>3
<1> DEFINE run(n) == CHOOSE g : Upto(n, g)
           f == [n \in Nat |-> run(n)[n]]
<1>5. \A n \in Nat : Upto(n, run(n))
  <2> SUFFICES ASSUME NEW n \in Nat PROVE Upto(n, run(n))
    OBVIOUS
  <2>1. \E g : Upto(n, g)
    BY <1>3
  <2> HIDE DEF Upto
  <2> QED
    BY <2>1
<1>6. ASSUME NEW n \in Nat PROVE run(n + 1)[n] = run(n)[n]
  <2> HIDE DEF run
  <2>1. Upto(n + 1, run(n + 1)) /\ Upto(n, run(n))
    <3> HIDE DEF Upto
    <3> QED
      BY <1>5
  <2> DEFINE g == [i \in 0..n |-> run(n + 1)[i]]
  <2>2. Upto(n, g)
    BY <2>1
  <2>3. g[n] = run(n)[n]
    <3> HIDE DEF g, Upto
    <3> QED
      BY <1>4, <2>1, <2>2
  <2> QED
    BY <2>3
<1>7. f \in [Nat -> X] /\ f[0] = x0
  <2> HIDE DEF run
  <2> QED
    BY <1>5
<1>8. ASSUME NEW n \in Nat PROVE f[n + 1] = F[f[n]]
  <2> HIDE DEF run
  <2>1. run(n + 1)[n + 1] = F[run(n + 1)[n]]
    <3>1. Upto(n + 1, run(n + 1))
      <4> HIDE DEF Upto
      <4> QED
        BY <1>5
    <3>2. n \in 0..((n + 1) - 1)
      OBVIOUS
    <3> QED
      BY <3>1, <3>2
  <2>2. f[n + 1] = run(n + 1)[n + 1] /\ f[n] = run(n)[n]
    OBVIOUS
  <2> QED
    BY <1>6, <2>1, <2>2
<1> HIDE DEF f
<1> QED
  BY <1>7, <1>8

-----------------------------------------------------------------------------
(* Pieces of a text. *)
Strings == Seq(Symbols)
Tags == Strings \ {<< >>}

\* A piece of a text, symbol for symbol.
LEMMA PieceOf ==
  ASSUME NEW d \in Strings, NEW m \in 1..(Len(d) + 1), NEW n \in (m - 1)..Len(d)
  PROVE  /\ SubSeq(d, m, n) \in Strings
         /\ Len(SubSeq(d, m, n)) = n - m + 1
         /\ \A i \in 1..(n - m + 1) : SubSeq(d, m, n)[i] = d[m + i - 1]
<1>1. Len(d) \in Nat /\ \A i \in 1..Len(d) : d[i] \in Symbols
  BY LenProperties, ElementOfSeq DEF Strings
<1>2. \A i \in m..n : d[i] \in Symbols
  BY <1>1
<1>3. m \in Int /\ n \in Int
  BY <1>1
<1> QED
  BY <1>1, <1>2, <1>3, SubSeqProperties DEF Strings

LEMMA JoinOf ==
  ASSUME NEW a \in Strings, NEW b \in Strings
  PROVE  /\ a \o b \in Strings
         /\ Len(a \o b) = Len(a) + Len(b)
         /\ Len(a) \in Nat /\ Len(b) \in Nat
         /\ \A i \in 1..Len(a) : (a \o b)[i] = a[i]
         /\ \A i \in 1..Len(b) : (a \o b)[Len(a) + i] = b[i]
<1>1. Len(a) \in Nat /\ Len(b) \in Nat
  BY LenProperties DEF Strings
<1>2. /\ a \o b \in Strings /\ Len(a \o b) = Len(a) + Len(b)
      /\ \A i \in 1..(Len(a) + Len(b)) :
            (a \o b)[i] = IF i <= Len(a) THEN a[i] ELSE b[i - Len(a)]
  BY ConcatProperties DEF Strings
<1>3. ASSUME NEW i \in 1..Len(b) PROVE (a \o b)[Len(a) + i] = b[i]
  <2>1. Len(a) + i \in 1..(Len(a) + Len(b)) /\ ~(Len(a) + i <= Len(a)) /\ (Len(a) + i) - Len(a) = i
    BY <1>1
  <2> QED
    BY <1>2, <2>1
<1> QED
  BY <1>1, <1>2, <1>3

LEMMA JoinAssociates ==
  ASSUME NEW a \in Strings, NEW b \in Strings, NEW c \in Strings
  PROVE  (a \o b) \o c = a \o (b \o c)
BY ConcatAssociative DEF Strings

LEMMA SameText ==
  ASSUME NEW a \in Strings, NEW b \in Strings, Len(a) = Len(b),
         \A i \in 1..Len(a) : a[i] = b[i]
  PROVE  a = b
BY SeqEqual DEF Strings

\* A piece that lies in the first of two texts.
LEMMA PieceOfFirst ==
  ASSUME NEW a \in Strings, NEW b \in Strings, NEW m \in 1..(Len(a) + 1),
         NEW n \in (m - 1)..Len(a)
  PROVE  SubSeq(a \o b, m, n) = SubSeq(a, m, n)
<1>1. a \o b \in Strings /\ Len(a \o b) = Len(a) + Len(b) /\ Len(a) \in Nat /\ Len(b) \in Nat
      /\ \A i \in 1..Len(a) : (a \o b)[i] = a[i]
  BY JoinOf
<1>2. m \in 1..(Len(a \o b) + 1) /\ n \in (m - 1)..Len(a \o b)
  BY <1>1
<1>3. /\ SubSeq(a, m, n) \in Strings /\ Len(SubSeq(a, m, n)) = n - m + 1
      /\ \A i \in 1..(n - m + 1) : SubSeq(a, m, n)[i] = a[m + i - 1]
  BY PieceOf
<1>4. /\ SubSeq(a \o b, m, n) \in Strings /\ Len(SubSeq(a \o b, m, n)) = n - m + 1
      /\ \A i \in 1..(n - m + 1) : SubSeq(a \o b, m, n)[i] = (a \o b)[m + i - 1]
  BY <1>1, <1>2, PieceOf
<1>5. \A i \in 1..(n - m + 1) : m + i - 1 \in 1..Len(a)
  BY <1>1
<1> QED
  BY <1>1, <1>3, <1>4, <1>5, SameText

\* The rest of two texts from a place in the first one.
LEMMA RestOfFirst ==
  ASSUME NEW a \in Strings, NEW b \in Strings, NEW i \in 1..(Len(a) + 1)
  PROVE  From(a \o b, i) = From(a, i) \o b
<1> DEFINE l == From(a \o b, i)
           f == From(a, i)
           r == f \o b
<1>1. a \o b \in Strings /\ Len(a \o b) = Len(a) + Len(b) /\ Len(a) \in Nat /\ Len(b) \in Nat
      /\ (\A j \in 1..Len(a) : (a \o b)[j] = a[j])
      /\ \A j \in 1..Len(b) : (a \o b)[Len(a) + j] = b[j]
  BY JoinOf
<1>2. i \in 1..(Len(a \o b) + 1) /\ Len(a \o b) \in (i - 1)..Len(a \o b) /\ Len(a) \in (i - 1)..Len(a)
  BY <1>1
<1>3. /\ f \in Strings /\ Len(f) = Len(a) - i + 1
      /\ \A j \in 1..(Len(a) - i + 1) : f[j] = a[i + j - 1]
  BY <1>2, PieceOf DEF From
<1>4. /\ l \in Strings /\ Len(l) = Len(a) + Len(b) - i + 1
      /\ \A j \in 1..(Len(a) + Len(b) - i + 1) : l[j] = (a \o b)[i + j - 1]
  <2> DEFINE t == a \o b
  <2>1. t \in Strings /\ Len(t) = Len(a) + Len(b) /\ i \in 1..(Len(t) + 1) /\ Len(t) \in (i - 1)..Len(t)
        /\ l = SubSeq(t, i, Len(t)) /\ t = a \o b
    BY <1>1, <1>2 DEF From
  <2> HIDE DEF l, t
  <2>2. /\ SubSeq(t, i, Len(t)) \in Strings /\ Len(SubSeq(t, i, Len(t))) = Len(t) - i + 1
        /\ \A j \in 1..(Len(t) - i + 1) : SubSeq(t, i, Len(t))[j] = t[i + j - 1]
    BY <2>1, PieceOf
  <2> QED
    BY <2>1, <2>2
<1>5. r \in Strings /\ Len(r) = Len(f) + Len(b)
      /\ (\A j \in 1..Len(f) : r[j] = f[j])
      /\ \A j \in 1..Len(b) : r[Len(f) + j] = b[j]
  <2> HIDE DEF f
  <2> QED
    BY <1>3, JoinOf
<1> HIDE DEF l, f, r
<1>6. ASSUME NEW j \in 1..Len(l) PROVE l[j] = r[j]
  <2>1. CASE j <= Len(f)
    <3>1. l[j] = (a \o b)[i + j - 1] /\ i + j - 1 \in 1..Len(a) /\ j \in 1..Len(f)
      BY <1>1, <1>3, <1>4, <2>1
    <3> QED
      BY <1>1, <1>3, <1>5, <3>1
  <2>2. CASE j > Len(f)
    <3> DEFINE k == j - Len(f)
    <3>1. l[j] = (a \o b)[i + j - 1] /\ i + j - 1 = Len(a) + k /\ k \in 1..Len(b) /\ j = Len(f) + k
      BY <1>1, <1>3, <1>4, <2>2
    <3> HIDE DEF k
    <3> QED
      BY <1>1, <1>5, <3>1
  <2> QED
    BY <1>3, <1>4, <2>1, <2>2
<1>7. Len(l) = Len(r)
  BY <1>1, <1>3, <1>4, <1>5
<1>8. l = r
  BY <1>4, <1>5, <1>6, <1>7, SameText
<1> QED
  BY <1>8 DEF l, r, f

\* A piece that begins in the first of two texts and ends in the second.
LEMMA PieceOfBoth ==
  ASSUME NEW a \in Strings, NEW b \in Strings, NEW j \in 0..Len(b)
  PROVE  SubSeq(a \o b, 1, Len(a) + j) = a \o SubSeq(b, 1, j)
<1> DEFINE l == SubSeq(a \o b, 1, Len(a) + j)
           f == SubSeq(b, 1, j)
           r == a \o f
<1>1. a \o b \in Strings /\ Len(a \o b) = Len(a) + Len(b) /\ Len(a) \in Nat /\ Len(b) \in Nat
      /\ (\A i \in 1..Len(a) : (a \o b)[i] = a[i])
      /\ \A i \in 1..Len(b) : (a \o b)[Len(a) + i] = b[i]
  BY JoinOf
<1>2. 1 \in 1..(Len(a \o b) + 1) /\ Len(a) + j \in 0..Len(a \o b)
      /\ 1 \in 1..(Len(b) + 1) /\ j \in 0..Len(b) /\ 1 - 1 = 0
  BY <1>1
<1>3. f \in Strings /\ Len(f) = j /\ \A i \in 1..j : f[i] = b[i]
  <2> HIDE DEF f
  <2>1. /\ f \in Strings /\ Len(f) = j - 1 + 1
        /\ \A i \in 1..(j - 1 + 1) : f[i] = b[1 + i - 1]
    BY <1>2, PieceOf DEF f
  <2> QED
    BY <1>1, <2>1
<1>4. l \in Strings /\ Len(l) = Len(a) + j /\ \A i \in 1..(Len(a) + j) : l[i] = (a \o b)[i]
  <2> DEFINE t == a \o b
             n == Len(a) + j
  <2>1. t \in Strings /\ 1 \in 1..(Len(t) + 1) /\ n \in (1 - 1)..Len(t)
        /\ l = SubSeq(t, 1, n) /\ t = a \o b /\ n = Len(a) + j /\ n \in Nat
    BY <1>1, <1>2
  <2> HIDE DEF l, t, n
  <2>2. /\ SubSeq(t, 1, n) \in Strings /\ Len(SubSeq(t, 1, n)) = n - 1 + 1
        /\ \A i \in 1..(n - 1 + 1) : SubSeq(t, 1, n)[i] = t[1 + i - 1]
    BY <2>1, PieceOf
  <2>3. n - 1 + 1 = n /\ \A i \in 1..n : 1 + i - 1 = i
    BY <2>1
  <2>4. l \in Strings /\ Len(l) = n /\ \A i \in 1..n : l[i] = t[i]
    BY <2>1, <2>2, <2>3
  <2> QED
    BY <2>1, <2>4
<1>5. r \in Strings /\ Len(r) = Len(a) + j
      /\ (\A i \in 1..Len(a) : r[i] = a[i])
      /\ \A i \in 1..j : r[Len(a) + i] = f[i]
  <2> HIDE DEF f
  <2> QED
    BY <1>3, JoinOf
<1> HIDE DEF l, f, r
<1>6. ASSUME NEW i \in 1..Len(l) PROVE l[i] = r[i]
  <2>1. CASE i <= Len(a)
    BY <1>1, <1>4, <1>5, <2>1
  <2>2. CASE i > Len(a)
    <3> DEFINE k == i - Len(a)
    <3>1. k \in 1..j /\ k \in 1..Len(b) /\ i = Len(a) + k /\ l[i] = (a \o b)[i]
      BY <1>1, <1>4, <2>2
    <3> HIDE DEF k
    <3> QED
      BY <1>1, <1>3, <1>5, <3>1
  <2> QED
    BY <1>1, <1>4, <2>1, <2>2
<1>7. l = r
  BY <1>4, <1>5, <1>6, SameText
<1> QED
  BY <1>7 DEF l, r, f

\* The rest of two texts from a place in the second one.
LEMMA RestOfSecond ==
  ASSUME NEW a \in Strings, NEW b \in Strings, NEW j \in 1..(Len(b) + 1)
  PROVE  From(a \o b, Len(a) + j) = From(b, j)
<1> DEFINE l == From(a \o b, Len(a) + j)
           r == From(b, j)
<1>1. a \o b \in Strings /\ Len(a \o b) = Len(a) + Len(b) /\ Len(a) \in Nat /\ Len(b) \in Nat
      /\ \A i \in 1..Len(b) : (a \o b)[Len(a) + i] = b[i]
  BY JoinOf
<1>2. /\ Len(a) + j \in 1..(Len(a \o b) + 1)
      /\ Len(a \o b) \in ((Len(a) + j) - 1)..Len(a \o b)
      /\ Len(b) \in (j - 1)..Len(b)
  BY <1>1
<1>3. r \in Strings /\ Len(r) = Len(b) - j + 1 /\ \A i \in 1..(Len(b) - j + 1) : r[i] = b[j + i - 1]
  BY <1>2, PieceOf DEF From
<1>4. l \in Strings /\ Len(l) = Len(b) - j + 1
      /\ \A i \in 1..(Len(b) - j + 1) : l[i] = (a \o b)[Len(a) + (j + i - 1)]
  <2> HIDE DEF l
  <2>1. l = SubSeq(a \o b, Len(a) + j, Len(a \o b))
    BY DEF l, From
  <2>2. /\ l \in Strings /\ Len(l) = Len(a \o b) - (Len(a) + j) + 1
        /\ \A i \in 1..(Len(a \o b) - (Len(a) + j) + 1) : l[i] = (a \o b)[(Len(a) + j) + i - 1]
    BY <1>1, <1>2, <2>1, PieceOf
  <2>3. Len(a \o b) - (Len(a) + j) + 1 = Len(b) - j + 1
    BY <1>1
  <2>4. \A i \in 1..(Len(b) - j + 1) : (Len(a) + j) + i - 1 = Len(a) + (j + i - 1)
    BY <1>1
  <2> QED
    BY <2>2, <2>3, <2>4
<1> HIDE DEF l, r
<1>5. \A i \in 1..(Len(b) - j + 1) : j + i - 1 \in 1..Len(b)
  BY <1>1
<1>6. Len(l) = Len(r) /\ \A i \in 1..Len(l) : l[i] = r[i]
  BY <1>1, <1>3, <1>4, <1>5
<1>7. l = r
  BY <1>3, <1>4, <1>6, SameText
<1> QED
  BY <1>7 DEF l, r

-----------------------------------------------------------------------------
(* Where a tag is. *)

LEMMA IsAtSymbols ==
  ASSUME NEW d \in Strings, NEW tag \in Tags, NEW i \in 1..(Len(d) - Len(tag) + 1)
  PROVE  IsAt(d, tag, i) <=> \A k \in 1..Len(tag) : d[i + k - 1] = tag[k]
<1>1. Len(d) \in Nat /\ Len(tag) \in Nat /\ tag \in Strings
  BY LenProperties DEF Strings, Tags
<1> DEFINE n == i + Len(tag) - 1
           f == SubSeq(d, i, n)
<1>2. i \in 1..(Len(d) + 1) /\ n \in (i - 1)..Len(d) /\ n - i + 1 = Len(tag)
  BY <1>1
<1>3. f \in Strings /\ Len(f) = Len(tag) /\ \A k \in 1..Len(tag) : f[k] = d[i + k - 1]
  <2> HIDE DEF n
  <2> QED
    BY <1>2, PieceOf
<1>4. (\A k \in 1..Len(tag) : d[i + k - 1] = tag[k]) => f = tag
  <2> HIDE DEF f
  <2> QED
    BY <1>1, <1>3, SameText
<1>5. f = tag => \A k \in 1..Len(tag) : d[i + k - 1] = tag[k]
  <2> HIDE DEF f
  <2> QED
    BY <1>3
<1> QED
  BY <1>4, <1>5 DEF IsAt

LEMMA IndexValue ==
  ASSUME NEW d \in Strings, NEW tag \in Tags
  PROVE  \/ /\ Index(d, tag) = 0
            /\ \A j \in 1..(Len(d) - Len(tag) + 1) : ~IsAt(d, tag, j)
         \/ /\ Index(d, tag) \in 1..(Len(d) - Len(tag) + 1)
            /\ IsAt(d, tag, Index(d, tag))
            /\ \A j \in 1..(Index(d, tag) - 1) : ~IsAt(d, tag, j)
<1> DEFINE places == {i \in 1..(Len(d) - Len(tag) + 1) : IsAt(d, tag, i)}
<1>1. Index(d, tag) = IF places = {} THEN 0 ELSE Min(places)
  BY DEF Index
<1>2. CASE places = {}
  BY <1>1, <1>2
<1>3. CASE places # {}
  <2>1. Len(d) \in Nat /\ Len(tag) \in Nat
    BY LenProperties DEF Strings, Tags
  <2>2. places \subseteq Nat
    BY <2>1
  <2>3. \E x \in places : \A y \in places : x <= y
    <3> HIDE DEF places
    <3> QED
      BY <1>3, <2>2, SmallestOf
  <2>4. Min(places) \in places /\ \A y \in places : Min(places) <= y
    <3> HIDE DEF places
    <3> QED
      BY <2>3 DEF Min
  <2> DEFINE m == Min(places)
  <2>5. m \in places /\ (\A y \in places : m <= y) /\ Index(d, tag) = m
    BY <1>1, <1>3, <2>4
  <2> HIDE DEF m
  <2>6. \A j \in 1..(m - 1) : ~IsAt(d, tag, j)
    <3> SUFFICES ASSUME NEW j \in 1..(m - 1), IsAt(d, tag, j) PROVE FALSE
      OBVIOUS
    <3>1. j \in places
      BY <2>1, <2>5
    <3> QED
      BY <2>1, <2>5, <3>1
  <2> QED
    BY <2>5, <2>6
<1> QED
  BY <1>2, <1>3

LEMMA IndexIs ==
  ASSUME NEW d \in Strings, NEW tag \in Tags, NEW i \in 1..(Len(d) - Len(tag) + 1),
         IsAt(d, tag, i), \A j \in 1..(i - 1) : ~IsAt(d, tag, j)
  PROVE  Index(d, tag) = i
<1>1. Len(d) \in Nat /\ Len(tag) \in Nat
  BY LenProperties DEF Strings, Tags
<1>2. CASE /\ Index(d, tag) = 0
           /\ \A j \in 1..(Len(d) - Len(tag) + 1) : ~IsAt(d, tag, j)
  BY <1>2
<1>3. CASE /\ Index(d, tag) \in 1..(Len(d) - Len(tag) + 1)
           /\ IsAt(d, tag, Index(d, tag))
           /\ \A j \in 1..(Index(d, tag) - 1) : ~IsAt(d, tag, j)
  <2>1. ~(Index(d, tag) < i) /\ ~(i < Index(d, tag))
    BY <1>1, <1>3
  <2> QED
    BY <1>1, <1>3, <2>1
<1> QED
  BY <1>2, <1>3, IndexValue

LEMMA IndexNone ==
  ASSUME NEW d \in Strings, NEW tag \in Tags,
         \A j \in 1..(Len(d) - Len(tag) + 1) : ~IsAt(d, tag, j)
  PROVE  Index(d, tag) = 0
BY IndexValue

\* What comes later does not change where the tag is.
LEMMA IndexOfFirst ==
  ASSUME NEW a \in Strings, NEW b \in Strings, NEW tag \in Tags, Index(a, tag) # 0
  PROVE  /\ Index(a \o b, tag) = Index(a, tag)
         /\ Index(a, tag) \in 1..(Len(a) - Len(tag) + 1)
<1> DEFINE i == Index(a, tag)
           t == a \o b
<1>1. /\ i \in 1..(Len(a) - Len(tag) + 1)
      /\ IsAt(a, tag, i)
      /\ \A j \in 1..(i - 1) : ~IsAt(a, tag, j)
  BY IndexValue
<1>2. /\ t \in Strings /\ Len(t) = Len(a) + Len(b) /\ Len(a) \in Nat /\ Len(b) \in Nat
      /\ \A j \in 1..Len(a) : t[j] = a[j]
  BY JoinOf
<1>3. Len(tag) \in Nat
  BY LenProperties DEF Strings, Tags
<1> HIDE DEF i, t
<1>4. ASSUME NEW j \in 1..(Len(a) - Len(tag) + 1)
      PROVE  IsAt(t, tag, j) <=> IsAt(a, tag, j)
  <2>1. j \in 1..(Len(t) - Len(tag) + 1)
    BY <1>2, <1>3
  <2>2. \A k \in 1..Len(tag) : j + k - 1 \in 1..Len(a)
    BY <1>2, <1>3
  <2>3. IsAt(a, tag, j) <=> \A k \in 1..Len(tag) : a[j + k - 1] = tag[k]
    BY IsAtSymbols
  <2>4. IsAt(t, tag, j) <=> \A k \in 1..Len(tag) : t[j + k - 1] = tag[k]
    BY <1>2, <2>1, IsAtSymbols
  <2> QED
    BY <1>2, <2>2, <2>3, <2>4
<1>5. i \in 1..(Len(t) - Len(tag) + 1) /\ \A j \in 1..(i - 1) : j \in 1..(Len(a) - Len(tag) + 1)
  BY <1>1, <1>2, <1>3
<1>6. Index(t, tag) = i
  BY <1>1, <1>2, <1>4, <1>5, IndexIs
<1> QED
  BY <1>1, <1>6 DEF i, t

-----------------------------------------------------------------------------
(* What may be the begin of a tag. *)

\* The last k symbols of d are the first k of the tag.
Begins(d, tag, k) == \A i \in 1..k : d[Len(d) - k + i] = tag[i]

LEMMA BeginsSymbols ==
  ASSUME NEW d \in Strings, NEW tag \in Tags, NEW k \in 0..Len(tag), k <= Len(d)
  PROVE  From(d, Len(d) - k + 1) = SubSeq(tag, 1, k) <=> Begins(d, tag, k)
<1>1. Len(d) \in Nat /\ Len(tag) \in Nat /\ tag \in Strings
  BY LenProperties DEF Strings, Tags
<1> DEFINE m == Len(d) - k + 1
           f == From(d, m)
           g == SubSeq(tag, 1, k)
<1>2. m \in 1..(Len(d) + 1) /\ Len(d) \in (m - 1)..Len(d) /\ Len(d) - m + 1 = k
      /\ \A i \in 1..k : m + i - 1 = Len(d) - k + i
  BY <1>1
<1>3. f \in Strings /\ Len(f) = k /\ \A i \in 1..k : f[i] = d[Len(d) - k + i]
  <2> HIDE DEF m
  <2>1. /\ f \in Strings /\ Len(f) = Len(d) - m + 1
        /\ \A i \in 1..(Len(d) - m + 1) : f[i] = d[m + i - 1]
    BY <1>2, PieceOf DEF From
  <2> HIDE DEF f
  <2> QED
    BY <1>2, <2>1
<1>4. g \in Strings /\ Len(g) = k /\ \A i \in 1..k : g[i] = tag[i]
  <2>1. 1 \in 1..(Len(tag) + 1) /\ k \in (1 - 1)..Len(tag) /\ k - 1 + 1 = k /\ \A i \in 1..k : 1 + i - 1 = i
    BY <1>1
  <2>2. /\ g \in Strings /\ Len(g) = k - 1 + 1
        /\ \A i \in 1..(k - 1 + 1) : g[i] = tag[1 + i - 1]
    BY <1>1, <2>1, PieceOf
  <2> HIDE DEF g
  <2> QED
    BY <2>1, <2>2
<1> HIDE DEF f, g
<1>5. (\A i \in 1..k : f[i] = g[i]) <=> f = g
  BY <1>3, <1>4, SameText
<1>6. (\A i \in 1..k : f[i] = g[i]) <=> Begins(d, tag, k)
  BY <1>3, <1>4 DEF Begins
<1> QED
  BY <1>5, <1>6 DEF f, g

LEMMA LongestBegin ==
  ASSUME NEW d \in Strings, NEW tag \in Tags
  PROVE  /\ SuffixPrefixLength(d, tag) \in 0..(Len(tag) - 1)
         /\ SuffixPrefixLength(d, tag) <= Len(d)
         /\ Begins(d, tag, SuffixPrefixLength(d, tag))
         /\ \A k \in 0..(Len(tag) - 1) :
               k <= Len(d) /\ Begins(d, tag, k) => k <= SuffixPrefixLength(d, tag)
<1>1. Len(d) \in Nat /\ Len(tag) \in Nat /\ Len(tag) # 0
  BY EmptySeq, LenProperties DEF Strings, Tags
<1> DEFINE B == {k \in 1..(Len(tag) - 1) :
                     k <= Len(d) /\ From(d, Len(d) - k + 1) = SubSeq(tag, 1, k)}
           T == {0} \cup B
<1>2. SuffixPrefixLength(d, tag) = Max(T)
  BY DEF SuffixPrefixLength
<1>3. T \subseteq 0..(Len(tag) - 1) /\ T # {} /\ Len(tag) - 1 \in Nat
  BY <1>1
<1>4. \E x \in T : \A y \in T : x >= y
  <2> HIDE DEF T
  <2> DEFINE n == Len(tag) - 1
  <2>1. T \subseteq 0..n /\ T # {} /\ n \in Nat
    BY <1>3
  <2> HIDE DEF n
  <2> QED
    BY <2>1, LargestOf
<1>5. Max(T) \in T /\ \A y \in T : Max(T) >= y
  <2> HIDE DEF T
  <2> QED
    BY <1>4 DEF Max
<1> DEFINE x == Max(T)
<1>6. x \in T /\ (\A y \in T : x >= y) /\ SuffixPrefixLength(d, tag) = x
  BY <1>2, <1>5
<1> HIDE DEF x
<1>7. ASSUME NEW k \in 0..(Len(tag) - 1)
      PROVE  k \in T <=> k <= Len(d) /\ Begins(d, tag, k)
  <2>1. CASE k = 0
    BY <1>1, <2>1 DEF Begins
  <2>2. CASE k # 0
    <3>1. k \in 1..(Len(tag) - 1) /\ k \in 0..Len(tag)
      BY <1>1, <2>2
    <3>2. k <= Len(d) => (From(d, Len(d) - k + 1) = SubSeq(tag, 1, k) <=> Begins(d, tag, k))
      BY <3>1, BeginsSymbols
    <3> QED
      BY <2>2, <3>1, <3>2
  <2> QED
    BY <2>1, <2>2
<1>8. x \in 0..(Len(tag) - 1)
  BY <1>3, <1>6
<1> HIDE DEF T
<1>9. x <= Len(d) /\ Begins(d, tag, x)
  BY <1>6, <1>7, <1>8
<1>10. ASSUME NEW k \in 0..(Len(tag) - 1), k <= Len(d), Begins(d, tag, k) PROVE k <= x
  <2>1. k \in T
    BY <1>7, <1>10
  <2> QED
    BY <1>6, <1>8, <2>1
<1> QED
  BY <1>6, <1>8, <1>9, <1>10

LEMMA LongestBeginIs ==
  ASSUME NEW d \in Strings, NEW tag \in Tags, NEW k \in 0..(Len(tag) - 1),
         k <= Len(d), Begins(d, tag, k),
         \A j \in 0..(Len(tag) - 1) : j <= Len(d) /\ Begins(d, tag, j) => j <= k
  PROVE  SuffixPrefixLength(d, tag) = k
<1>1. k <= SuffixPrefixLength(d, tag) /\ SuffixPrefixLength(d, tag) <= k
  BY LongestBegin
<1>2. SuffixPrefixLength(d, tag) \in Int /\ k \in Int
  <2>1. SuffixPrefixLength(d, tag) \in 0..(Len(tag) - 1)
    BY LongestBegin
  <2>2. Len(tag) \in Nat
    BY LenProperties DEF Strings, Tags
  <2> QED
    BY <2>1, <2>2
<1> QED
  BY <1>1, <1>2

\* SplitByTagPrefix takes nothing and adds nothing.
LEMMA CleanAndCarry ==
  ASSUME NEW d \in Strings, NEW tag \in Tags
  PROVE  /\ Clean(d, tag) \in Strings /\ Carry(d, tag) \in Strings
         /\ Len(Clean(d, tag)) = Len(d) - SuffixPrefixLength(d, tag)
         /\ Len(Carry(d, tag)) = SuffixPrefixLength(d, tag)
         /\ Clean(d, tag) \o Carry(d, tag) = d
<1> DEFINE m == SuffixPrefixLength(d, tag)
           n == Len(d) - m
<1>1. Len(d) \in Nat /\ Len(tag) \in Nat
  BY LenProperties DEF Strings, Tags
<1>2. m \in Nat /\ m <= Len(d)
  BY <1>1, LongestBegin
<1>3. n \in 0..Len(d) /\ n + 1 \in 1..(Len(d) + 1) /\ 1 \in 1..(Len(d) + 1)
      /\ Len(d) \in ((n + 1) - 1)..Len(d) /\ n \in (1 - 1)..Len(d)
      /\ Len(d) - (n + 1) + 1 = m /\ n - 1 + 1 = n /\ Len(d) \in n..Len(d)
  BY <1>1, <1>2
<1>4. Clean(d, tag) = SubSeq(d, 1, n) /\ Carry(d, tag) = SubSeq(d, n + 1, Len(d)) /\ n = Len(d) - m
  BY DEF Clean, Carry, From
<1> HIDE DEF n, m
<1>5. SubSeq(d, 1, n) \in Strings /\ Len(SubSeq(d, 1, n)) = n - 1 + 1
  BY <1>3, PieceOf
<1>6. SubSeq(d, n + 1, Len(d)) \in Strings /\ Len(SubSeq(d, n + 1, Len(d))) = Len(d) - (n + 1) + 1
  BY <1>3, PieceOf
<1>7. SubSeq(d, 1, n) \o SubSeq(d, n + 1, Len(d)) = SubSeq(d, 1, Len(d))
  <2>1. d \in Seq(Symbols)
    BY DEF Strings
  <2> QED
    BY <1>3, <2>1, ConcatAdjacentSubSeq
<1>8. SubSeq(d, 1, Len(d)) = d
  BY SubSeqFull DEF Strings
<1> QED
  BY <1>3, <1>4, <1>5, <1>6, <1>7, <1>8 DEF m

\* A text that is cut where a tag may have begun: the tag is looked for, and
\* the next begin of one, in what was kept and what follows.
LEMMA CutTag ==
  ASSUME NEW a \in Strings, NEW b \in Strings, NEW tag \in Tags
  PROVE  /\ a \o b = Clean(a, tag) \o (Carry(a, tag) \o b)
         /\ Index(a, tag) = 0 =>
               Index(a \o b, tag) = IF Index(Carry(a, tag) \o b, tag) = 0 THEN 0
                                    ELSE Len(Clean(a, tag)) + Index(Carry(a, tag) \o b, tag)
         /\ SuffixPrefixLength(a \o b, tag) = SuffixPrefixLength(Carry(a, tag) \o b, tag)
<1> DEFINE c == Clean(a, tag)
           y == Carry(a, tag)
           m == SuffixPrefixLength(a, tag)
           t == a \o b
           u == y \o b
<1>1. /\ c \in Strings /\ y \in Strings /\ c \o y = a
      /\ Len(c) = Len(a) - m /\ Len(y) = m
  BY CleanAndCarry
<1>2. Len(a) \in Nat /\ Len(b) \in Nat /\ Len(tag) \in Nat /\ Len(c) \in Nat /\ Len(tag) # 0
  BY <1>1, EmptySeq, LenProperties DEF Strings, Tags
<1>3. /\ m \in 0..(Len(tag) - 1) /\ m <= Len(a)
      /\ \A k \in 0..(Len(tag) - 1) : k <= Len(a) /\ Begins(a, tag, k) => k <= m
  BY LongestBegin
<1>4. t = a \o b /\ u = y \o b
  OBVIOUS
<1>5. /\ t \in Strings /\ Len(t) = Len(a) + Len(b)
      /\ \A i \in 1..Len(a) : t[i] = a[i]
  BY JoinOf
<1>6. u \in Strings /\ Len(u) = m + Len(b)
  <2> HIDE DEF y
  <2> QED
    BY <1>1, JoinOf
<1> HIDE DEF c, y, m, t, u
<1>13. t = c \o u
  <2>1. c \in Strings /\ y \in Strings /\ b \in Strings
    BY <1>1
  <2>2. (c \o y) \o b = c \o (y \o b)
    BY <2>1, JoinAssociates
  <2> QED
    BY <1>1, <1>4, <2>2
<1>7. \A i \in 1..Len(u) : t[Len(c) + i] = u[i]
  <2>1. \A i \in 1..Len(u) : (c \o u)[Len(c) + i] = u[i]
    BY <1>1, <1>6, JoinOf
  <2> QED
    BY <1>13, <2>1
<1>8. ASSUME NEW j \in 1..(Len(u) - Len(tag) + 1)
      PROVE  /\ Len(c) + j \in 1..(Len(t) - Len(tag) + 1)
             /\ IsAt(t, tag, Len(c) + j) <=> IsAt(u, tag, j)
  <2>1. Len(c) + j \in 1..(Len(t) - Len(tag) + 1)
    BY <1>1, <1>2, <1>3, <1>5, <1>6
  <2>2. \A k \in 1..Len(tag) : j + k - 1 \in 1..Len(u) /\ (Len(c) + j) + k - 1 = Len(c) + (j + k - 1)
    BY <1>1, <1>2, <1>3, <1>6
  <2>3. \A k \in 1..Len(tag) : t[(Len(c) + j) + k - 1] = u[j + k - 1]
    BY <1>7, <2>2
  <2>4. IsAt(u, tag, j) <=> \A k \in 1..Len(tag) : u[j + k - 1] = tag[k]
    BY <1>6, IsAtSymbols
  <2> DEFINE l == Len(c) + j
  <2>5. l \in 1..(Len(t) - Len(tag) + 1) /\ l = Len(c) + j
    BY <2>1
  <2> HIDE DEF l
  <2>6. IsAt(t, tag, l) <=> \A k \in 1..Len(tag) : t[l + k - 1] = tag[k]
    BY <1>5, <2>5, IsAtSymbols
  <2> QED
    BY <2>1, <2>3, <2>4, <2>5, <2>6
<1>9. ASSUME Index(a, tag) = 0, NEW j \in 1..Len(c), j \in 1..(Len(t) - Len(tag) + 1)
      PROVE  ~IsAt(t, tag, j)
  <2> SUFFICES ASSUME IsAt(t, tag, j) PROVE FALSE
    OBVIOUS
  <2>1. \A k \in 1..Len(tag) : t[j + k - 1] = tag[k]
    BY <1>5, <1>9, IsAtSymbols
  <2>2. CASE j \in 1..(Len(a) - Len(tag) + 1)
    <3>1. \A k \in 1..Len(tag) : j + k - 1 \in 1..Len(a)
      BY <1>2, <2>2
    <3>2. \A k \in 1..Len(tag) : a[j + k - 1] = tag[k]
      BY <1>5, <2>1, <3>1
    <3>3. IsAt(a, tag, j)
      BY <2>2, <3>2, IsAtSymbols
    <3>4. \A i \in 1..(Len(a) - Len(tag) + 1) : ~IsAt(a, tag, i)
      BY <1>9, IndexValue
    <3> QED
      BY <2>2, <3>3, <3>4
  <2>3. CASE j > Len(a) - Len(tag) + 1
    <3> DEFINE k == Len(a) - j + 1
    <3>1. k \in 0..(Len(tag) - 1) /\ k <= Len(a) /\ ~(k <= m)
          /\ \A i \in 1..k : /\ Len(a) - k + i = j + i - 1 /\ j + i - 1 \in 1..Len(a)
                             /\ i \in 1..Len(tag)
      BY <1>1, <1>2, <1>3, <2>3
    <3> HIDE DEF k
    <3>2. Begins(a, tag, k)
      BY <1>5, <2>1, <3>1 DEF Begins
    <3> QED
      BY <1>3, <3>1, <3>2
  <2> QED
    BY <1>1, <1>2, <1>3, <2>2, <2>3
<1>10. ASSUME Index(a, tag) = 0
       PROVE  Index(t, tag) = IF Index(u, tag) = 0 THEN 0 ELSE Len(c) + Index(u, tag)
  <2>1. CASE /\ Index(u, tag) = 0
             /\ \A j \in 1..(Len(u) - Len(tag) + 1) : ~IsAt(u, tag, j)
    <3>1. ASSUME NEW j \in 1..(Len(t) - Len(tag) + 1) PROVE ~IsAt(t, tag, j)
      <4>1. CASE j <= Len(c)
        <5>1. j \in 1..Len(c)
          BY <1>2, <4>1
        <5> QED
          BY <1>9, <1>10, <5>1
      <4>2. CASE j > Len(c)
        <5> DEFINE i == j - Len(c)
        <5>1. i \in 1..(Len(u) - Len(tag) + 1) /\ j = Len(c) + i
          BY <1>1, <1>2, <1>3, <1>5, <1>6, <4>2
        <5> HIDE DEF i
        <5> QED
          BY <1>8, <2>1, <5>1
      <4> QED
        BY <1>2, <4>1, <4>2
    <3> QED
      BY <1>5, <2>1, <3>1, IndexNone
  <2>2. CASE /\ Index(u, tag) \in 1..(Len(u) - Len(tag) + 1)
             /\ IsAt(u, tag, Index(u, tag))
             /\ \A j \in 1..(Index(u, tag) - 1) : ~IsAt(u, tag, j)
    <3> DEFINE i == Index(u, tag)
               l == Len(c) + i
    <3>1. i \in 1..(Len(u) - Len(tag) + 1) /\ IsAt(u, tag, i) /\ l = Len(c) + i
          /\ \A j \in 1..(i - 1) : ~IsAt(u, tag, j)
      BY <2>2
    <3> HIDE DEF i
    <3>2. l \in 1..(Len(t) - Len(tag) + 1) /\ IsAt(t, tag, l)
      BY <1>8, <3>1
    <3> HIDE DEF l
    <3>3. ASSUME NEW j \in 1..(l - 1) PROVE ~IsAt(t, tag, j)
      <4>1. j \in 1..(Len(t) - Len(tag) + 1)
        BY <1>2, <1>5, <3>2
      <4>2. CASE j <= Len(c)
        <5>1. j \in 1..Len(c)
          BY <1>2, <4>2
        <5> QED
          BY <1>9, <1>10, <4>1, <5>1
      <4>3. CASE j > Len(c)
        <5> DEFINE n == j - Len(c)
        <5>1. n \in 1..(i - 1) /\ n \in 1..(Len(u) - Len(tag) + 1) /\ j = Len(c) + n
          BY <1>2, <1>3, <1>6, <3>1, <4>3
        <5> HIDE DEF n
        <5> QED
          BY <1>8, <3>1, <5>1
      <4> QED
        BY <1>2, <4>2, <4>3
    <3>4. Index(t, tag) = l
      BY <1>5, <3>2, <3>3, IndexIs
    <3>5. i # 0
      BY <3>1
    <3> QED
      BY <3>1, <3>4, <3>5 DEF i
  <2> QED
    BY <1>6, <2>1, <2>2, IndexValue
<1>11. ASSUME NEW k \in 0..(Len(tag) - 1)
       PROVE  (k <= Len(t) /\ Begins(t, tag, k)) <=> (k <= Len(u) /\ Begins(u, tag, k))
  <2>1. CASE k <= Len(u)
    <3>1. \A i \in 1..k : Len(u) - k + i \in 1..Len(u) /\ Len(t) - k + i = Len(c) + (Len(u) - k + i)
      BY <1>1, <1>2, <1>3, <1>5, <1>6, <2>1
    <3>2. \A i \in 1..k : t[Len(t) - k + i] = u[Len(u) - k + i]
      BY <1>7, <3>1
    <3>3. k <= Len(t)
      BY <1>1, <1>2, <1>3, <1>5, <1>6, <2>1
    <3> QED
      BY <2>1, <3>2, <3>3 DEF Begins
  <2>2. CASE k > Len(u)
    <3> SUFFICES ASSUME k <= Len(t), Begins(t, tag, k) PROVE FALSE
      BY <1>2, <1>3, <1>6, <2>2
    <3> DEFINE n == k - Len(b)
    <3>1. n \in 0..(Len(tag) - 1) /\ n <= Len(a) /\ ~(n <= m)
          /\ \A i \in 1..n : /\ Len(a) - n + i = Len(t) - k + i
                             /\ Len(a) - n + i \in 1..Len(a) /\ i \in 1..k
      BY <1>1, <1>2, <1>3, <1>5, <1>6, <2>2
    <3> HIDE DEF n
    <3>2. Begins(a, tag, n)
      BY <1>5, <3>1 DEF Begins
    <3> QED
      BY <1>3, <3>1, <3>2
  <2> QED
    BY <1>2, <1>3, <1>6, <2>1, <2>2
<1>12. SuffixPrefixLength(t, tag) = SuffixPrefixLength(u, tag)
  <2> DEFINE k == SuffixPrefixLength(u, tag)
  <2>1. /\ k \in 0..(Len(tag) - 1) /\ k <= Len(u) /\ Begins(u, tag, k)
        /\ \A j \in 0..(Len(tag) - 1) : j <= Len(u) /\ Begins(u, tag, j) => j <= k
    BY <1>6, LongestBegin
  <2> HIDE DEF k
  <2>2. /\ k <= Len(t) /\ Begins(t, tag, k)
        /\ \A j \in 0..(Len(tag) - 1) : j <= Len(t) /\ Begins(t, tag, j) => j <= k
    BY <1>11, <2>1
  <2>3. SuffixPrefixLength(t, tag) = k
    BY <1>5, <2>1, <2>2, LongestBeginIs
  <2> QED
    BY <2>3 DEF k
<1> QED
  BY <1>13, <1>10, <1>12 DEF c, y, t, u

-----------------------------------------------------------------------------
(* The turns of a parser. *)
ParserKinds == {"drop", "card", "tool", "answer"}
Parsers == [inside : BOOLEAN, partial : Strings, buffer : Strings, out : Strings,
            calls : Seq(Strings)]
Loops == [parser : Parsers, rest : Strings]

LEMMA TagsTyped ==
  /\ StartTag \in Tags /\ EndTag \in Tags /\ StartTag \in Strings /\ EndTag \in Strings
  /\ <<">">> \in Tags /\ <<"line">> \in Strings /\ << >> \in Strings
<1>1. StartTag \in Seq(Symbols) \ {<< >>} /\ EndTag \in Seq(Symbols) \ {<< >>}
      /\ ">" \in Symbols /\ "line" \in Symbols
  BY TextAssumption
<1>2. <<">">> \in Seq(Symbols) /\ <<"line">> \in Seq(Symbols) /\ <<">">> # << >>
  BY <1>1
<1> QED
  BY <1>1, <1>2, EmptySeq DEF Strings, Tags

\* What is before a tag and behind it.
LEMMA AroundTag ==
  ASSUME NEW d \in Strings, NEW tag \in Tags, Index(d, tag) # 0
  PROVE  /\ Index(d, tag) \in 1..(Len(d) - Len(tag) + 1)
         /\ Len(d) \in Nat /\ Len(tag) \in Nat \ {0}
         /\ SubSeq(d, 1, Index(d, tag) - 1) \in Strings
         /\ From(d, Index(d, tag)) \in Strings
         /\ Len(From(d, Index(d, tag))) = Len(d) - Index(d, tag) + 1
         /\ From(d, Index(d, tag) + Len(tag)) \in Strings
         /\ Len(From(d, Index(d, tag) + Len(tag))) = Len(d) - (Index(d, tag) + Len(tag)) + 1
<1> DEFINE i == Index(d, tag)
<1>1. i \in 1..(Len(d) - Len(tag) + 1)
  BY IndexValue
<1>2. Len(d) \in Nat /\ Len(tag) \in Nat \ {0}
  BY EmptySeq, LenProperties DEF Strings, Tags
<1> HIDE DEF i
<1>3. /\ 1 \in 1..(Len(d) + 1) /\ i - 1 \in (1 - 1)..Len(d)
      /\ i \in 1..(Len(d) + 1) /\ Len(d) \in (i - 1)..Len(d)
  BY <1>1, <1>2
<1>4. SubSeq(d, 1, i - 1) \in Strings
  BY <1>3, PieceOf
<1>5. SubSeq(d, i, Len(d)) \in Strings /\ Len(SubSeq(d, i, Len(d))) = Len(d) - i + 1
  BY <1>3, PieceOf
<1> DEFINE l == i + Len(tag)
<1>6. l \in 1..(Len(d) + 1) /\ Len(d) \in (l - 1)..Len(d)
  BY <1>1, <1>2
<1>7. SubSeq(d, l, Len(d)) \in Strings /\ Len(SubSeq(d, l, Len(d))) = Len(d) - l + 1
  <2> HIDE DEF l
  <2> QED
    BY <1>6, PieceOf
<1> QED
  BY <1>1, <1>2, <1>4, <1>5, <1>7 DEF i, From

LEMMA JoinTyped ==
  \A a, b \in Strings : a \o b \in Strings
BY ConcatProperties DEF Strings

LEMMA LenTyped ==
  \A d \in Strings : Len(d) \in Nat /\ (d # << >> <=> Len(d) # 0)
BY EmptySeq, LenProperties DEF Strings

\* A step of a loop: it has a parser, and takes some of the data.
Progress(s, d) == s \in Loops /\ Len(s.rest) < Len(d)

LEMMA EndedProgress ==
  ASSUME NEW p \in Parsers, NEW d \in Strings, d # << >>
  PROVE  Progress(Ended(p), d)
BY TagsTyped, LenTyped DEF Progress, Ended, Turned, Loops

LEMMA PassOnProgress ==
  ASSUME NEW p \in Parsers, NEW d \in Strings, d # << >>
  PROVE  Progress(PassOn(p, d), d)
<1>1. Clean(d, StartTag) \in Strings /\ Carry(d, StartTag) \in Strings
  BY TagsTyped, CleanAndCarry
<1>2. p.out \o Clean(d, StartTag) \in Strings
  BY <1>1, JoinTyped DEF Parsers
<1> DEFINE q == [p EXCEPT !.out = @ \o Clean(d, StartTag), !.partial = Carry(d, StartTag)]
<1>3. q \in Parsers
  BY <1>1, <1>2 DEF Parsers
<1> HIDE DEF q
<1>4. Progress(Ended(q), d)
  BY <1>3, EndedProgress
<1> QED
  BY <1>4 DEF PassOn, q

LEMMA DropProgress ==
  ASSUME NEW p \in Parsers, NEW d \in Strings, d # << >>
  PROVE  Progress(Drop(p, d), d)
<1> DEFINE end == Index(d, EndTag)
           start == Index(d, StartTag)
           tag == From(d, start)
           close == Index(tag, <<">">>)
           q == [p EXCEPT !.out = @ \o SubSeq(d, 1, start - 1)]
<1>1. CASE p.inside /\ end = 0
  <2>1. [p EXCEPT !.partial = Carry(d, EndTag)] \in Parsers
    BY TagsTyped, CleanAndCarry DEF Parsers
  <2>2. Drop(p, d) = Ended([p EXCEPT !.partial = Carry(d, EndTag)])
    BY <1>1 DEF Drop
  <2> QED
    BY <2>1, <2>2, EndedProgress
<1>2. CASE p.inside /\ end # 0
  <2>1. /\ end \in 1..(Len(d) - Len(EndTag) + 1) /\ Len(d) \in Nat /\ Len(EndTag) \in Nat \ {0}
        /\ From(d, end + Len(EndTag)) \in Strings
        /\ Len(From(d, end + Len(EndTag))) = Len(d) - (end + Len(EndTag)) + 1
    BY <1>2, TagsTyped, AroundTag
  <2>2. Drop(p, d) = Turned([p EXCEPT !.inside = FALSE], From(d, end + Len(EndTag)))
    BY <1>2, <2>1 DEF Drop
  <2>3. [p EXCEPT !.inside = FALSE] \in Parsers
    BY DEF Parsers
  <2> HIDE DEF end
  <2> QED
    BY <2>1, <2>2, <2>3 DEF Progress, Turned, Loops
<1>3. CASE ~p.inside /\ start = 0
  <2>1. Drop(p, d) = PassOn(p, d)
    BY <1>3 DEF Drop
  <2> QED
    BY <2>1, PassOnProgress
<1>4. CASE ~p.inside /\ start # 0
  <2>1. /\ start \in 1..(Len(d) - Len(StartTag) + 1) /\ Len(d) \in Nat /\ Len(StartTag) \in Nat \ {0}
        /\ SubSeq(d, 1, start - 1) \in Strings
        /\ tag \in Strings /\ Len(tag) = Len(d) - start + 1
    BY <1>4, TagsTyped, AroundTag
  <2>2. q \in Parsers
    BY <2>1, JoinTyped DEF Parsers
  <2>3. CASE close = 0
    <3>1. Drop(p, d) = Ended([q EXCEPT !.partial = tag])
      BY <1>4, <2>1, <2>3 DEF Drop
    <3>2. [q EXCEPT !.partial = tag] \in Parsers
      <4> HIDE DEF q, tag
      <4> QED
        BY <2>1, <2>2 DEF Parsers
    <3> QED
      BY <3>1, <3>2, EndedProgress
  <2>4. CASE close # 0
    <3> DEFINE r == [q EXCEPT !.inside = ~IsSuffix(<<"/", ">">>, SubSeq(tag, 1, close))]
               rest == From(tag, close + 1)
    <3>1. /\ close \in 1..(Len(tag) - Len(<<">">>) + 1) /\ rest \in Strings
          /\ Len(rest) = Len(tag) - (close + 1) + 1 /\ Len(<<">">>) = 1
      <4> DEFINE gt == <<">">>
                 i == Index(tag, gt)
      <4>1. Len(gt) = 1 /\ gt \in Tags /\ i # 0
        BY <2>4, TagsTyped
      <4> HIDE DEF tag, gt
      <4>2. i \in 1..(Len(tag) - Len(gt) + 1) /\ From(tag, i + Len(gt)) \in Strings
            /\ Len(From(tag, i + Len(gt))) = Len(tag) - (i + Len(gt)) + 1
        BY <2>1, <4>1, AroundTag
      <4>3. From(tag, i + 1) \in Strings /\ Len(From(tag, i + 1)) = Len(tag) - (i + 1) + 1
        BY <4>1, <4>2
      <4> QED
        BY <4>1, <4>2, <4>3 DEF gt
    <3>2. Drop(p, d) = Turned(r, rest)
      <4>1. start > 0 /\ close > 0
        <5> HIDE DEF start, close, r, rest, q, tag, end
        <5> QED
          BY <2>1, <3>1
      <4> QED
        BY <1>4, <4>1 DEF Drop
    <3>3. r \in Parsers
      <4> HIDE DEF q
      <4> QED
        BY <2>2 DEF Parsers, IsSuffix, IsPrefix
    <3> HIDE DEF r, rest, close, tag
    <3>4. Len(rest) < Len(d)
      <4> HIDE DEF start
      <4> QED
        BY <2>1, <3>1
    <3> QED
      BY <3>1, <3>2, <3>3, <3>4 DEF Progress, Turned, Loops
  <2> QED
    BY <2>3, <2>4
<1> QED
  BY <1>1, <1>2, <1>3, <1>4 DEF Parsers

LEMMA LineTyped ==
  ASSUME NEW raw
  PROVE  Line(raw) \in Strings
BY TagsTyped DEF Line

LEMMA CardProgress ==
  ASSUME NEW p \in Parsers, NEW d \in Strings, d # << >>
  PROVE  Progress(Card(p, d), d)
<1> DEFINE end == Index(d, EndTag)
           start == Index(d, StartTag)
           card == From(d, start)
           close == Index(card, EndTag)
           q == [p EXCEPT !.out = @ \o SubSeq(d, 1, start - 1)]
<1>1. CASE p.inside /\ end = 0
  <2> DEFINE r == [p EXCEPT !.buffer = @ \o Clean(d, EndTag), !.partial = Carry(d, EndTag)]
  <2>1. Clean(d, EndTag) \in Strings /\ Carry(d, EndTag) \in Strings
    BY TagsTyped, CleanAndCarry
  <2>2. r \in Parsers
    BY <2>1, JoinTyped DEF Parsers
  <2>3. Card(p, d) = Ended(r)
    BY <1>1 DEF Card
  <2> HIDE DEF r
  <2> QED
    BY <2>2, <2>3, EndedProgress
<1>2. CASE p.inside /\ end # 0
  <2> DEFINE r == [p EXCEPT !.inside = FALSE, !.buffer = << >>,
                            !.out = @ \o Line(p.buffer \o SubSeq(d, 1, end - 1))]
             rest == From(d, end + Len(EndTag))
  <2>1. /\ end \in 1..(Len(d) - Len(EndTag) + 1) /\ Len(d) \in Nat /\ Len(EndTag) \in Nat \ {0}
        /\ rest \in Strings /\ Len(rest) = Len(d) - (end + Len(EndTag)) + 1
    BY <1>2, TagsTyped, AroundTag
  <2>2. Card(p, d) = Turned(r, rest)
    BY <1>2, <2>1 DEF Card
  <2>3. r \in Parsers
    BY TagsTyped, LineTyped, JoinTyped DEF Parsers
  <2> HIDE DEF r, rest, end
  <2> QED
    BY <2>1, <2>2, <2>3 DEF Progress, Turned, Loops
<1>3. CASE ~p.inside /\ start = 0
  <2>1. Card(p, d) = PassOn(p, d)
    BY <1>3 DEF Card
  <2> QED
    BY <2>1, PassOnProgress
<1>4. CASE ~p.inside /\ start # 0
  <2>1. /\ start \in 1..(Len(d) - Len(StartTag) + 1) /\ Len(d) \in Nat /\ Len(StartTag) \in Nat \ {0}
        /\ SubSeq(d, 1, start - 1) \in Strings
        /\ card \in Strings /\ Len(card) = Len(d) - start + 1
    BY <1>4, TagsTyped, AroundTag
  <2>2. q \in Parsers
    BY <2>1, JoinTyped DEF Parsers
  <2>3. CASE close = 0
    <3>1. Card(p, d) = Ended([q EXCEPT !.inside = TRUE, !.buffer = card])
      BY <1>4, <2>1, <2>3 DEF Card
    <3>2. [q EXCEPT !.inside = TRUE, !.buffer = card] \in Parsers
      <4> HIDE DEF q, card
      <4> QED
        BY <2>1, <2>2 DEF Parsers
    <3> QED
      BY <3>1, <3>2, EndedProgress
  <2>4. CASE close # 0
    <3> DEFINE r == [q EXCEPT !.out = @ \o Line(SubSeq(card, 1, close - 1))]
               rest == From(card, close + Len(EndTag))
    <3>1. /\ close \in 1..(Len(card) - Len(EndTag) + 1) /\ rest \in Strings
          /\ Len(rest) = Len(card) - (close + Len(EndTag)) + 1 /\ Len(EndTag) \in Nat \ {0}
      <4> HIDE DEF card
      <4> QED
        BY <2>1, <2>4, TagsTyped, AroundTag
    <3>2. Card(p, d) = Turned(r, rest)
      <4>1. start > 0 /\ start # 0 /\ close > 0 /\ close # 0 /\ ~p.inside
        <5> HIDE DEF start, close
        <5> QED
          BY <1>4, <2>1, <2>4, <3>1
      <4> QED
        BY <4>1 DEF Card
    <3>3. r \in Parsers
      <4> HIDE DEF q
      <4> QED
        BY <2>2, LineTyped, JoinTyped DEF Parsers
    <3> HIDE DEF r, rest, close, card
    <3>4. Len(rest) < Len(d)
      <4> HIDE DEF start
      <4> QED
        BY <2>1, <3>1
    <3> QED
      BY <3>1, <3>2, <3>3, <3>4 DEF Progress, Turned, Loops
  <2> QED
    BY <2>3, <2>4
<1> QED
  BY <1>1, <1>2, <1>3, <1>4 DEF Parsers

LEMMA ToolProgress ==
  ASSUME NEW p \in Parsers, NEW d \in Strings, d # << >>
  PROVE  Progress(Tool(p, d), d)
<1> DEFINE end == Index(d, EndTag)
           start == Index(d, StartTag)
           raw == p.buffer \o SubSeq(d, 1, end - 1)
<1>1. CASE p.inside /\ end = 0
  <2>1. Clean(d, EndTag) \in Strings /\ Carry(d, EndTag) \in Strings
    BY TagsTyped, CleanAndCarry
  <2>2. ToolContent(p, d) \in Parsers
    BY <2>1, JoinTyped DEF Parsers, ToolContent
  <2>3. Tool(p, d) = Ended(ToolContent(p, d))
    BY <1>1 DEF Tool
  <2> QED
    BY <2>2, <2>3, EndedProgress
<1>2. CASE p.inside /\ end # 0
  <2> DEFINE r == [p EXCEPT !.inside = FALSE, !.buffer = << >>,
                            !.calls = IF IsCall(raw) THEN Append(@, raw) ELSE @,
                            !.out = IF IsCall(raw) \/ raw = << >> THEN @
                                    ELSE @ \o StartTag \o raw \o EndTag]
             rest == From(d, end + Len(EndTag))
  <2>1. /\ end \in 1..(Len(d) - Len(EndTag) + 1) /\ Len(d) \in Nat /\ Len(EndTag) \in Nat \ {0}
        /\ rest \in Strings /\ Len(rest) = Len(d) - (end + Len(EndTag)) + 1
        /\ SubSeq(d, 1, end - 1) \in Strings
    BY <1>2, TagsTyped, AroundTag
  <2>2. Tool(p, d) = Turned(r, rest)
    BY <1>2, <2>1 DEF Tool
  <2>3. r \in Parsers
    <3>1. raw \in Strings
      BY <2>1, JoinTyped DEF Parsers
    <3> HIDE DEF raw
    <3>2. ((p.out \o StartTag) \o raw) \o EndTag \in Strings
      BY <3>1, TagsTyped, JoinTyped DEF Parsers
    <3>3. Append(p.calls, raw) \in Seq(Strings)
      BY <3>1, AppendProperties DEF Parsers
    <3> QED
      BY <3>2, <3>3, TagsTyped DEF Parsers
  <2> HIDE DEF r, rest, end
  <2> QED
    BY <2>1, <2>2, <2>3 DEF Progress, Turned, Loops
<1>3. CASE ~p.inside /\ start = 0
  <2>1. Tool(p, d) = PassOn(p, d)
    BY <1>3 DEF Tool
  <2> QED
    BY <2>1, PassOnProgress
<1>4. CASE ~p.inside /\ start # 0
  <2> DEFINE r == [p EXCEPT !.inside = TRUE, !.out = @ \o SubSeq(d, 1, start - 1)]
             rest == From(d, start + Len(StartTag))
  <2>1. /\ start \in 1..(Len(d) - Len(StartTag) + 1) /\ Len(d) \in Nat /\ Len(StartTag) \in Nat \ {0}
        /\ rest \in Strings /\ Len(rest) = Len(d) - (start + Len(StartTag)) + 1
        /\ SubSeq(d, 1, start - 1) \in Strings
    BY <1>4, TagsTyped, AroundTag
  <2>2. Tool(p, d) = Turned(r, rest)
    BY <1>4, <2>1 DEF Tool
  <2>3. r \in Parsers
    BY <2>1, JoinTyped DEF Parsers
  <2> HIDE DEF r, rest, start
  <2> QED
    BY <2>1, <2>2, <2>3 DEF Progress, Turned, Loops
<1> QED
  BY <1>1, <1>2, <1>3, <1>4 DEF Parsers

\* Every turn of a parser takes some of the data, so its loop ends.
LEMMA TurnProgress ==
  ASSUME NEW k \in ParserKinds, NEW s \in Loops
  PROVE  /\ Turn(k, s) \in Loops
         /\ s.rest = << >> => Turn(k, s) = s
         /\ s.rest # << >> => Len(Turn(k, s).rest) < Len(s.rest)
<1>0. s.parser \in Parsers /\ s.rest \in Strings
  BY DEF Loops
<1>1. CASE s.rest = << >>
  <2>1. Turn(k, s) = s
    BY <1>1 DEF Turn
  <2> QED
    BY <1>1, <2>1
<1>2. CASE s.rest # << >>
  <2>1. \/ k = "drop" /\ Turn(k, s) = Drop(s.parser, s.rest)
        \/ k = "card" /\ Turn(k, s) = Card(s.parser, s.rest)
        \/ k \in {"tool", "answer"} /\ Turn(k, s) = Tool(s.parser, s.rest)
    BY <1>2 DEF Turn, ParserKinds
  <2>2. Progress(Turn(k, s), s.rest)
    BY <1>0, <1>2, <2>1, DropProgress, CardProgress, ToolProgress
  <2> QED
    BY <1>2, <2>2 DEF Progress
<1> QED
  BY <1>1, <1>2

-----------------------------------------------------------------------------
(* The loop of a parser: turns until the data is taken. *)

LEMMA LoopTurns ==
  ASSUME NEW k \in ParserKinds, NEW p \in Parsers, NEW d \in Strings
  PROVE  /\ Loop(k, p, d) \in [Nat -> Loops]
         /\ Loop(k, p, d)[0] = Turned(p, d)
         /\ \A n \in Nat : Loop(k, p, d)[n + 1] = Turn(k, Loop(k, p, d)[n])
<1> DEFINE F == [s \in Loops |-> Turn(k, s)]
           Is(f) == f = [n \in Nat |-> IF n = 0 THEN Turned(p, d) ELSE Turn(k, f[n - 1])]
<1>1. F \in [Loops -> Loops]
  BY TurnProgress
<1>2. Turned(p, d) \in Loops
  BY DEF Turned, Loops
<1>3. PICK g \in [Nat -> Loops] : g[0] = Turned(p, d) /\ \A n \in Nat : g[n + 1] = F[g[n]]
  <2> HIDE DEF F
  <2> DEFINE X == Loops
             x == Turned(p, d)
  <2>1. F \in [X -> X] /\ x \in X
    BY <1>1, <1>2
  <2> HIDE DEF X, x
  <2>2. \E g \in [Nat -> X] : g[0] = x /\ \A n \in Nat : g[n + 1] = F[g[n]]
    BY <2>1, LoopExists
  <2> QED
    BY <2>2 DEF X, x
<1>4. Is(g)
  <2>1. ASSUME NEW n \in Nat PROVE g[n] = IF n = 0 THEN Turned(p, d) ELSE Turn(k, g[n - 1])
    <3>1. CASE n = 0
      BY <1>3, <3>1
    <3>2. CASE n # 0
      <4>1. n - 1 \in Nat /\ (n - 1) + 1 = n
        BY <3>2
      <4>2. g[n] = F[g[n - 1]] /\ g[n - 1] \in Loops
        BY <1>3, <4>1
      <4> QED
        BY <3>2, <4>2
    <3> QED
      BY <3>1, <3>2
  <2> QED
    BY <1>3, <2>1
<1>5. Is(Loop(k, p, d))
  <2>1. Loop(k, p, d) = CHOOSE f : Is(f)
    BY DEF Loop
  <2> HIDE DEF Is
  <2> QED
    BY <1>4, <2>1
<1> DEFINE f == Loop(k, p, d)
<1> HIDE DEF f
<1>6. f[0] = Turned(p, d) /\ \A n \in Nat : f[n + 1] = Turn(k, f[n])
  <2>1. f = [n \in Nat |-> IF n = 0 THEN Turned(p, d) ELSE Turn(k, f[n - 1])]
    BY <1>5 DEF f
  <2>2. ASSUME NEW n \in Nat PROVE f[n + 1] = Turn(k, f[n])
    <3>1. n + 1 \in Nat /\ n + 1 # 0 /\ (n + 1) - 1 = n
      OBVIOUS
    <3> QED
      BY <2>1, <3>1
  <2>3. f[0] = Turned(p, d)
    BY <2>1
  <2> QED
    BY <2>2, <2>3
<1>7. f \in [Nat -> Loops]
  <2> DEFINE A == {n \in Nat : f[n] \in Loops}
  <2>1. 0 \in A
    BY <1>2, <1>6
  <2>2. ASSUME NEW n \in Nat, n \in A PROVE n + 1 \in A
    <3>1. Turn(k, f[n]) \in Loops
      BY <2>2, TurnProgress
    <3> QED
      BY <1>6, <2>2, <3>1
  <2>3. Nat \subseteq A
    <3> HIDE DEF A
    <3> QED
      BY <2>1, <2>2, NatInductionOf
  <2>4. f = [n \in Nat |-> f[n]]
    BY <1>5 DEF f
  <2> QED
    BY <2>3, <2>4
<1> QED
  BY <1>6, <1>7 DEF f

\* Without data the loop stands still.
LEMMA LoopStands ==
  ASSUME NEW k \in ParserKinds, NEW p \in Parsers, NEW d \in Strings,
         NEW n \in Nat, Loop(k, p, d)[n].rest = << >>, NEW m \in Nat, n <= m
  PROVE  Loop(k, p, d)[m] = Loop(k, p, d)[n]
<1> DEFINE f == Loop(k, p, d)
           A == {i \in Nat : f[n + i] = f[n]}
<1>1. f \in [Nat -> Loops] /\ (\A i \in Nat : f[i + 1] = Turn(k, f[i])) /\ f[n].rest = << >>
  BY LoopTurns
<1> HIDE DEF f
<1>2. 0 \in A
  OBVIOUS
<1>3. ASSUME NEW i \in Nat, i \in A PROVE i + 1 \in A
  <2>1. f[n + (i + 1)] = Turn(k, f[n + i]) /\ f[n + i] = f[n] /\ f[n] \in Loops
    <3>1. n + i \in Nat /\ n + (i + 1) = (n + i) + 1
      OBVIOUS
    <3> QED
      BY <1>1, <1>3, <3>1
  <2>2. Turn(k, f[n]) = f[n]
    BY <1>1, <2>1, TurnProgress
  <2> QED
    BY <2>1, <2>2
<1>4. Nat \subseteq A
  <2> HIDE DEF A
  <2> QED
    BY <1>2, <1>3, NatInductionOf
<1>5. m - n \in Nat /\ n + (m - n) = m
  OBVIOUS
<1>6. f[n + (m - n)] = f[n]
  BY <1>4, <1>5
<1> QED
  BY <1>5, <1>6 DEF f

(* The loop of a parser ends, whatever the data: a turn for every symbol is  *)
(* enough.                                                                   *)
THEOREM ParsersEnd ==
  ASSUME NEW k \in ParserKinds, NEW p \in Parsers, NEW d \in Strings
  PROVE  Loop(k, p, d)[Len(d)].rest = << >>
<1> DEFINE f == Loop(k, p, d)
           A == {n \in Nat : f[n].rest = << >> \/ Len(f[n].rest) + n <= Len(d)}
<1>1. f \in [Nat -> Loops] /\ f[0] = Turned(p, d) /\ \A n \in Nat : f[n + 1] = Turn(k, f[n])
  BY LoopTurns
<1>2. Len(d) \in Nat
  BY LenTyped
<1> HIDE DEF f
<1>3. 0 \in A
  BY <1>1, <1>2 DEF Turned
<1>4. ASSUME NEW n \in Nat, n \in A PROVE n + 1 \in A
  <2>1. f[n + 1] = Turn(k, f[n]) /\ f[n] \in Loops /\ f[n + 1] \in Loops
    BY <1>1
  <2>2. f[n].rest \in Strings /\ f[n + 1].rest \in Strings
    BY <2>1 DEF Loops
  <2>3. Len(f[n].rest) \in Nat /\ Len(f[n + 1].rest) \in Nat
    BY <2>2, LenTyped
  <2>4. CASE f[n].rest = << >>
    BY <2>1, <2>4, TurnProgress
  <2>5. CASE f[n].rest # << >>
    <3>1. Len(f[n + 1].rest) < Len(f[n].rest)
      BY <2>1, <2>5, TurnProgress
    <3>2. Len(f[n].rest) + n <= Len(d)
      BY <1>4, <2>5
    <3> DEFINE x == Len(f[n].rest)
               y == Len(f[n + 1].rest)
               l == Len(d)
    <3>3. x \in Nat /\ y \in Nat /\ l \in Nat /\ y < x /\ x + n <= l
      BY <1>2, <2>3, <3>1, <3>2
    <3>4. y + (n + 1) <= l
      <4> HIDE DEF x, y, l
      <4> QED
        BY <3>3
    <3>5. n + 1 \in Nat
      OBVIOUS
    <3> QED
      BY <3>4, <3>5, Zenon
  <2> QED
    BY <2>4, <2>5
<1>5. Nat \subseteq A
  <2> HIDE DEF A
  <2> QED
    BY <1>3, <1>4, NatInductionOf
<1>6. f[Len(d)].rest = << >> \/ Len(f[Len(d)].rest) + Len(d) <= Len(d)
  BY <1>2, <1>5
<1>7. f[Len(d)].rest \in Strings
  BY <1>1, <1>2 DEF Loops
<1>8. Len(f[Len(d)].rest) \in Nat /\ (f[Len(d)].rest # << >> <=> Len(f[Len(d)].rest) # 0)
  BY <1>7, LenTyped
<1>9. f[Len(d)].rest = << >>
  BY <1>2, <1>6, <1>8
<1> QED
  BY <1>9 DEF f

\* The parser when the data is taken.
Final(k, p, d) == Loop(k, p, d)[Len(d)].parser

LEMMA FinalTyped ==
  ASSUME NEW k \in ParserKinds, NEW p \in Parsers, NEW d \in Strings
  PROVE  Final(k, p, d) \in Parsers
<1>1. Loop(k, p, d) \in [Nat -> Loops] /\ Len(d) \in Nat
  BY LoopTurns, LenTyped
<1> QED
  BY <1>1 DEF Final, Loops

LEMMA FinalOfNone ==
  ASSUME NEW k \in ParserKinds, NEW p \in Parsers
  PROVE  Final(k, p, << >>) = p
<1>1. Loop(k, p, << >>)[0] = Turned(p, << >>)
  BY TagsTyped, LoopTurns
<1> QED
  BY <1>1 DEF Final, Turned

\* The loop is a turn and the loop of what is left.
LEMMA FinalTurn ==
  ASSUME NEW k \in ParserKinds, NEW p \in Parsers, NEW d \in Strings, d # << >>,
         NEW s, s = Turn(k, Turned(p, d))
  PROVE  /\ s \in Loops /\ Len(s.rest) < Len(d)
         /\ Final(k, p, d) = Final(k, s.parser, s.rest)
<1> DEFINE f == Loop(k, p, d)
           g == Loop(k, s.parser, s.rest)
           A == {n \in Nat : g[n] = f[n + 1]}
<1>1. Turned(p, d) \in Loops /\ Turned(p, d).rest = d
  BY DEF Turned, Loops
<1>2. s \in Loops /\ Len(s.rest) < Len(d)
  BY <1>1, TurnProgress
<1>3. s.parser \in Parsers /\ s.rest \in Strings /\ s = Turned(s.parser, s.rest)
  BY <1>2 DEF Loops, Turned
<1>4. f \in [Nat -> Loops] /\ f[0] = Turned(p, d) /\ \A n \in Nat : f[n + 1] = Turn(k, f[n])
  BY LoopTurns
<1>5. g[0] = s /\ \A n \in Nat : g[n + 1] = Turn(k, g[n])
  BY <1>3, LoopTurns
<1>6. g[Len(s.rest)].rest = << >>
  BY <1>3, ParsersEnd
<1>7. Len(s.rest) \in Nat /\ Len(d) \in Nat
  BY <1>3, LenTyped
<1>8. Nat \subseteq A
  <2> HIDE DEF f, g
  <2>1. 0 \in A
    <3>1. f[0 + 1] = Turn(k, f[0])
      BY <1>4
    <3> QED
      BY <1>4, <1>5, <3>1
  <2>2. ASSUME NEW n \in Nat, n \in A PROVE n + 1 \in A
    <3>1. g[n] = f[n + 1] /\ n + 1 \in Nat
      BY <2>2
    <3>2. f[(n + 1) + 1] = Turn(k, f[n + 1]) /\ g[n + 1] = Turn(k, g[n])
      BY <1>4, <1>5, <3>1
    <3> QED
      BY <3>1, <3>2
  <2> HIDE DEF A
  <2> QED
    BY <2>1, <2>2, NatInductionOf
<1>9. g[Len(s.rest)] = f[Len(s.rest) + 1]
  BY <1>7, <1>8
<1>10. f[Len(d)] = f[Len(s.rest) + 1]
  <2> DEFINE n == Len(s.rest) + 1
             m == Len(d)
  <2>1. n \in Nat /\ m \in Nat /\ n <= m
    BY <1>2, <1>7
  <2>2. Loop(k, p, d)[n].rest = << >>
    BY <1>6, <1>9
  <2> HIDE DEF n, m
  <2>3. Loop(k, p, d)[m] = Loop(k, p, d)[n]
    BY <2>1, <2>2, LoopStands
  <2> QED
    BY <2>3 DEF n, m
<1>11. f[Len(d)] = g[Len(s.rest)]
  BY <1>9, <1>10
<1> HIDE DEF f, g
<1>12. Final(k, p, d) = f[Len(d)].parser /\ Final(k, s.parser, s.rest) = g[Len(s.rest)].parser
  BY DEF Final, f, g
<1> QED
  BY <1>2, <1>11, <1>12

-----------------------------------------------------------------------------
(* A text that is cut in two. *)

\* The text t is a up to the tag and b behind it.
AlikeBefore(t, tag, a, b) ==
    /\ Index(t, tag) = Index(a, tag)
    /\ SubSeq(t, 1, Index(a, tag) - 1) = SubSeq(a, 1, Index(a, tag) - 1)
    /\ SubSeq(t, 1, Index(a, tag)) = SubSeq(a, 1, Index(a, tag))
    /\ From(t, Index(a, tag)) = From(a, Index(a, tag)) \o b
    /\ From(t, Index(a, tag) + Len(tag)) = From(a, Index(a, tag) + Len(tag)) \o b

\* The tag is in the first part: it remains where it is.
LEMMA TagBeforeCut ==
  ASSUME NEW a \in Strings, NEW b \in Strings, NEW tag \in Tags, Index(a, tag) # 0
  PROVE  AlikeBefore(a \o b, tag, a, b)
<1> DEFINE i == Index(a, tag)
           l == i + Len(tag)
<1>1. i \in 1..(Len(a) - Len(tag) + 1) /\ Len(a) \in Nat /\ Len(tag) \in Nat \ {0}
  BY AroundTag
<1>2. Index(a \o b, tag) = i
  BY IndexOfFirst
<1> HIDE DEF i
<1>3. 1 \in 1..(Len(a) + 1) /\ i - 1 \in (1 - 1)..Len(a) /\ i \in (1 - 1)..Len(a)
      /\ i \in 1..(Len(a) + 1) /\ l \in 1..(Len(a) + 1)
  BY <1>1
<1> HIDE DEF l
<1>4. SubSeq(a \o b, 1, i - 1) = SubSeq(a, 1, i - 1) /\ SubSeq(a \o b, 1, i) = SubSeq(a, 1, i)
  BY <1>3, PieceOfFirst
<1>5. From(a \o b, i) = From(a, i) \o b /\ From(a \o b, l) = From(a, l) \o b
  BY <1>3, RestOfFirst
<1> QED
  BY <1>2, <1>4, <1>5 DEF i, l, AlikeBefore

\* The text t without its first symbols c, which are passed on, is u.
AlikeBehind(t, tag, c, u) ==
    /\ c \in Strings /\ u \in Strings
    /\ Index(u, tag) = 0 =>
          /\ Index(t, tag) = 0
          /\ Clean(t, tag) = c \o Clean(u, tag)
          /\ Carry(t, tag) = Carry(u, tag)
    /\ Index(u, tag) # 0 =>
          /\ Index(t, tag) # 0
          /\ SubSeq(t, 1, Index(t, tag) - 1) = c \o SubSeq(u, 1, Index(u, tag) - 1)
          /\ From(t, Index(t, tag)) = From(u, Index(u, tag))
          /\ From(t, Index(t, tag) + Len(tag)) = From(u, Index(u, tag) + Len(tag))

\* The first part has no tag; what it may have begun is looked at again.
LEMMA TagBehindCut ==
  ASSUME NEW a \in Strings, NEW b \in Strings, NEW tag \in Tags, Index(a, tag) = 0
  PROVE  AlikeBehind(a \o b, tag, Clean(a, tag), Carry(a, tag) \o b)
<1> DEFINE c == Clean(a, tag)
           u == Carry(a, tag) \o b
<1> DEFINE t == a \o b
<1>1. /\ c \in Strings /\ Carry(a, tag) \in Strings
  BY CleanAndCarry
<1>2. u \in Strings
  BY <1>1, JoinTyped
<1>3. /\ t = c \o u
      /\ Index(t, tag) = IF Index(u, tag) = 0 THEN 0 ELSE Len(c) + Index(u, tag)
      /\ SuffixPrefixLength(t, tag) = SuffixPrefixLength(u, tag)
  BY CutTag
<1>4. Len(c) \in Nat /\ Len(u) \in Nat /\ Len(t) = Len(c) + Len(u) /\ Len(tag) \in Nat
  <2>1. Len(tag) \in Nat
    BY LenProperties DEF Strings, Tags
  <2> HIDE DEF t
  <2> QED
    BY <1>1, <1>2, <1>3, <2>1, JoinOf
<1> HIDE DEF t, c, u
<1>5. ASSUME Index(u, tag) = 0
      PROVE  Clean(t, tag) = c \o Clean(u, tag) /\ Carry(t, tag) = Carry(u, tag)
  <2> DEFINE m == SuffixPrefixLength(u, tag)
             j == Len(u) - m
  <2>1. m \in 0..(Len(tag) - 1) /\ m <= Len(u)
    BY <1>2, LongestBegin
  <2>2. j \in 0..Len(u) /\ j + 1 \in 1..(Len(u) + 1) /\ Len(t) - m = Len(c) + j
        /\ (Len(c) + j) + 1 = Len(c) + (j + 1)
    <3> HIDE DEF m
    <3> QED
      BY <1>4, <2>1
  <2>3. Clean(t, tag) = SubSeq(t, 1, Len(t) - m) /\ Carry(t, tag) = From(t, (Len(t) - m) + 1)
        /\ Clean(u, tag) = SubSeq(u, 1, j) /\ Carry(u, tag) = From(u, j + 1)
    BY <1>3 DEF Clean, Carry
  <2> HIDE DEF m, j
  <2>4. SubSeq(c \o u, 1, Len(c) + j) = c \o SubSeq(u, 1, j)
    BY <1>1, <1>2, <2>2, PieceOfBoth
  <2>5. From(c \o u, Len(c) + (j + 1)) = From(u, j + 1)
    BY <1>1, <1>2, <2>2, RestOfSecond
  <2> QED
    BY <1>3, <2>2, <2>3, <2>4, <2>5
<1>6. ASSUME Index(u, tag) # 0
      PROVE  /\ Index(t, tag) = Len(c) + Index(u, tag) /\ Index(t, tag) # 0
             /\ SubSeq(t, 1, Index(t, tag) - 1) = c \o SubSeq(u, 1, Index(u, tag) - 1)
             /\ From(t, Index(t, tag)) = From(u, Index(u, tag))
             /\ From(t, Index(t, tag) + Len(tag)) = From(u, Index(u, tag) + Len(tag))
  <2> DEFINE i == Index(u, tag)
             l == Index(t, tag)
  <2>1. i \in 1..(Len(u) - Len(tag) + 1) /\ Len(tag) \in Nat \ {0}
    BY <1>2, <1>6, AroundTag
  <2>2. l = Len(c) + i
    BY <1>3, <1>6
  <2> HIDE DEF i, l
  <2>3. l # 0 /\ l - 1 = Len(c) + (i - 1) /\ l + Len(tag) = Len(c) + (i + Len(tag))
        /\ i - 1 \in 0..Len(u) /\ i \in 1..(Len(u) + 1) /\ i + Len(tag) \in 1..(Len(u) + 1)
    BY <1>4, <2>1, <2>2
  <2>4. SubSeq(c \o u, 1, Len(c) + (i - 1)) = c \o SubSeq(u, 1, i - 1)
    BY <1>1, <1>2, <2>3, PieceOfBoth
  <2>5. From(c \o u, Len(c) + i) = From(u, i)
    BY <1>1, <1>2, <2>3, RestOfSecond
  <2>6. From(c \o u, Len(c) + (i + Len(tag))) = From(u, i + Len(tag))
    BY <1>1, <1>2, <2>3, RestOfSecond
  <2>7. /\ SubSeq(t, 1, l - 1) = c \o SubSeq(u, 1, i - 1)
        /\ From(t, l) = From(u, i)
        /\ From(t, l + Len(tag)) = From(u, i + Len(tag))
    BY <1>3, <2>2, <2>3, <2>4, <2>5, <2>6
  <2> QED
    BY <2>2, <2>3, <2>7 DEF i, l
<1> QED
  BY <1>1, <1>2, <1>3, <1>5, <1>6 DEF t, c, u, AlikeBehind

\* The text u begins with the tag.
BeginsWith(u, tag) ==
    u \in Strings /\ Index(u, tag) = 1 /\ From(u, 1) = u /\ SubSeq(u, 1, 0) = << >>

LEMMA TagFirst ==
  ASSUME NEW d \in Strings, NEW tag \in Tags, NEW b \in Strings, Index(d, tag) # 0
  PROVE  BeginsWith(From(d, Index(d, tag)) \o b, tag)
<1> DEFINE i == Index(d, tag)
           f == From(d, i)
           u == f \o b
<1>1. /\ i \in 1..(Len(d) - Len(tag) + 1) /\ Len(d) \in Nat /\ Len(tag) \in Nat \ {0}
      /\ f \in Strings /\ Len(f) = Len(d) - i + 1
  BY AroundTag
<1>2. IsAt(d, tag, i)
  BY IndexValue
<1> HIDE DEF i
<1>3. i \in 1..(Len(d) + 1) /\ Len(d) \in (i - 1)..Len(d)
  BY <1>1
<1>4. \A j \in 1..(Len(d) - i + 1) : f[j] = d[i + j - 1]
  BY <1>3, PieceOf DEF From
<1>5. \A k \in 1..Len(tag) : d[i + k - 1] = tag[k]
  BY <1>1, <1>2, IsAtSymbols
<1> HIDE DEF f
<1>6. 1 \in 1..(Len(f) - Len(tag) + 1)
      /\ \A k \in 1..Len(tag) : k \in 1..(Len(d) - i + 1) /\ 1 + k - 1 = k
  BY <1>1
<1>7. \A k \in 1..Len(tag) : f[1 + k - 1] = tag[k]
  BY <1>4, <1>5, <1>6
<1>8. IsAt(f, tag, 1)
  BY <1>1, <1>6, <1>7, IsAtSymbols
<1>9. Index(f, tag) = 1
  BY <1>1, <1>6, <1>8, IndexIs
<1>10. u \in Strings
  BY <1>1, JoinTyped
<1>11. Index(u, tag) = 1
  BY <1>1, <1>9, IndexOfFirst
<1> HIDE DEF u
<1>12. From(u, 1) = u
  BY <1>10, SubSeqFull DEF From, Strings
<1>13. SubSeq(u, 1, 0) = << >>
  BY SubSeqEmpty
<1> QED
  BY <1>10, <1>11, <1>12, <1>13 DEF BeginsWith, u, f, i

Cleared(p) == [p EXCEPT !.partial = << >>]
Held(p, y) == [p EXCEPT !.partial = y]
Shown(p, more) == [p EXCEPT !.out = @ \o more]

LEMMA ShownTyped ==
  ASSUME NEW p \in Parsers, NEW c \in Strings
  PROVE  /\ Shown(p, c) \in Parsers
         /\ Shown(p, c).inside = p.inside /\ Shown(p, c).partial = p.partial
         /\ Shown(p, c).buffer = p.buffer /\ Shown(p, c).calls = p.calls
         /\ Shown(p, c).out = p.out \o c
BY JoinTyped DEF Shown, Parsers

LEMMA ShownTwice ==
  ASSUME NEW p \in Parsers, NEW c \in Strings, NEW d \in Strings
  PROVE  Shown(Shown(p, c), d) = Shown(p, c \o d)
<1>1. p.out \in Strings
  BY DEF Parsers
<1> DEFINE x == p.out
<1>2. (x \o c) \o d = x \o (c \o d)
  <2> HIDE DEF x
  <2>1. x \in Strings
    BY <1>1 DEF x
  <2> QED
    BY <2>1, JoinAssociates
<1> QED
  BY <1>2 DEF Shown, Parsers

LEMMA ShownNone ==
  ASSUME NEW p \in Parsers
  PROVE  Shown(p, << >>) = p
<1>1. p.out \in Strings
  BY DEF Parsers
<1>2. p.out \o << >> = p.out
  BY <1>1, ConcatEmptySeq DEF Strings
<1> QED
  BY <1>2 DEF Shown, Parsers

\* A parser that waits, with what it waits with.
LEMMA HeldCleared ==
  ASSUME NEW p \in Parsers, p.partial = << >>, NEW y
  PROVE  /\ Cleared(Held(p, y)) = p /\ Held(p, y).partial = y
         /\ Ended(Held(p, y)).parser = Held(p, y) /\ Ended(Held(p, y)).rest = << >>
BY DEF Cleared, Held, Parsers, Ended, Turned

LEMMA TurnedParts ==
  \A p, d : Turned(p, d).parser = p /\ Turned(p, d).rest = d
BY DEF Turned

LEMMA IndexNatural ==
  ASSUME NEW d \in Strings, NEW tag \in Tags
  PROVE  Index(d, tag) \in Nat
<1>1. Len(d) \in Nat /\ Len(tag) \in Nat
  BY LenProperties DEF Strings, Tags
<1> QED
  BY <1>1, IndexValue

LEMMA PassOnIs ==
  ASSUME NEW p \in Parsers, NEW d
  PROVE  PassOn(p, d) = Ended(Held(Shown(p, Clean(d, StartTag)), Carry(d, StartTag)))
BY DEF PassOn, Held, Shown, Parsers

(* What Drop does with a start tag, when before is shown and tag follows. *)
DropTag(p, before, tag) ==
    IF Index(tag, <<">">>) = 0 THEN Ended(Held(Shown(p, before), tag))
    ELSE Turned([Shown(p, before) EXCEPT
                    !.inside = ~IsSuffix(<<"/", ">">>, SubSeq(tag, 1, Index(tag, <<">">>)))],
                From(tag, Index(tag, <<">">>) + 1))

LEMMA DropIs ==
  ASSUME NEW p \in Parsers, NEW d \in Strings
  PROVE  Drop(p, d) =
           IF p.inside
           THEN IF Index(d, EndTag) = 0 THEN Ended(Held(p, Carry(d, EndTag)))
                ELSE Turned([p EXCEPT !.inside = FALSE], From(d, Index(d, EndTag) + Len(EndTag)))
           ELSE IF Index(d, StartTag) = 0 THEN PassOn(p, d)
                ELSE DropTag(p, SubSeq(d, 1, Index(d, StartTag) - 1), From(d, Index(d, StartTag)))
<1> DEFINE end == Index(d, EndTag)
           start == Index(d, StartTag)
           tag == From(d, start)
           close == Index(tag, <<">">>)
<1>1. end \in Nat /\ start \in Nat
  BY TagsTyped, IndexNatural
<1>2. CASE p.inside /\ end = 0
  BY <1>2 DEF Drop, Held
<1>3. CASE p.inside /\ end # 0
  <2>1. end > 0
    <3> HIDE DEF end
    <3> QED
      BY <1>1, <1>3
  <2> QED
    BY <1>3, <2>1 DEF Drop
<1>4. CASE ~p.inside /\ start = 0
  BY <1>4 DEF Drop
<1>5. CASE ~p.inside /\ start # 0
  <2>1. start > 0
    <3> HIDE DEF start
    <3> QED
      BY <1>1, <1>5
  <2>2. tag \in Strings
    BY <1>5, TagsTyped, AroundTag
  <2>3. CASE close = 0
    <3>1. Drop(p, d) = Ended([[p EXCEPT !.out = @ \o SubSeq(d, 1, start - 1)] EXCEPT !.partial = tag])
      BY <1>5, <2>1, <2>3 DEF Drop
    <3>2. DropTag(p, SubSeq(d, 1, start - 1), tag)
          = Ended([[p EXCEPT !.out = @ \o SubSeq(d, 1, start - 1)] EXCEPT !.partial = tag])
      <4> HIDE DEF tag, start
      <4> QED
        BY <2>3 DEF DropTag, Shown, Held
    <3> QED
      BY <1>5, <3>1, <3>2
  <2>4. CASE close # 0
    <3>1. close > 0
      <4> HIDE DEF tag
      <4>1. close \in Nat
        BY <2>2, TagsTyped, IndexNatural
      <4> HIDE DEF close
      <4> QED
        BY <2>4, <4>1
    <3>2. Drop(p, d) = Turned([[p EXCEPT !.out = @ \o SubSeq(d, 1, start - 1)]
                                 EXCEPT !.inside = ~IsSuffix(<<"/", ">">>, SubSeq(tag, 1, close))],
                              From(tag, close + 1))
      BY <1>5, <2>1, <3>1 DEF Drop
    <3>3. DropTag(p, SubSeq(d, 1, start - 1), tag)
          = Turned([[p EXCEPT !.out = @ \o SubSeq(d, 1, start - 1)]
                      EXCEPT !.inside = ~IsSuffix(<<"/", ">">>, SubSeq(tag, 1, close))],
                   From(tag, close + 1))
      <4> HIDE DEF tag, start
      <4> QED
        BY <2>4 DEF DropTag, Shown
    <3> QED
      BY <1>5, <3>2, <3>3
  <2> QED
    BY <2>3, <2>4
<1> QED
  BY <1>2, <1>3, <1>4, <1>5 DEF Parsers

(* What Tool does with an end tag behind the block raw, when rest follows. *)
ToolCall(p, raw, rest) ==
    Turned([p EXCEPT !.inside = FALSE, !.buffer = << >>,
                     !.calls = IF IsCall(raw) THEN Append(@, raw) ELSE @,
                     !.out = IF IsCall(raw) \/ raw = << >> THEN @
                             ELSE @ \o StartTag \o raw \o EndTag],
           rest)

LEMMA ToolIs ==
  ASSUME NEW p \in Parsers, NEW d \in Strings
  PROVE  Tool(p, d) =
           IF p.inside
           THEN IF Index(d, EndTag) = 0 THEN Ended(ToolContent(p, d))
                ELSE ToolCall(p, p.buffer \o SubSeq(d, 1, Index(d, EndTag) - 1),
                              From(d, Index(d, EndTag) + Len(EndTag)))
           ELSE IF Index(d, StartTag) = 0 THEN PassOn(p, d)
                ELSE Turned([Shown(p, SubSeq(d, 1, Index(d, StartTag) - 1)) EXCEPT !.inside = TRUE],
                            From(d, Index(d, StartTag) + Len(StartTag)))
<1> DEFINE end == Index(d, EndTag)
           start == Index(d, StartTag)
<1>1. end \in Nat /\ start \in Nat
  BY TagsTyped, IndexNatural
<1>2. CASE p.inside /\ end = 0
  BY <1>2 DEF Tool
<1>3. CASE p.inside /\ end # 0
  <2>1. end > 0
    <3> HIDE DEF end
    <3> QED
      BY <1>1, <1>3
  <2> QED
    BY <1>3, <2>1 DEF Tool, ToolCall
<1>4. CASE ~p.inside /\ start = 0
  BY <1>4 DEF Tool
<1>5. CASE ~p.inside /\ start # 0
  <2>1. start > 0
    <3> HIDE DEF start
    <3> QED
      BY <1>1, <1>5
  <2>2. Tool(p, d) = Turned([p EXCEPT !.inside = TRUE, !.out = @ \o SubSeq(d, 1, start - 1)],
                            From(d, start + Len(StartTag)))
    BY <1>5, <2>1 DEF Tool
  <2>3. [p EXCEPT !.inside = TRUE, !.out = @ \o SubSeq(d, 1, start - 1)]
        = [Shown(p, SubSeq(d, 1, start - 1)) EXCEPT !.inside = TRUE]
    <3> HIDE DEF start
    <3> QED
      BY DEF Shown, Parsers
  <2> QED
    BY <1>5, <2>2, <2>3
<1> QED
  BY <1>2, <1>3, <1>4, <1>5 DEF Parsers

\* The turn s on the first part, one on the whole, and the one that is made
\* when b follows: either the parser goes on alike with the whole, or it
\* waits and makes the turn of the whole then.
SameTurn(s, b, whole, again) ==
    \/ s.parser.partial = << >> /\ whole = Turned(s.parser, s.rest \o b)
    \/ s.rest = << >> /\ again = whole

Waited(s, b) == s.parser.partial \o b

\* A turn that waits.
LEMMA WaitsForMore ==
  ASSUME NEW q \in Parsers, q.partial = << >>, NEW y, NEW b
  PROVE  /\ Ended(Held(q, y)).rest = << >> /\ Cleared(Ended(Held(q, y)).parser) = q
         /\ Waited(Ended(Held(q, y)), b) = y \o b
BY HeldCleared DEF Waited

LEMMA PassOnCut ==
  ASSUME NEW p \in Parsers, p.partial = << >>, NEW d \in Strings, NEW b \in Strings,
         Index(d, StartTag) = 0
  PROVE  /\ PassOn(p, d).rest = << >>
         /\ Cleared(PassOn(p, d).parser) = Shown(p, Clean(d, StartTag))
         /\ Waited(PassOn(p, d), b) = Carry(d, StartTag) \o b
         /\ Index(Carry(d, StartTag) \o b, StartTag) = 0 =>
               PassOn(Shown(p, Clean(d, StartTag)), Carry(d, StartTag) \o b) = PassOn(p, d \o b)
<1> DEFINE c == Clean(d, StartTag)
           y == Carry(d, StartTag)
           u == y \o b
           t == d \o b
           q == Shown(p, c)
<1>1. AlikeBehind(t, StartTag, c, u)
  BY TagsTyped, TagBehindCut
<1>2. PassOn(p, d) = Ended(Held(q, y))
  BY PassOnIs
<1>3. c \in Strings
  BY TagsTyped, CleanAndCarry
<1> HIDE DEF c
<1>4. q \in Parsers /\ q.partial = << >>
  BY <1>3, ShownTyped
<1> HIDE DEF q, t
<1>5. PassOn(p, d).rest = << >> /\ Cleared(PassOn(p, d).parser) = q /\ Waited(PassOn(p, d), b) = u
  <2> HIDE DEF y
  <2>1. /\ Ended(Held(q, y)).rest = << >> /\ Cleared(Ended(Held(q, y)).parser) = q
        /\ Waited(Ended(Held(q, y)), b) = u
    <3> HIDE DEF q
    <3> QED
      BY <1>4, WaitsForMore
  <2> QED
    BY <1>2, <2>1
<1> HIDE DEF u
<1>6. ASSUME Index(u, StartTag) = 0 PROVE PassOn(q, u) = PassOn(p, t)
  <2>1. Clean(t, StartTag) = c \o Clean(u, StartTag) /\ Carry(t, StartTag) = Carry(u, StartTag)
        /\ u \in Strings
    BY <1>1, <1>6 DEF AlikeBehind
  <2>2. Clean(u, StartTag) \in Strings
    BY <2>1, TagsTyped, CleanAndCarry
  <2>3. Shown(q, Clean(u, StartTag)) = Shown(p, c \o Clean(u, StartTag))
    BY <1>3, <2>2, ShownTwice DEF q
  <2>4. PassOn(q, u) = Ended(Held(Shown(q, Clean(u, StartTag)), Carry(u, StartTag)))
    BY <1>4, PassOnIs
  <2>5. PassOn(p, t) = Ended(Held(Shown(p, Clean(t, StartTag)), Carry(t, StartTag)))
    BY PassOnIs
  <2> QED
    BY <2>1, <2>3, <2>4, <2>5
<1> QED
  BY <1>5, <1>6 DEF c, u, t, q, y

LEMMA DropCut ==
  ASSUME NEW p \in Parsers, p.partial = << >>, NEW d \in Strings, NEW b \in Strings,
         NEW s, s = Drop(p, d)
  PROVE  SameTurn(s, b, Drop(p, d \o b), Drop(Cleared(s.parser), Waited(s, b)))
<1> DEFINE t == d \o b
           end == Index(d, EndTag)
           start == Index(d, StartTag)
<1>0. t \in Strings
  BY JoinTyped
<1> HIDE DEF t
<1>1. CASE p.inside /\ end = 0
  <2> DEFINE u == Carry(d, EndTag) \o b
             c == Clean(d, EndTag)
  <2>1. AlikeBehind(t, EndTag, c, u)
    BY <1>1, TagsTyped, TagBehindCut DEF t
  <2>2. s = Ended(Held(p, Carry(d, EndTag)))
    BY <1>1, DropIs
  <2>3. s.rest = << >> /\ Cleared(s.parser) = p /\ Waited(s, b) = u
    <3> DEFINE y == Carry(d, EndTag)
    <3> HIDE DEF y
    <3>1. s = Ended(Held(p, y)) /\ u = y \o b
      BY <2>2 DEF y
    <3> HIDE DEF u
    <3> QED
      BY <3>1, WaitsForMore
  <2> HIDE DEF u, c
  <2>4. u \in Strings
    BY <2>1 DEF AlikeBehind
  <2>5. Drop(p, u) = Drop(p, t)
    <3>1. CASE Index(u, EndTag) = 0
      <4>1. Index(t, EndTag) = 0 /\ Carry(t, EndTag) = Carry(u, EndTag)
        BY <2>1, <3>1 DEF AlikeBehind
      <4> QED
        BY <1>0, <1>1, <2>4, <3>1, <4>1, DropIs
    <3>2. CASE Index(u, EndTag) # 0
      <4>1. Index(t, EndTag) # 0
            /\ From(t, Index(t, EndTag) + Len(EndTag)) = From(u, Index(u, EndTag) + Len(EndTag))
        BY <2>1, <3>2 DEF AlikeBehind
      <4> QED
        BY <1>0, <1>1, <2>4, <3>2, <4>1, DropIs
    <3> QED
      BY <3>1, <3>2
  <2> QED
    BY <2>3, <2>5 DEF SameTurn, t
<1>2. CASE p.inside /\ end # 0
  <2>1. Index(t, EndTag) = end /\ From(t, end + Len(EndTag)) = From(d, end + Len(EndTag)) \o b
    <3>1. AlikeBefore(t, EndTag, d, b)
      BY <1>2, TagsTyped, TagBeforeCut DEF t
    <3> QED
      BY <3>1 DEF AlikeBefore
  <2> DEFINE r == [p EXCEPT !.inside = FALSE]
             rest == From(d, end + Len(EndTag))
  <2>2. s = Turned(r, rest)
    BY <1>2, DropIs
  <2>3. Drop(p, t) = Turned(r, rest \o b)
    BY <1>0, <1>2, <2>1, DropIs
  <2>4. r.partial = << >>
    BY DEF Parsers
  <2> HIDE DEF r, rest
  <2> QED
    BY <2>2, <2>3, <2>4, TurnedParts DEF SameTurn, t
<1>3. CASE ~p.inside /\ start = 0
  <2> DEFINE u == Carry(d, StartTag) \o b
             c == Clean(d, StartTag)
             q == Shown(p, c)
  <2>1. AlikeBehind(t, StartTag, c, u)
    BY <1>3, TagsTyped, TagBehindCut DEF t
  <2>2. s = PassOn(p, d)
    BY <1>3, DropIs
  <2>3. /\ s.rest = << >> /\ Cleared(s.parser) = q /\ Waited(s, b) = u
        /\ Index(u, StartTag) = 0 => PassOn(q, u) = PassOn(p, t)
    BY <1>3, <2>2, PassOnCut DEF t
  <2> HIDE DEF u, c
  <2>4. u \in Strings /\ c \in Strings
    BY <2>1 DEF AlikeBehind
  <2>5. q \in Parsers /\ q.inside = p.inside
    BY <2>4, ShownTyped
  <2> HIDE DEF q
  <2>6. Drop(q, u) = Drop(p, t)
    <3>1. CASE Index(u, StartTag) = 0
      <4>1. Index(t, StartTag) = 0
        BY <2>1, <3>1 DEF AlikeBehind
      <4>2. Drop(q, u) = PassOn(q, u) /\ Drop(p, t) = PassOn(p, t)
        BY <1>0, <1>3, <2>4, <2>5, <3>1, <4>1, DropIs
      <4> QED
        BY <2>3, <3>1, <4>2
    <3>2. CASE Index(u, StartTag) # 0
      <4> DEFINE i == Index(u, StartTag)
                 l == Index(t, StartTag)
                 f == SubSeq(u, 1, i - 1)
                 tag == From(u, i)
      <4>1. l # 0 /\ SubSeq(t, 1, l - 1) = c \o f /\ From(t, l) = tag
        BY <2>1, <3>2 DEF AlikeBehind
      <4>2. f \in Strings
        BY <2>4, <3>2, TagsTyped, AroundTag
      <4>3. Drop(q, u) = DropTag(q, f, tag)
        BY <1>3, <2>4, <2>5, <3>2, DropIs
      <4>4. Drop(p, t) = DropTag(p, c \o f, tag)
        <5> HIDE DEF f, tag
        <5> QED
          BY <1>0, <1>3, <4>1, DropIs
      <4> HIDE DEF f, tag
      <4>5. Shown(q, f) = Shown(p, c \o f)
        BY <2>4, <4>2, ShownTwice DEF q
      <4> QED
        BY <4>3, <4>4, <4>5 DEF DropTag
    <3> QED
      BY <3>1, <3>2
  <2> QED
    BY <2>3, <2>6 DEF SameTurn, t
<1>4. CASE ~p.inside /\ start # 0
  <2> DEFINE tag == From(d, start)
             f == SubSeq(d, 1, start - 1)
             q == Shown(p, f)
             u == tag \o b
             close == Index(tag, <<">">>)
  <2>1. Index(t, StartTag) = start /\ SubSeq(t, 1, start - 1) = f /\ From(t, start) = u
    <3>1. AlikeBefore(t, StartTag, d, b)
      BY <1>4, TagsTyped, TagBeforeCut DEF t
    <3> QED
      BY <3>1 DEF AlikeBefore
  <2>2. f \in Strings /\ tag \in Strings /\ u \in Strings
    BY <1>4, TagsTyped, AroundTag, JoinTyped
  <2>3. s = DropTag(p, f, tag)
    BY <1>4, DropIs
  <2>4. Drop(p, t) = DropTag(p, f, u)
    BY <1>0, <1>4, <2>1, DropIs
  <2>5. u \in Strings /\ Index(u, StartTag) = 1 /\ From(u, 1) = u /\ SubSeq(u, 1, 0) = << >>
    BY <1>4, TagsTyped, TagFirst DEF BeginsWith
  <2> HIDE DEF f, tag
  <2>6. q \in Parsers /\ q.inside = p.inside /\ q.partial = << >>
    BY <2>2, ShownTyped
  <2>7. CASE close = 0
    <3>1. s = Ended(Held(q, tag))
      BY <2>3, <2>7 DEF DropTag
    <3> HIDE DEF q
    <3>2. s.rest = << >> /\ Cleared(s.parser) = q /\ Waited(s, b) = u
      BY <2>6, <3>1, WaitsForMore
    <3> HIDE DEF u
    <3>3. Drop(q, u) = DropTag(q, << >>, u)
      <4>1. 1 - 1 = 0 /\ 1 # 0
        OBVIOUS
      <4>2. Drop(q, u) = DropTag(q, SubSeq(u, 1, 1 - 1), From(u, 1))
        BY <1>4, <2>5, <2>6, <4>1, DropIs
      <4> QED
        BY <2>5, <4>1, <4>2
    <3>4. Shown(q, << >>) = Shown(p, f)
      BY <2>6, ShownNone DEF q
    <3>5. Drop(q, u) = Drop(p, t)
      BY <2>4, <3>3, <3>4 DEF DropTag
    <3> QED
      BY <3>2, <3>5 DEF SameTurn, t
  <2>8. CASE close # 0
    <3> DEFINE r == [q EXCEPT !.inside = ~IsSuffix(<<"/", ">">>, SubSeq(tag, 1, close))]
               rest == From(tag, close + 1)
    <3>1. s = Turned(r, rest)
      BY <2>3, <2>8 DEF DropTag
    <3>2. Index(u, <<">">>) = close /\ SubSeq(u, 1, close) = SubSeq(tag, 1, close)
          /\ From(u, close + 1) = rest \o b
      <4> DEFINE gt == <<">">>
                 i == Index(tag, gt)
      <4>1. gt \in Tags /\ Len(gt) = 1 /\ i # 0
        BY <2>8, TagsTyped
      <4> HIDE DEF gt
      <4>2. Index(tag \o b, gt) = i /\ SubSeq(tag \o b, 1, i) = SubSeq(tag, 1, i)
            /\ From(tag \o b, i + Len(gt)) = From(tag, i + Len(gt)) \o b
        <5>1. AlikeBefore(tag \o b, gt, tag, b)
          BY <2>2, <4>1, TagBeforeCut
        <5> QED
          BY <5>1 DEF AlikeBefore
      <4>3. From(tag \o b, i + 1) = From(tag, i + 1) \o b
        BY <4>1, <4>2
      <4> QED
        BY <4>2, <4>3 DEF gt
    <3>3. Drop(p, t) = Turned(r, rest \o b)
      <4> HIDE DEF u, close, rest
      <4> QED
        BY <2>4, <2>8, <3>2 DEF DropTag
    <3>4. r.partial = << >>
      <4> HIDE DEF q
      <4> QED
        BY <2>6 DEF Parsers
    <3> HIDE DEF r, rest
    <3> QED
      BY <3>1, <3>3, <3>4, TurnedParts DEF SameTurn, t
  <2> QED
    BY <2>7, <2>8
<1> QED
  BY <1>1, <1>2, <1>3, <1>4 DEF Parsers

\* A block that grows.
Kept(p, more) == [p EXCEPT !.buffer = @ \o more]

LEMMA KeptTyped ==
  ASSUME NEW p \in Parsers, NEW c \in Strings
  PROVE  /\ Kept(p, c) \in Parsers
         /\ Kept(p, c).inside = p.inside /\ Kept(p, c).partial = p.partial
         /\ Kept(p, c).buffer = p.buffer \o c
BY JoinTyped DEF Kept, Parsers

LEMMA KeptTwice ==
  ASSUME NEW p \in Parsers, NEW c \in Strings, NEW d \in Strings
  PROVE  /\ Kept(Kept(p, c), d) = Kept(p, c \o d)
         /\ (p.buffer \o c) \o d = p.buffer \o (c \o d)
<1> DEFINE x == p.buffer
<1>1. x \in Strings
  BY DEF Parsers
<1>2. (x \o c) \o d = x \o (c \o d)
  <2> HIDE DEF x
  <2> QED
    BY <1>1, JoinAssociates
<1> QED
  BY <1>2 DEF Kept, Parsers

LEMMA ToolContentIs ==
  ASSUME NEW p \in Parsers, NEW d
  PROVE  ToolContent(p, d) = Held(Kept(p, Clean(d, EndTag)), Carry(d, EndTag))
BY DEF ToolContent, Held, Kept, Parsers

\* The call that is made of a parser and of the same one with a longer block.
LEMMA ToolCallOfKept ==
  ASSUME NEW p \in Parsers, NEW c, NEW raw, NEW rest
  PROVE  ToolCall(Kept(p, c), raw, rest) = ToolCall(p, raw, rest)
BY DEF ToolCall, Kept, Parsers

LEMMA ToolCallParts ==
  ASSUME NEW p \in Parsers, NEW raw, NEW rest
  PROVE  /\ ToolCall(p, raw, rest).rest = rest
         /\ ToolCall(p, raw, rest).parser.partial = p.partial
         /\ \A more : ToolCall(p, raw, more) = Turned(ToolCall(p, raw, rest).parser, more)
<1> DEFINE q == [p EXCEPT !.inside = FALSE, !.buffer = << >>,
                          !.calls = IF IsCall(raw) THEN Append(@, raw) ELSE @,
                          !.out = IF IsCall(raw) \/ raw = << >> THEN @
                                  ELSE @ \o StartTag \o raw \o EndTag]
<1>1. \A more : ToolCall(p, raw, more) = Turned(q, more)
  BY DEF ToolCall
<1>2. q.partial = p.partial
  BY DEF Parsers
<1> HIDE DEF q
<1> QED
  BY <1>1, <1>2, TurnedParts

LEMMA ToolCut ==
  ASSUME NEW p \in Parsers, p.partial = << >>, NEW d \in Strings, NEW b \in Strings,
         NEW s, s = Tool(p, d)
  PROVE  SameTurn(s, b, Tool(p, d \o b), Tool(Cleared(s.parser), Waited(s, b)))
<1> DEFINE t == d \o b
           end == Index(d, EndTag)
           start == Index(d, StartTag)
<1>0. t \in Strings
  BY JoinTyped
<1> HIDE DEF t
<1>1. CASE p.inside /\ end = 0
  <2> DEFINE y == Carry(d, EndTag)
             u == y \o b
             c == Clean(d, EndTag)
             q == Kept(p, c)
  <2>1. AlikeBehind(t, EndTag, c, u)
    BY <1>1, TagsTyped, TagBehindCut DEF t
  <2>2. s = Ended(Held(q, y))
    BY <1>1, ToolIs, ToolContentIs
  <2> HIDE DEF y, c
  <2>3. u \in Strings /\ c \in Strings
    BY <2>1 DEF AlikeBehind
  <2>4. q \in Parsers /\ q.inside = p.inside /\ q.partial = << >> /\ q.buffer = p.buffer \o c
    BY <2>3, KeptTyped
  <2>5. s.rest = << >> /\ Cleared(s.parser) = q /\ Waited(s, b) = u
    <3> HIDE DEF q
    <3> QED
      BY <2>2, <2>4, WaitsForMore
  <2> HIDE DEF u
  <2>6. Tool(q, u) = Tool(p, t)
    <3>1. CASE Index(u, EndTag) = 0
      <4>1. Index(t, EndTag) = 0 /\ Carry(t, EndTag) = Carry(u, EndTag)
            /\ Clean(t, EndTag) = c \o Clean(u, EndTag)
        BY <2>1, <3>1 DEF AlikeBehind
      <4>2. Clean(u, EndTag) \in Strings
        BY <2>3, TagsTyped, CleanAndCarry
      <4>3. Kept(q, Clean(u, EndTag)) = Kept(p, Clean(t, EndTag))
        <5> DEFINE z == Clean(u, EndTag)
        <5> HIDE DEF z
        <5>1. Kept(Kept(p, c), z) = Kept(p, c \o z)
          BY <2>3, <4>2, KeptTwice DEF z
        <5> QED
          BY <4>1, <5>1 DEF z
      <4>4. ToolContent(q, u) = ToolContent(p, t)
        <5>1. ToolContent(q, u) = Held(Kept(q, Clean(u, EndTag)), Carry(u, EndTag))
          <6> HIDE DEF q
          <6> QED
            BY <2>4, ToolContentIs
        <5>2. ToolContent(p, t) = Held(Kept(p, Clean(t, EndTag)), Carry(t, EndTag))
          BY ToolContentIs
        <5> QED
          BY <4>1, <4>3, <5>1, <5>2
      <4>5. Tool(p, t) = Ended(ToolContent(p, t))
        BY <1>0, <1>1, <4>1, ToolIs
      <4> HIDE DEF q
      <4>6. Tool(q, u) = Ended(ToolContent(q, u))
        BY <1>1, <2>3, <2>4, <3>1, ToolIs
      <4> QED
        BY <4>4, <4>5, <4>6
    <3>2. CASE Index(u, EndTag) # 0
      <4> DEFINE i == Index(u, EndTag)
                 l == Index(t, EndTag)
                 f == SubSeq(u, 1, i - 1)
                 rest == From(u, i + Len(EndTag))
      <4>1. l # 0 /\ From(t, l + Len(EndTag)) = rest /\ SubSeq(t, 1, l - 1) = c \o f
        BY <2>1, <3>2 DEF AlikeBehind
      <4>2. f \in Strings
        BY <2>3, <3>2, TagsTyped, AroundTag
      <4>3. Tool(p, t) = ToolCall(p, p.buffer \o (c \o f), rest)
        <5> HIDE DEF f, rest
        <5> QED
          BY <1>0, <1>1, <4>1, ToolIs
      <4>4. Tool(q, u) = ToolCall(q, (p.buffer \o c) \o f, rest)
        <5> HIDE DEF q
        <5>1. Tool(q, u) = ToolCall(q, q.buffer \o f, rest)
          BY <1>1, <2>3, <2>4, <3>2, ToolIs
        <5> QED
          BY <2>4, <5>1
      <4> HIDE DEF f, rest
      <4>5. (p.buffer \o c) \o f = p.buffer \o (c \o f)
        BY <2>3, <4>2, KeptTwice
      <4>6. ToolCall(q, p.buffer \o (c \o f), rest) = ToolCall(p, p.buffer \o (c \o f), rest)
        BY ToolCallOfKept
      <4> QED
        BY <4>3, <4>4, <4>5, <4>6
    <3> QED
      BY <3>1, <3>2
  <2> QED
    BY <2>5, <2>6 DEF SameTurn, t
<1>2. CASE p.inside /\ end # 0
  <2> DEFINE f == SubSeq(d, 1, end - 1)
             raw == p.buffer \o f
             rest == From(d, end + Len(EndTag))
  <2>1. Index(t, EndTag) = end /\ From(t, end + Len(EndTag)) = rest \o b
        /\ SubSeq(t, 1, end - 1) = f
    <3>1. AlikeBefore(t, EndTag, d, b)
      BY <1>2, TagsTyped, TagBeforeCut DEF t
    <3> QED
      BY <3>1 DEF AlikeBefore
  <2>2. s = ToolCall(p, raw, rest)
    BY <1>2, ToolIs
  <2> HIDE DEF rest
  <2>3. Tool(p, t) = ToolCall(p, raw, rest \o b)
    BY <1>0, <1>2, <2>1, ToolIs
  <2> HIDE DEF raw
  <2> QED
    BY <2>2, <2>3, ToolCallParts DEF SameTurn, t
<1>3. CASE ~p.inside /\ start = 0
  <2> DEFINE u == Carry(d, StartTag) \o b
             c == Clean(d, StartTag)
             q == Shown(p, c)
  <2>1. AlikeBehind(t, StartTag, c, u)
    BY <1>3, TagsTyped, TagBehindCut DEF t
  <2>2. s = PassOn(p, d)
    BY <1>3, ToolIs
  <2>3. /\ s.rest = << >> /\ Cleared(s.parser) = q /\ Waited(s, b) = u
        /\ Index(u, StartTag) = 0 => PassOn(q, u) = PassOn(p, t)
    BY <1>3, <2>2, PassOnCut DEF t
  <2> HIDE DEF u, c
  <2>4. u \in Strings /\ c \in Strings
    BY <2>1 DEF AlikeBehind
  <2>5. q \in Parsers /\ q.inside = p.inside
    BY <2>4, ShownTyped
  <2> HIDE DEF q
  <2>6. Tool(q, u) = Tool(p, t)
    <3>1. CASE Index(u, StartTag) = 0
      <4>1. Index(t, StartTag) = 0
        BY <2>1, <3>1 DEF AlikeBehind
      <4>2. Tool(q, u) = PassOn(q, u) /\ Tool(p, t) = PassOn(p, t)
        BY <1>0, <1>3, <2>4, <2>5, <3>1, <4>1, ToolIs
      <4> QED
        BY <2>3, <3>1, <4>2
    <3>2. CASE Index(u, StartTag) # 0
      <4> DEFINE i == Index(u, StartTag)
                 l == Index(t, StartTag)
                 f == SubSeq(u, 1, i - 1)
                 rest == From(u, i + Len(StartTag))
      <4>1. l # 0 /\ SubSeq(t, 1, l - 1) = c \o f /\ From(t, l + Len(StartTag)) = rest
        BY <2>1, <3>2 DEF AlikeBehind
      <4>2. f \in Strings
        BY <2>4, <3>2, TagsTyped, AroundTag
      <4>3. Tool(q, u) = Turned([Shown(q, f) EXCEPT !.inside = TRUE], rest)
        BY <1>3, <2>4, <2>5, <3>2, ToolIs
      <4>4. Tool(p, t) = Turned([Shown(p, c \o f) EXCEPT !.inside = TRUE], rest)
        <5> HIDE DEF f, rest
        <5> QED
          BY <1>0, <1>3, <4>1, ToolIs
      <4> HIDE DEF f, rest
      <4>5. Shown(q, f) = Shown(p, c \o f)
        BY <2>4, <4>2, ShownTwice DEF q
      <4> QED
        BY <4>3, <4>4, <4>5
    <3> QED
      BY <3>1, <3>2
  <2> QED
    BY <2>3, <2>6 DEF SameTurn, t
<1>4. CASE ~p.inside /\ start # 0
  <2> DEFINE f == SubSeq(d, 1, start - 1)
             r == [Shown(p, f) EXCEPT !.inside = TRUE]
             rest == From(d, start + Len(StartTag))
  <2>1. Index(t, StartTag) = start /\ From(t, start + Len(StartTag)) = rest \o b
        /\ SubSeq(t, 1, start - 1) = f
    <3>1. AlikeBefore(t, StartTag, d, b)
      BY <1>4, TagsTyped, TagBeforeCut DEF t
    <3> QED
      BY <3>1 DEF AlikeBefore
  <2>2. s = Turned(r, rest)
    BY <1>4, ToolIs
  <2> HIDE DEF rest
  <2>3. Tool(p, t) = Turned(r, rest \o b)
    BY <1>0, <1>4, <2>1, ToolIs
  <2>4. r.partial = << >>
    <3>1. f \in Strings
      BY <1>4, TagsTyped, AroundTag
    <3> HIDE DEF f
    <3>2. Shown(p, f) \in Parsers /\ Shown(p, f).partial = << >>
      BY <3>1, ShownTyped
    <3> QED
      BY <3>2 DEF Parsers
  <2> HIDE DEF r
  <2> QED
    BY <2>2, <2>3, <2>4, TurnedParts DEF SameTurn, t
<1> QED
  BY <1>1, <1>2, <1>3, <1>4 DEF Parsers

-----------------------------------------------------------------------------
(* Feeding a parser. *)

LEMMA FeedIs ==
  ASSUME NEW k, NEW p, NEW b
  PROVE  Feed(k, p, b) = Final(k, Cleared(p), p.partial \o b)
BY DEF Feed, Final, Cleared

LEMMA ClearedTyped ==
  ASSUME NEW p \in Parsers
  PROVE  /\ Cleared(p) \in Parsers /\ Cleared(p).partial = << >> /\ p.partial \in Strings
         /\ p.partial = << >> => Cleared(p) = p
BY TagsTyped DEF Cleared, Parsers

LEMMA FeedTyped ==
  ASSUME NEW k \in ParserKinds, NEW p \in Parsers, NEW b \in Strings
  PROVE  Feed(k, p, b) \in Parsers
BY FeedIs, ClearedTyped, JoinTyped, FinalTyped

\* A turn of Turn is one of the parser's operator.
LEMMA TurnCut ==
  ASSUME NEW k \in {"drop", "tool"}, NEW p \in Parsers, p.partial = << >>,
         NEW d \in Strings, d # << >>, NEW b \in Strings,
         NEW s, s = Turn(k, Turned(p, d))
  PROVE  \/ /\ s.parser.partial = << >>
            /\ Turn(k, Turned(p, d \o b)) = Turned(s.parser, s.rest \o b)
         \/ /\ s.rest = << >>
            /\ Waited(s, b) # << >> =>
                  Turn(k, Turned(Cleared(s.parser), Waited(s, b))) = Turn(k, Turned(p, d \o b))
<1>1. d \o b # << >>
  BY ConcatEqualIffEmpty DEF Strings
<1> DEFINE t == d \o b
           w == Waited(s, b)
           q == Cleared(s.parser)
<1> HIDE DEF t, w, q
<1>2. CASE k = "drop"
  <2>1. s = Drop(p, d) /\ Turn(k, Turned(p, t)) = Drop(p, t)
        /\ (w # << >> => Turn(k, Turned(q, w)) = Drop(q, w))
    BY <1>1, <1>2, TurnedParts DEF Turn, t
  <2>2. SameTurn(s, b, Drop(p, t), Drop(q, w))
    BY <2>1, DropCut DEF t, w, q
  <2> QED
    BY <2>1, <2>2 DEF SameTurn, t, w, q
<1>3. CASE k = "tool"
  <2>1. s = Tool(p, d) /\ Turn(k, Turned(p, t)) = Tool(p, t)
        /\ (w # << >> => Turn(k, Turned(q, w)) = Tool(q, w))
    BY <1>1, <1>3, TurnedParts DEF Turn, t
  <2>2. SameTurn(s, b, Tool(p, t), Tool(q, w))
    BY <2>1, ToolCut DEF t, w, q
  <2> QED
    BY <2>1, <2>2 DEF SameTurn, t, w, q
<1> QED
  BY <1>2, <1>3

\* The loop on a text and one on what follows do what one loop on both does.
LEMMA FinalCut ==
  ASSUME NEW k \in {"drop", "tool"}, NEW b \in Strings
  PROVE  \A d \in Strings : \A p \in Parsers : p.partial = << >> =>
            Feed(k, Final(k, p, d), b) = Final(k, p, d \o b)
<1> DEFINE Same(d) == \A p \in Parsers : p.partial = << >> =>
                         Feed(k, Final(k, p, d), b) = Final(k, p, d \o b)
           A == {n \in Nat : \A d \in Strings : Len(d) <= n => Same(d)}
<1>0. k \in ParserKinds
  BY DEF ParserKinds
<1>1. Same(<< >>)
  <2> SUFFICES ASSUME NEW p \in Parsers, p.partial = << >>
               PROVE  Feed(k, Final(k, p, << >>), b) = Final(k, p, << >> \o b)
    OBVIOUS
  <2>1. Final(k, p, << >>) = p
    BY <1>0, FinalOfNone
  <2>2. Feed(k, p, b) = Final(k, Cleared(p), p.partial \o b)
    BY FeedIs
  <2> QED
    BY <2>1, <2>2, ClearedTyped
<1>2. 0 \in A
  <2>1. ASSUME NEW d \in Strings, Len(d) <= 0 PROVE d = << >>
    BY <2>1, LenTyped
  <2> HIDE DEF Same
  <2> QED
    BY <1>1, <2>1
<1>3. ASSUME NEW n \in Nat, n \in A PROVE n + 1 \in A
  <2> SUFFICES ASSUME NEW d \in Strings, Len(d) <= n + 1 PROVE Same(d)
    <3>1. n + 1 \in Nat
      OBVIOUS
    <3> HIDE DEF Same
    <3> QED
      BY <3>1
  <2> SUFFICES ASSUME d # << >> PROVE Same(d)
    <3> HIDE DEF Same
    <3> QED
      BY <1>1
  <2> SUFFICES ASSUME NEW p \in Parsers, p.partial = << >>
               PROVE  Feed(k, Final(k, p, d), b) = Final(k, p, d \o b)
    OBVIOUS
  <2> DEFINE s == Turn(k, Turned(p, d))
             t == d \o b
  <2>1. t \in Strings /\ t # << >>
    BY JoinTyped, ConcatEqualIffEmpty DEF Strings
  <2> HIDE DEF s, t
  <2>2. s \in Loops /\ Len(s.rest) < Len(d) /\ Final(k, p, d) = Final(k, s.parser, s.rest)
    BY <1>0, FinalTurn DEF s
  <2>3. s.parser \in Parsers /\ s.rest \in Strings
    BY <2>2 DEF Loops
  <2>4. Final(k, p, t) = Final(k, Turn(k, Turned(p, t)).parser, Turn(k, Turned(p, t)).rest)
    BY <1>0, <2>1, FinalTurn
  <2>5. CASE /\ s.parser.partial = << >>
             /\ Turn(k, Turned(p, t)) = Turned(s.parser, s.rest \o b)
    <3>1. Len(s.rest) <= n
      <4>1. Len(s.rest) \in Nat /\ Len(d) \in Nat
        BY <2>3, LenTyped
      <4> QED
        BY <2>2, <4>1
    <3>2. Same(s.rest)
      <4> HIDE DEF Same
      <4> QED
        BY <1>3, <2>3, <3>1
    <3>3. Feed(k, Final(k, s.parser, s.rest), b) = Final(k, s.parser, s.rest \o b)
      BY <2>3, <2>5, <3>2
    <3> QED
      BY <2>2, <2>4, <2>5, <3>3, TurnedParts DEF t
  <2>6. CASE /\ s.rest = << >>
             /\ Waited(s, b) # << >> =>
                   Turn(k, Turned(Cleared(s.parser), Waited(s, b))) = Turn(k, Turned(p, t))
    <3> DEFINE q == s.parser
               w == Waited(s, b)
    <3>1. Final(k, p, d) = q
      BY <1>0, <2>2, <2>3, <2>6, FinalOfNone
    <3>2. Feed(k, q, b) = Final(k, Cleared(q), w)
      BY FeedIs DEF Waited
    <3>3. Cleared(q) \in Parsers /\ w \in Strings
      BY <2>3, ClearedTyped, JoinTyped DEF Waited
    <3>4. CASE w # << >>
      <4>1. Final(k, Cleared(q), w)
            = Final(k, Turn(k, Turned(Cleared(q), w)).parser, Turn(k, Turned(Cleared(q), w)).rest)
        <5> HIDE DEF w, q
        <5> QED
          BY <1>0, <3>3, <3>4, FinalTurn
      <4> QED
        BY <2>4, <2>6, <3>1, <3>2, <3>4, <4>1 DEF t
    <3>5. CASE w = << >>
      <4>1. q.partial = << >> /\ b = << >>
        BY <2>3, <3>5, ClearedTyped, ConcatEqualIffEmpty DEF Waited, Strings
      <4>2. t = d
        BY <4>1, ConcatEmptySeq DEF t, Strings
      <4>3. Final(k, Cleared(q), w) = q
        <5>1. Cleared(q) = q
          BY <2>3, <4>1, ClearedTyped
        <5> HIDE DEF w, q
        <5> QED
          BY <1>0, <3>3, <3>5, <5>1, FinalOfNone
      <4> QED
        BY <3>1, <3>2, <4>2, <4>3 DEF t
    <3> QED
      BY <3>4, <3>5
  <2>7. \/ /\ s.parser.partial = << >>
           /\ Turn(k, Turned(p, t)) = Turned(s.parser, s.rest \o b)
        \/ /\ s.rest = << >>
           /\ Waited(s, b) # << >> =>
                 Turn(k, Turned(Cleared(s.parser), Waited(s, b))) = Turn(k, Turned(p, t))
    BY TurnCut DEF s, t
  <2> QED
    BY <2>5, <2>6, <2>7
<1>4. Nat \subseteq A
  <2> HIDE DEF A
  <2> QED
    BY <1>2, <1>3, NatInductionOf
<1>5. ASSUME NEW d \in Strings PROVE Same(d)
  <2>1. Len(d) \in Nat /\ Len(d) <= Len(d)
    BY LenTyped
  <2> HIDE DEF Same
  <2> QED
    BY <1>4, <2>1
<1> QED
  BY <1>5

-----------------------------------------------------------------------------
(* The invariant, and the first theorem. *)
Writers == [parser : Parsers, open : BOOLEAN, out : Strings, calls : Seq(Strings)]

TextTyped ==
    /\ kind \in Kinds /\ kind \in ParserKinds /\ text \in Strings
    /\ toolsOn \in BOOLEAN /\ rewrites \in BOOLEAN
    /\ pos \in 0..(Len(text) + 1) /\ (kind # "answer" => pos <= Len(text))
    /\ parser \in Parsers /\ streamed \in Writers /\ blocking \in Writers

\* The parser is where one piece of all that has arrived takes it.
Uncuts == kind \in {"drop", "tool"} => parser = Feed(kind, Parser, SubSeq(text, 1, pos))

\* Both adapters have said the same so far, up to links and images.
PlainParser(p) ==
    [inside |-> p.inside, partial |-> Plain(p.partial), buffer |-> Plain(p.buffer),
     out |-> Plain(p.out), calls |-> PlainCalls(p.calls)]
SameAdapter(w, v) ==
    /\ PlainParser(w.parser) = PlainParser(v.parser) /\ w.open = v.open
    /\ Plain(w.out) = Plain(v.out) /\ PlainCalls(w.calls) = PlainCalls(v.calls)
Alike == SameAdapter(streamed, blocking)

TextInv == TextTyped /\ Uncuts /\ Alike

LEMMA ParserTyped ==
  Parser \in Parsers /\ Parser.partial = << >> /\ Writer \in Writers
<1>1. << >> \in Strings /\ << >> \in Seq(Strings)
  BY TagsTyped, EmptySeq
<1>2. Parser \in Parsers /\ Parser.partial = << >>
  BY <1>1 DEF Parser, Parsers
<1> QED
  BY <1>1, <1>2 DEF Writer, Writers

LEMMA FeedOfParser ==
  ASSUME NEW k \in ParserKinds, NEW d \in Strings
  PROVE  Feed(k, Parser, d) = Final(k, Parser, d)
<1>1. << >> \o d = d
  BY ConcatEmptySeq DEF Strings
<1> QED
  BY <1>1, FeedIs, ClearedTyped, ParserTyped

\* A text that is cut in two is fed as if it was not.
LEMMA FeedCut ==
  ASSUME NEW k \in {"drop", "tool"}, NEW d \in Strings, NEW b \in Strings
  PROVE  Feed(k, Feed(k, Parser, d), b) = Feed(k, Parser, d \o b)
<1>1. Feed(k, Final(k, Parser, d), b) = Final(k, Parser, d \o b)
  BY ParserTyped, FinalCut
<1>2. k \in ParserKinds /\ d \o b \in Strings
  BY JoinTyped DEF ParserKinds
<1> QED
  BY <1>1, <1>2, FeedOfParser

\* Consume and Push return at once when a piece is empty: looking again at what
\* waits changes nothing.
LEMMA EmptyPieceFeedsNothing ==
  ASSUME NEW k \in {"drop", "tool"}, NEW d \in Strings
  PROVE  Feed(k, Feed(k, Parser, d), << >>) = Feed(k, Parser, d)
<1>1. << >> \in Strings
  BY TagsTyped
<1>2. d \o << >> = d
  BY ConcatEmptySeq DEF Strings
<1>3. Feed(k, Feed(k, Parser, d), << >>) = Feed(k, Parser, d \o << >>)
  BY <1>1, FeedCut
<1> QED
  BY <1>2, <1>3

\* formatToolCallsAsText makes a text of the calls.
LEMMA FlattenTyped ==
  ASSUME NEW seqs \in Seq(Strings)
  PROVE  FlattenSeq(seqs) \in Strings
<1> DEFINE n == Len(seqs)
           Is(h) == h = [i \in 1..n |-> IF i = 1 THEN seqs[i] ELSE h[i - 1] \o seqs[i]]
           flatten == CHOOSE h : Is(h)
<1>1. n \in Nat /\ (n = 0 <=> seqs = << >>) /\ \A i \in 1..n : seqs[i] \in Strings
  BY EmptySeq, LenProperties, ElementOfSeq
<1>2. CASE n = 0
  BY <1>1, <1>2, TagsTyped DEF FlattenSeq
<1>3. CASE n # 0
  <2> DEFINE Upto(m, h) == /\ h = [i \in 1..m |-> h[i]]
                           /\ \A i \in 1..m : h[i] = IF i = 1 THEN seqs[i] ELSE h[i - 1] \o seqs[i]
             A == {m \in Nat : \E h : Upto(m + 1, h)}
  <2>1. 0 \in A
    <3> DEFINE h == [i \in 1..1 |-> seqs[i]]
    <3>1. Upto(1, h)
      OBVIOUS
    <3>2. 0 + 1 = 1
      OBVIOUS
    <3> HIDE DEF h, Upto
    <3> QED
      BY <3>1, <3>2
  <2>2. ASSUME NEW m \in Nat, m \in A PROVE m + 1 \in A
    <3> DEFINE l == m + 1
               k == l + 1
    <3>1. PICK h : Upto(l, h)
      <4> HIDE DEF Upto
      <4> QED
        BY <2>2
    <3>2. l \in Nat /\ l # 0 /\ k \in Nat /\ k = l + 1
      OBVIOUS
    <3> HIDE DEF l, k
    <3> DEFINE e == [i \in 1..k |-> IF i = k THEN h[l] \o seqs[i] ELSE h[i]]
    <3>3. e = [i \in 1..k |-> e[i]]
      OBVIOUS
    <3>4. ASSUME NEW i \in 1..k PROVE e[i] = IF i = 1 THEN seqs[i] ELSE e[i - 1] \o seqs[i]
      <4>1. CASE i = k
        <5>1. i # 1 /\ i - 1 = l /\ l \in 1..k /\ l # k
          BY <3>2, <4>1
        <5>2. e[l] = h[l] /\ e[i] = h[l] \o seqs[i]
          BY <4>1, <5>1
        <5> QED
          BY <5>1, <5>2
      <4>2. CASE i # k
        <5>1. i \in 1..l
          BY <3>2, <4>2
        <5>2. e[i] = h[i] /\ h[i] = IF i = 1 THEN seqs[i] ELSE h[i - 1] \o seqs[i]
          BY <3>1, <4>2, <5>1
        <5>3. i # 1 => i - 1 \in 1..k /\ i - 1 # k
          BY <3>2, <5>1
        <5>4. i # 1 => e[i - 1] = h[i - 1]
          BY <5>3
        <5> QED
          BY <5>2, <5>4
      <4> QED
        BY <4>1, <4>2
    <3>5. Upto(k, e)
      <4> HIDE DEF e
      <4> QED
        BY <3>3, <3>4
    <3> HIDE DEF Upto, e
    <3>6. \E x : Upto((m + 1) + 1, x)
      BY <3>5 DEF l, k
    <3> QED
      BY <3>6
  <2>3. Nat \subseteq A
    <3> HIDE DEF A
    <3> QED
      BY <2>1, <2>2, NatInductionOf
  <2>4. n - 1 \in Nat /\ (n - 1) + 1 = n
    BY <1>1, <1>3
  <2>5. \E h : Upto(n, h)
    <3>1. n - 1 \in A
      BY <2>3, <2>4
    <3>2. \E h : Upto((n - 1) + 1, h)
      <4> HIDE DEF Upto
      <4> QED
        BY <3>1
    <3> HIDE DEF Upto
    <3> QED
      BY <2>4, <3>2
  <2>6. PICK f : Is(f)
    <3>1. PICK h : Upto(n, h)
      BY <2>5
    <3> HIDE DEF n
    <3>2. Is(h)
      BY <3>1
    <3> QED
      BY <3>2
  <2>9. Is(flatten)
    <3> HIDE DEF Is
    <3> QED
      BY <2>6
  <2>10. FlattenSeq(seqs) = flatten[n]
    BY <1>3 DEF FlattenSeq
  <2> HIDE DEF flatten
  <2> DEFINE B == {i \in Nat : i + 1 \in 1..n => flatten[i + 1] \in Strings}
  <2>11. 0 \in B
    BY <1>1, <2>9
  <2>12. ASSUME NEW i \in Nat, i \in B PROVE i + 1 \in B
    <3> SUFFICES ASSUME (i + 1) + 1 \in 1..n PROVE flatten[(i + 1) + 1] \in Strings
      OBVIOUS
    <3> DEFINE m == (i + 1) + 1
    <3>1. i + 1 \in 1..n /\ m \in 1..n /\ m # 1 /\ m - 1 = i + 1
      BY <1>1
    <3>2. flatten[i + 1] \in Strings
      BY <2>12, <3>1
    <3> HIDE DEF m
    <3>3. flatten[m] = flatten[i + 1] \o seqs[m]
      BY <2>9, <3>1
    <3>4. flatten[m] \in Strings
      BY <1>1, <3>1, <3>2, <3>3, JoinTyped
    <3> QED
      BY <3>4 DEF m
  <2>13. Nat \subseteq B
    <3> HIDE DEF B
    <3> QED
      BY <2>11, <2>12, NatInductionOf
  <2>14. n - 1 \in Nat /\ (n - 1) + 1 = n /\ n \in 1..n
    BY <1>1, <1>3
  <2>15. flatten[n] \in Strings
    <3>1. n - 1 \in B
      BY <2>13, <2>14
    <3> QED
      BY <2>14, <3>1
  <2> QED
    BY <2>10, <2>15
<1> QED
  BY <1>2, <1>3

LEMMA CallsAsTextTyped ==
  ASSUME NEW calls \in Seq(Strings)
  PROVE  CallsAsText(calls) \in Strings
<1> DEFINE seqs == [i \in DOMAIN calls |-> StartTag \o calls[i] \o EndTag]
<1>1. Len(calls) \in Nat /\ DOMAIN calls = 1..Len(calls) /\ \A i \in 1..Len(calls) : calls[i] \in Strings
  BY LenProperties, ElementOfSeq
<1>2. \A i \in 1..Len(calls) : StartTag \o calls[i] \o EndTag \in Strings
  BY <1>1, TagsTyped, JoinTyped
<1>3. seqs \in Seq(Strings)
  BY <1>1, <1>2
<1> HIDE DEF seqs
<1>4. FlattenSeq(seqs) \in Strings
  BY <1>3, FlattenTyped
<1> QED
  BY <1>4 DEF CallsAsText, seqs

LEMMA PushTyped ==
  ASSUME NEW p \in Parsers, NEW chunk \in Strings
  PROVE  Fresh(p) \in Parsers /\ Push(p, chunk) \in Parsers
<1>1. Fresh(p) \in Parsers
  BY TagsTyped, EmptySeq DEF Fresh, Parsers
<1>2. "tool" \in ParserKinds
  BY DEF ParserKinds
<1> QED
  BY <1>1, <1>2, FeedTyped DEF Push

LEMMA ToolFlushTyped ==
  ASSUME NEW p \in Parsers
  PROVE  ToolFlush(p) \in Parsers
<1> DEFINE raw == p.buffer \o p.partial
<1>1. raw \in Strings /\ p.out \in Strings /\ p.partial \in Strings /\ p.calls \in Seq(Strings)
      /\ p.inside \in BOOLEAN
  BY JoinTyped DEF Parsers
<1> HIDE DEF raw
<1>2. p.out \o p.partial \in Strings /\ (p.out \o StartTag) \o raw \in Strings
  BY <1>1, TagsTyped, JoinTyped
<1>3. Append(p.calls, raw) \in Seq(Strings)
  BY <1>1, AppendProperties
<1> DEFINE c == IF p.inside /\ IsCall(raw) THEN Append(p.calls, raw) ELSE p.calls
           o == CASE ~p.inside -> p.out \o p.partial
                  [] p.inside /\ (raw = << >> \/ IsCall(raw)) -> p.out
                  [] p.inside /\ raw # << >> /\ ~IsCall(raw) -> p.out \o StartTag \o raw
<1>4. c \in Seq(Strings) /\ o \in Strings
  BY <1>1, <1>2, <1>3
<1>5. ToolFlush(p) = [Parser EXCEPT !.calls = c, !.out = o]
  BY DEF ToolFlush, raw
<1> HIDE DEF c, o
<1> QED
  BY <1>4, <1>5, ParserTyped DEF Parsers

LEMMA ContentTyped ==
  ASSUME NEW w \in Writers, NEW t \in Strings
  PROVE  Content(w, t) \in Writers /\ Reasoning(w, t) \in Writers
<1>1. <<"(">> \in Strings /\ <<")">> \in Strings
  BY TextAssumption DEF Strings
<1>2. w.out \in Strings
  BY DEF Writers
<1>3. /\ (w.out \o (IF w.open THEN <<")">> ELSE << >>)) \o t \in Strings
      /\ (w.out \o (IF w.open THEN << >> ELSE <<"(">>)) \o t \in Strings
  BY <1>1, <1>2, TagsTyped, JoinTyped
<1> QED
  BY <1>3 DEF Content, Reasoning, Writers

LEMMA EventTyped ==
  ASSUME NEW w \in Writers, NEW t \in Strings, NEW calls \in Seq(Strings)
  PROVE  Event(w, t, calls) \in Writers
<1>1. CASE ~toolsOn
  BY <1>1, CallsAsTextTyped, ContentTyped DEF Event
<1>2. CASE toolsOn
  <2> DEFINE p == Push(w.parser, t)
             v == Content(w, p.out)
  <2>1. p \in Parsers
    BY PushTyped DEF Writers
  <2> HIDE DEF p
  <2>2. v \in Writers
    BY <2>1, ContentTyped DEF Parsers
  <2>3. (v.calls \o p.calls) \o calls \in Seq(Strings)
    <3>1. v.calls \in Seq(Strings) /\ p.calls \in Seq(Strings)
      BY <2>1, <2>2 DEF Parsers, Writers
    <3> HIDE DEF v
    <3>2. v.calls \o p.calls \in Seq(Strings)
      BY <3>1, ConcatProperties
    <3> QED
      BY <3>2, ConcatProperties
  <2>4. Event(w, t, calls) = [v EXCEPT !.parser = p, !.calls = (@ \o p.calls) \o calls]
    BY <1>2 DEF Event, p
  <2> HIDE DEF v
  <2> QED
    BY <2>1, <2>2, <2>3, <2>4 DEF Writers
<1> QED
  BY <1>1, <1>2

-----------------------------------------------------------------------------
(* Links and images: the parsers cannot tell one from the other. *)

LEMMA PlainOf ==
  ASSUME NEW t \in Strings
  PROVE  /\ Plain(t) \in Strings /\ Len(Plain(t)) = Len(t) /\ Len(t) \in Nat
         /\ \A i \in 1..Len(t) : Plain(t)[i] = IF t[i] = Image THEN Link ELSE t[i]
<1>1. Len(t) \in Nat /\ DOMAIN t = 1..Len(t) /\ \A i \in 1..Len(t) : t[i] \in Symbols
  BY LenProperties, ElementOfSeq DEF Strings
<1>2. Link \in Symbols
  BY TextAssumption
<1>3. Plain(t) = [i \in 1..Len(t) |-> IF t[i] = Image THEN Link ELSE t[i]]
  BY <1>1 DEF Plain
<1>4. \A i \in 1..Len(t) : (IF t[i] = Image THEN Link ELSE t[i]) \in Symbols
  BY <1>1, <1>2
<1> QED
  BY <1>1, <1>3, <1>4 DEF Strings

LEMMA PlainTwice ==
  ASSUME NEW t \in Strings
  PROVE  Plain(Plain(t)) = Plain(t)
<1>1. Link # Image
  BY TextAssumption
<1>2. /\ Plain(t) \in Strings /\ Len(Plain(t)) = Len(t)
      /\ \A i \in 1..Len(t) : Plain(t)[i] = IF t[i] = Image THEN Link ELSE t[i]
  BY PlainOf
<1> DEFINE u == Plain(t)
<1>3. /\ Plain(u) \in Strings /\ Len(Plain(u)) = Len(u)
      /\ \A i \in 1..Len(u) : Plain(u)[i] = IF u[i] = Image THEN Link ELSE u[i]
  BY <1>2, PlainOf
<1>4. \A i \in 1..Len(u) : Plain(u)[i] = u[i]
  BY <1>1, <1>2, <1>3
<1> HIDE DEF u
<1>5. Plain(u) = u
  BY <1>2, <1>3, <1>4, SameText DEF u
<1> QED
  BY <1>5 DEF u

LEMMA PlainJoin ==
  ASSUME NEW a \in Strings, NEW b \in Strings
  PROVE  Plain(a \o b) = Plain(a) \o Plain(b)
<1> DEFINE l == Plain(a \o b)
           r == Plain(a) \o Plain(b)
<1>1. /\ a \o b \in Strings /\ Len(a \o b) = Len(a) + Len(b) /\ Len(a) \in Nat /\ Len(b) \in Nat
      /\ (\A i \in 1..Len(a) : (a \o b)[i] = a[i])
      /\ \A i \in 1..Len(b) : (a \o b)[Len(a) + i] = b[i]
  BY JoinOf
<1>2. /\ Plain(a) \in Strings /\ Len(Plain(a)) = Len(a)
      /\ \A i \in 1..Len(a) : Plain(a)[i] = IF a[i] = Image THEN Link ELSE a[i]
  BY PlainOf
<1>3. /\ Plain(b) \in Strings /\ Len(Plain(b)) = Len(b)
      /\ \A i \in 1..Len(b) : Plain(b)[i] = IF b[i] = Image THEN Link ELSE b[i]
  BY PlainOf
<1>4. /\ r \in Strings /\ Len(r) = Len(a) + Len(b)
      /\ (\A i \in 1..Len(a) : r[i] = Plain(a)[i])
      /\ \A i \in 1..Len(b) : r[Len(a) + i] = Plain(b)[i]
  <2> DEFINE x == Plain(a)
             y == Plain(b)
  <2>1. x \in Strings /\ y \in Strings /\ Len(x) = Len(a) /\ Len(y) = Len(b)
    BY <1>2, <1>3
  <2> HIDE DEF x, y
  <2>2. /\ x \o y \in Strings /\ Len(x \o y) = Len(x) + Len(y)
        /\ (\A i \in 1..Len(x) : (x \o y)[i] = x[i])
        /\ \A i \in 1..Len(y) : (x \o y)[Len(x) + i] = y[i]
    BY <2>1, JoinOf
  <2>3. r = x \o y
    BY DEF x, y
  <2> HIDE DEF r
  <2>4. /\ r \in Strings /\ Len(r) = Len(a) + Len(b)
        /\ (\A i \in 1..Len(a) : r[i] = x[i])
        /\ \A i \in 1..Len(b) : r[Len(a) + i] = y[i]
    BY <2>1, <2>2, <2>3
  <2> QED
    BY <2>4 DEF x, y
<1>5. /\ l \in Strings /\ Len(l) = Len(a) + Len(b)
      /\ \A i \in 1..(Len(a) + Len(b)) : l[i] = IF (a \o b)[i] = Image THEN Link ELSE (a \o b)[i]
  BY <1>1, PlainOf
<1> HIDE DEF l, r
<1>6. ASSUME NEW i \in 1..(Len(a) + Len(b)) PROVE l[i] = r[i]
  <2>1. CASE i <= Len(a)
    <3>1. i \in 1..Len(a)
      BY <1>1, <2>1
    <3> QED
      BY <1>1, <1>2, <1>4, <1>5, <3>1
  <2>2. CASE ~(i <= Len(a))
    <3> DEFINE j == i - Len(a)
    <3>1. j \in 1..Len(b) /\ Len(a) + j = i
      BY <1>1, <2>2
    <3> HIDE DEF j
    <3>2. (a \o b)[i] = b[j] /\ r[i] = Plain(b)[j]
      BY <1>1, <1>4, <3>1
    <3> QED
      BY <1>3, <1>5, <3>1, <3>2
  <2> QED
    BY <2>1, <2>2
<1>7. l = r
  BY <1>4, <1>5, <1>6, SameText
<1> QED
  BY <1>7 DEF l, r

LEMMA PlainPiece ==
  ASSUME NEW d \in Strings, NEW m \in 1..(Len(d) + 1), NEW n \in (m - 1)..Len(d)
  PROVE  SubSeq(Plain(d), m, n) = Plain(SubSeq(d, m, n))
<1> DEFINE s == SubSeq(d, m, n)
           e == Plain(d)
           l == SubSeq(e, m, n)
           r == Plain(s)
<1>1. /\ e \in Strings /\ Len(e) = Len(d) /\ Len(d) \in Nat
      /\ \A i \in 1..Len(d) : e[i] = IF d[i] = Image THEN Link ELSE d[i]
  BY PlainOf
<1>2. s \in Strings /\ Len(s) = n - m + 1 /\ \A i \in 1..(n - m + 1) : s[i] = d[m + i - 1]
  BY PieceOf
<1> HIDE DEF e
<1>3. l \in Strings /\ Len(l) = n - m + 1 /\ \A i \in 1..(n - m + 1) : l[i] = e[m + i - 1]
  <2>1. m \in 1..(Len(e) + 1) /\ n \in (m - 1)..Len(e)
    BY <1>1
  <2> QED
    BY <1>1, <2>1, PieceOf
<1> HIDE DEF s
<1>4. r \in Strings /\ Len(r) = Len(s) /\ \A i \in 1..Len(s) : r[i] = IF s[i] = Image THEN Link ELSE s[i]
  BY <1>2, PlainOf
<1> HIDE DEF l, r
<1>5. \A i \in 1..(n - m + 1) : m + i - 1 \in 1..Len(d)
  BY <1>1
<1>6. \A i \in 1..(n - m + 1) : l[i] = r[i]
  BY <1>1, <1>2, <1>3, <1>4, <1>5
<1>7. l = r
  BY <1>2, <1>3, <1>4, <1>6, SameText
<1> QED
  BY <1>7 DEF l, r, s, e

\* A tag has no link, and no image.
PlainTags == {tag \in Tags : \A i \in 1..Len(tag) : tag[i] \notin {Link, Image}}

LEMMA TagsPlain == StartTag \in PlainTags /\ EndTag \in PlainTags
<1>1. \A tag \in {StartTag, EndTag} : tag \in Tags /\ DOMAIN tag = 1..Len(tag)
  BY TagsTyped, LenProperties DEF Strings
<1>2. \A tag \in {StartTag, EndTag} : \A i \in DOMAIN tag : tag[i] \notin {Link, Image}
  BY TextAssumption
<1> QED
  BY <1>1, <1>2 DEF PlainTags

LEMMA PlainIsAt ==
  ASSUME NEW d \in Strings, NEW tag \in PlainTags, NEW i \in 1..(Len(d) - Len(tag) + 1)
  PROVE  IsAt(Plain(d), tag, i) <=> IsAt(d, tag, i)
<1>1. tag \in Tags /\ Len(tag) \in Nat /\ \A k \in 1..Len(tag) : tag[k] \notin {Link, Image}
  BY LenProperties DEF PlainTags, Tags, Strings
<1> DEFINE e == Plain(d)
<1>2. /\ e \in Strings /\ Len(e) = Len(d) /\ Len(d) \in Nat
      /\ \A j \in 1..Len(d) : e[j] = IF d[j] = Image THEN Link ELSE d[j]
  BY PlainOf
<1> HIDE DEF e
<1>3. \A k \in 1..Len(tag) : i + k - 1 \in 1..Len(d)
  BY <1>1, <1>2
<1>4. \A k \in 1..Len(tag) : e[i + k - 1] = tag[k] <=> d[i + k - 1] = tag[k]
  BY <1>1, <1>2, <1>3
<1>5. /\ IsAt(d, tag, i) <=> \A k \in 1..Len(tag) : d[i + k - 1] = tag[k]
      /\ IsAt(e, tag, i) <=> \A k \in 1..Len(tag) : e[i + k - 1] = tag[k]
  BY <1>1, <1>2, IsAtSymbols
<1> QED
  BY <1>4, <1>5 DEF e

LEMMA PlainIndex ==
  ASSUME NEW d \in Strings, NEW tag \in PlainTags
  PROVE  Index(Plain(d), tag) = Index(d, tag)
<1>1. tag \in Tags /\ Len(tag) \in Nat
  BY LenProperties DEF PlainTags, Tags, Strings
<1> DEFINE e == Plain(d)
<1>2. e \in Strings /\ Len(e) = Len(d) /\ Len(d) \in Nat
  BY PlainOf
<1>3. \A j \in 1..(Len(d) - Len(tag) + 1) : IsAt(e, tag, j) <=> IsAt(d, tag, j)
  BY PlainIsAt
<1> HIDE DEF e
<1>4. CASE \A j \in 1..(Len(d) - Len(tag) + 1) : ~IsAt(d, tag, j)
  <2>1. Index(d, tag) = 0
    BY <1>1, <1>4, IndexNone
  <2>2. \A j \in 1..(Len(e) - Len(tag) + 1) : ~IsAt(e, tag, j)
    BY <1>2, <1>3, <1>4
  <2>3. Index(e, tag) = 0
    BY <1>1, <1>2, <2>2, IndexNone
  <2> QED
    BY <2>1, <2>3 DEF e
<1>5. CASE ~\A j \in 1..(Len(d) - Len(tag) + 1) : ~IsAt(d, tag, j)
  <2> DEFINE i == Index(d, tag)
  <2>1. /\ i \in 1..(Len(d) - Len(tag) + 1) /\ IsAt(d, tag, i)
        /\ \A j \in 1..(i - 1) : ~IsAt(d, tag, j)
    BY <1>1, <1>5, IndexValue
  <2> HIDE DEF i
  <2>2. i \in 1..(Len(e) - Len(tag) + 1) /\ IsAt(e, tag, i)
    BY <1>2, <1>3, <2>1
  <2>3. \A j \in 1..(i - 1) : j \in 1..(Len(d) - Len(tag) + 1)
    BY <1>1, <1>2, <2>1
  <2>4. \A j \in 1..(i - 1) : ~IsAt(e, tag, j)
    BY <1>3, <2>1, <2>3
  <2>5. Index(e, tag) = i
    BY <1>1, <1>2, <2>2, <2>4, IndexIs
  <2> QED
    BY <2>5 DEF i, e
<1> QED
  BY <1>4, <1>5

LEMMA PlainBegin ==
  ASSUME NEW d \in Strings, NEW tag \in PlainTags
  PROVE  SuffixPrefixLength(Plain(d), tag) = SuffixPrefixLength(d, tag)
<1>1. tag \in Tags /\ Len(tag) \in Nat /\ \A k \in 1..Len(tag) : tag[k] \notin {Link, Image}
  BY LenProperties DEF PlainTags, Tags, Strings
<1> DEFINE e == Plain(d)
           k == SuffixPrefixLength(d, tag)
<1>2. /\ e \in Strings /\ Len(e) = Len(d) /\ Len(d) \in Nat
      /\ \A j \in 1..Len(d) : e[j] = IF d[j] = Image THEN Link ELSE d[j]
  BY PlainOf
<1>3. /\ k \in 0..(Len(tag) - 1) /\ k <= Len(d) /\ Begins(d, tag, k)
      /\ \A j \in 0..(Len(tag) - 1) : j <= Len(d) /\ Begins(d, tag, j) => j <= k
  BY <1>1, LongestBegin
<1> HIDE DEF e, k
<1>4. ASSUME NEW j \in 0..(Len(tag) - 1), j <= Len(d)
      PROVE  Begins(e, tag, j) <=> Begins(d, tag, j)
  <2>1. \A i \in 1..j : Len(d) - j + i \in 1..Len(d) /\ i \in 1..Len(tag)
    BY <1>1, <1>2, <1>4
  <2>2. \A i \in 1..j : e[Len(d) - j + i] = tag[i] <=> d[Len(d) - j + i] = tag[i]
    BY <1>1, <1>2, <2>1
  <2> QED
    BY <1>2, <2>2 DEF Begins
<1>5. /\ k <= Len(e) /\ Begins(e, tag, k)
      /\ \A j \in 0..(Len(tag) - 1) : j <= Len(e) /\ Begins(e, tag, j) => j <= k
  BY <1>2, <1>3, <1>4
<1>6. SuffixPrefixLength(e, tag) = k
  BY <1>1, <1>2, <1>3, <1>5, LongestBeginIs
<1> QED
  BY <1>6 DEF e, k

LEMMA PlainParts ==
  ASSUME NEW d \in Strings, NEW tag \in PlainTags
  PROVE  /\ Clean(Plain(d), tag) = Plain(Clean(d, tag)) /\ Carry(Plain(d), tag) = Plain(Carry(d, tag))
         /\ Index(d, tag) # 0 =>
               /\ SubSeq(Plain(d), 1, Index(d, tag) - 1) = Plain(SubSeq(d, 1, Index(d, tag) - 1))
               /\ From(Plain(d), Index(d, tag) + Len(tag)) = Plain(From(d, Index(d, tag) + Len(tag)))
<1>1. tag \in Tags /\ Len(tag) \in Nat
  BY LenProperties DEF PlainTags, Tags, Strings
<1> DEFINE e == Plain(d)
           k == SuffixPrefixLength(d, tag)
           n == Len(d) - k
           i == Index(d, tag)
           h == i - 1
           l == i + Len(tag)
<1>2. e \in Strings /\ Len(e) = Len(d) /\ Len(d) \in Nat /\ SuffixPrefixLength(e, tag) = k
  BY PlainOf, PlainBegin
<1>3. k \in 0..(Len(tag) - 1) /\ k <= Len(d)
  BY <1>1, LongestBegin
<1>4. i # 0 => i \in 1..(Len(d) - Len(tag) + 1)
  BY <1>1, IndexValue
<1> HIDE DEF k, i
<1>5. /\ 1 \in 1..(Len(d) + 1) /\ n \in (1 - 1)..Len(d)
      /\ n + 1 \in 1..(Len(d) + 1) /\ Len(d) \in ((n + 1) - 1)..Len(d)
  BY <1>1, <1>2, <1>3
<1>6. i # 0 => /\ h \in (1 - 1)..Len(d)
               /\ l \in 1..(Len(d) + 1) /\ Len(d) \in (l - 1)..Len(d)
  BY <1>1, <1>2, <1>4
<1>7. /\ Clean(d, tag) = SubSeq(d, 1, n) /\ Carry(d, tag) = SubSeq(d, n + 1, Len(d))
      /\ Clean(e, tag) = SubSeq(e, 1, n) /\ Carry(e, tag) = SubSeq(e, n + 1, Len(d))
  BY <1>2 DEF Clean, Carry, From, k
<1>8. From(d, l) = SubSeq(d, l, Len(d)) /\ From(e, l) = SubSeq(e, l, Len(d))
  BY <1>2 DEF From
<1> HIDE DEF n, h, l
<1>9. /\ SubSeq(e, 1, n) = Plain(SubSeq(d, 1, n))
      /\ SubSeq(e, n + 1, Len(d)) = Plain(SubSeq(d, n + 1, Len(d)))
  BY <1>5, PlainPiece DEF e
<1>10. i # 0 => /\ SubSeq(e, 1, h) = Plain(SubSeq(d, 1, h))
                /\ SubSeq(e, l, Len(d)) = Plain(SubSeq(d, l, Len(d)))
  BY <1>5, <1>6, PlainPiece DEF e
<1> QED
  BY <1>7, <1>8, <1>9, <1>10 DEF h, l, i, e

(* The same of the parts of a parser. *)
PlainTurned(s) == Turned(PlainParser(s.parser), Plain(s.rest))

LEMMA PlainCallsOf ==
  ASSUME NEW calls \in Seq(Strings)
  PROVE  /\ PlainCalls(calls) \in Seq(Strings) /\ Len(PlainCalls(calls)) = Len(calls)
         /\ Len(calls) \in Nat
         /\ \A i \in 1..Len(calls) : PlainCalls(calls)[i] = Plain(calls[i])
<1>1. Len(calls) \in Nat /\ DOMAIN calls = 1..Len(calls) /\ \A i \in 1..Len(calls) : calls[i] \in Strings
  BY LenProperties, ElementOfSeq
<1>2. \A i \in 1..Len(calls) : Plain(calls[i]) \in Strings
  BY <1>1, PlainOf
<1>3. PlainCalls(calls) = [i \in 1..Len(calls) |-> Plain(calls[i])]
  BY <1>1 DEF PlainCalls
<1> QED
  BY <1>1, <1>2, <1>3

LEMMA PlainCallsJoin ==
  ASSUME NEW a \in Seq(Strings), NEW b \in Seq(Strings)
  PROVE  PlainCalls(a \o b) = PlainCalls(a) \o PlainCalls(b)
<1> DEFINE c == a \o b
           x == PlainCalls(a)
           y == PlainCalls(b)
           l == PlainCalls(c)
           r == x \o y
<1>1. /\ c \in Seq(Strings) /\ Len(c) = Len(a) + Len(b)
      /\ \A i \in 1..(Len(a) + Len(b)) : c[i] = IF i <= Len(a) THEN a[i] ELSE b[i - Len(a)]
  BY ConcatProperties
<1>2. x \in Seq(Strings) /\ Len(x) = Len(a) /\ Len(a) \in Nat /\ \A i \in 1..Len(a) : x[i] = Plain(a[i])
  BY PlainCallsOf
<1>3. y \in Seq(Strings) /\ Len(y) = Len(b) /\ Len(b) \in Nat /\ \A i \in 1..Len(b) : y[i] = Plain(b[i])
  BY PlainCallsOf
<1> HIDE DEF c, x, y
<1>4. /\ r \in Seq(Strings) /\ Len(r) = Len(x) + Len(y)
      /\ \A i \in 1..(Len(x) + Len(y)) : r[i] = IF i <= Len(x) THEN x[i] ELSE y[i - Len(x)]
  <2>1. x \in Seq(Strings) /\ y \in Seq(Strings)
    BY <1>2, <1>3
  <2> QED
    BY <2>1, ConcatProperties
<1>5. l \in Seq(Strings) /\ Len(l) = Len(c) /\ \A i \in 1..Len(c) : l[i] = Plain(c[i])
  BY <1>1, PlainCallsOf
<1> HIDE DEF l, r
<1>6. ASSUME NEW i \in 1..Len(c) PROVE l[i] = r[i]
  <2>1. CASE i <= Len(a)
    <3>1. i \in 1..Len(a) /\ i <= Len(x) /\ i \in 1..(Len(x) + Len(y)) /\ i \in 1..(Len(a) + Len(b))
      BY <1>1, <1>2, <1>3, <2>1
    <3>2. c[i] = a[i] /\ r[i] = x[i]
      BY <1>1, <1>4, <3>1, <2>1
    <3> QED
      BY <1>2, <1>5, <3>1, <3>2
  <2>2. CASE ~(i <= Len(a))
    <3> DEFINE j == i - Len(a)
    <3>1. /\ j \in 1..Len(b) /\ ~(i <= Len(x)) /\ i - Len(x) = j
          /\ i \in 1..(Len(x) + Len(y)) /\ i \in 1..(Len(a) + Len(b)) /\ i - Len(a) = j
      BY <1>1, <1>2, <1>3, <2>2
    <3> HIDE DEF j
    <3>2. c[i] = b[j] /\ r[i] = y[j]
      BY <1>1, <1>4, <3>1, <2>2
    <3> QED
      BY <1>3, <1>5, <3>1, <3>2
  <2> QED
    BY <2>1, <2>2
<1>7. l = r
  BY <1>1, <1>2, <1>3, <1>4, <1>5, <1>6, SeqEqual
<1> QED
  BY <1>7 DEF l, r, c, x, y

LEMMA PlainOne ==
  ASSUME NEW raw \in Strings
  PROVE  <<raw>> \in Seq(Strings) /\ PlainCalls(<<raw>>) = <<Plain(raw)>>
<1>1. <<raw>> \in Seq(Strings) /\ Len(<<raw>>) = 1 /\ <<raw>>[1] = raw
  OBVIOUS
<1>2. PlainCalls(<<raw>>) = [i \in {1} |-> Plain(raw)]
  BY DEF PlainCalls
<1>3. <<Plain(raw)>> = [i \in {1} |-> Plain(raw)]
  OBVIOUS
<1> QED
  BY <1>1, <1>2, <1>3

LEMMA PlainAppend ==
  ASSUME NEW calls \in Seq(Strings), NEW raw \in Strings
  PROVE  PlainCalls(Append(calls, raw)) = Append(PlainCalls(calls), Plain(raw))
<1>1. Append(calls, raw) = calls \o <<raw>>
  BY AppendIsConcat
<1>2. PlainCalls(calls) \in Seq(Strings) /\ Plain(raw) \in Strings
  BY PlainCallsOf, PlainOf
<1>3. Append(PlainCalls(calls), Plain(raw)) = PlainCalls(calls) \o <<Plain(raw)>>
  BY <1>2, AppendIsConcat
<1> QED
  BY <1>1, <1>3, PlainOne, PlainCallsJoin

LEMMA PlainNone ==
  /\ Plain(<< >>) = << >> /\ PlainCalls(<< >>) = << >>
  /\ \A t \in Strings : Plain(t) = << >> <=> t = << >>
<1>1. \A t \in Strings : Len(Plain(t)) = Len(t) /\ Plain(t) \in Strings
  BY PlainOf
<1>2. \A t \in Strings : Plain(t) = << >> <=> t = << >>
  BY <1>1, LenTyped
<1>3. << >> \in Strings
  BY TagsTyped
<1>4. << >> \in Seq(Strings) /\ Len(<< >>) = 0
  BY EmptySeq
<1>5. PlainCalls(<< >>) \in Seq(Strings) /\ Len(PlainCalls(<< >>)) = 0
  BY <1>4, PlainCallsOf
<1>6. PlainCalls(<< >>) = << >>
  BY <1>5, EmptySeq
<1> QED
  BY <1>2, <1>3, <1>6

LEMMA PlainTag ==
  ASSUME NEW tag \in PlainTags
  PROVE  tag \in Strings /\ Plain(tag) = tag
<1>1. tag \in Strings /\ \A i \in 1..Len(tag) : tag[i] # Image
  BY DEF PlainTags, Tags
<1>2. /\ Plain(tag) \in Strings /\ Len(Plain(tag)) = Len(tag)
      /\ \A i \in 1..Len(tag) : Plain(tag)[i] = IF tag[i] = Image THEN Link ELSE tag[i]
  BY <1>1, PlainOf
<1>3. \A i \in 1..Len(tag) : Plain(tag)[i] = tag[i]
  BY <1>1, <1>2
<1> QED
  BY <1>1, <1>2, <1>3, SameText

LEMMA PlainParserTyped ==
  ASSUME NEW p \in Parsers
  PROVE  PlainParser(p) \in Parsers
BY PlainOf, PlainCallsOf DEF PlainParser, Parsers

LEMMA PlainParserIs ==
  ASSUME NEW q \in Parsers, NEW x, q.inside = x.inside, q.partial = Plain(x.partial),
         q.buffer = Plain(x.buffer), q.out = Plain(x.out), q.calls = PlainCalls(x.calls)
  PROVE  q = PlainParser(x)
<1>1. q = [inside |-> q.inside, partial |-> q.partial, buffer |-> q.buffer, out |-> q.out,
           calls |-> q.calls]
  BY DEF Parsers
<1> QED
  BY <1>1 DEF PlainParser

\* A turn of the parser of tool calls.
LEMMA PlainShown ==
  ASSUME NEW p \in Parsers, NEW c \in Strings
  PROVE  /\ Shown(PlainParser(p), Plain(c)) = PlainParser(Shown(p, c))
         /\ Kept(PlainParser(p), Plain(c)) = PlainParser(Kept(p, c))
         /\ Held(PlainParser(p), Plain(c)) = PlainParser(Held(p, c))
<1>1. Plain(p.out) \o Plain(c) = Plain(p.out \o c) /\ Plain(p.buffer) \o Plain(c) = Plain(p.buffer \o c)
  BY PlainJoin DEF Parsers
<1>2. /\ Shown(p, c) \in Parsers /\ Kept(p, c) \in Parsers /\ Held(p, c) \in Parsers
      /\ p.out \o c \in Strings /\ p.buffer \o c \in Strings
  BY JoinTyped DEF Shown, Kept, Held, Parsers
<1> DEFINE e == Plain(c)
           q == PlainParser(p)
<1>3. q \in Parsers /\ e \in Strings /\ q.out \o e \in Strings /\ q.buffer \o e \in Strings
  BY PlainParserTyped, PlainOf, JoinTyped DEF Parsers
<1>4. /\ q.inside = p.inside /\ q.partial = Plain(p.partial) /\ q.buffer = Plain(p.buffer)
      /\ q.out = Plain(p.out) /\ q.calls = PlainCalls(p.calls)
  BY DEF PlainParser
<1> HIDE DEF q, e
<1>5. Shown(q, e) = PlainParser(Shown(p, c))
  <2>1. /\ Shown(q, e).inside = q.inside /\ Shown(q, e).partial = q.partial
        /\ Shown(q, e).buffer = q.buffer /\ Shown(q, e).calls = q.calls
        /\ Shown(q, e).out = q.out \o e /\ Shown(q, e) \in Parsers
    BY <1>3 DEF Shown, Parsers
  <2>2. /\ Shown(p, c).inside = p.inside /\ Shown(p, c).partial = p.partial
        /\ Shown(p, c).buffer = p.buffer /\ Shown(p, c).calls = p.calls
        /\ Shown(p, c).out = p.out \o c
    BY DEF Shown, Parsers
  <2> DEFINE x == Shown(p, c)
             y == Shown(q, e)
  <2>3. q.out \o e = Plain(p.out \o c)
    BY <1>1, <1>4 DEF e
  <2>4. /\ y \in Parsers /\ y.inside = x.inside /\ y.partial = Plain(x.partial)
        /\ y.buffer = Plain(x.buffer) /\ y.out = Plain(x.out) /\ y.calls = PlainCalls(x.calls)
    BY <1>4, <2>1, <2>2, <2>3
  <2> HIDE DEF x, y
  <2>5. y = PlainParser(x)
    BY <2>4, PlainParserIs
  <2> QED
    BY <2>5 DEF x, y
<1>6. Kept(q, e) = PlainParser(Kept(p, c))
  <2>1. /\ Kept(q, e).inside = q.inside /\ Kept(q, e).partial = q.partial
        /\ Kept(q, e).buffer = q.buffer \o e /\ Kept(q, e).calls = q.calls
        /\ Kept(q, e).out = q.out /\ Kept(q, e) \in Parsers
    BY <1>3 DEF Kept, Parsers
  <2>2. /\ Kept(p, c).inside = p.inside /\ Kept(p, c).partial = p.partial
        /\ Kept(p, c).buffer = p.buffer \o c /\ Kept(p, c).calls = p.calls
        /\ Kept(p, c).out = p.out
    BY DEF Kept, Parsers
  <2> DEFINE x == Kept(p, c)
             y == Kept(q, e)
  <2>3. q.buffer \o e = Plain(p.buffer \o c)
    BY <1>1, <1>4 DEF e
  <2>4. /\ y \in Parsers /\ y.inside = x.inside /\ y.partial = Plain(x.partial)
        /\ y.buffer = Plain(x.buffer) /\ y.out = Plain(x.out) /\ y.calls = PlainCalls(x.calls)
    BY <1>4, <2>1, <2>2, <2>3
  <2> HIDE DEF x, y
  <2>5. y = PlainParser(x)
    BY <2>4, PlainParserIs
  <2> QED
    BY <2>5 DEF x, y
<1>7. Held(q, e) = PlainParser(Held(p, c))
  <2>1. /\ Held(q, e).inside = q.inside /\ Held(q, e).partial = e
        /\ Held(q, e).buffer = q.buffer /\ Held(q, e).calls = q.calls
        /\ Held(q, e).out = q.out /\ Held(q, e) \in Parsers
    BY <1>3 DEF Held, Parsers
  <2>2. /\ Held(p, c).inside = p.inside /\ Held(p, c).partial = c
        /\ Held(p, c).buffer = p.buffer /\ Held(p, c).calls = p.calls
        /\ Held(p, c).out = p.out
    BY DEF Held, Parsers
  <2> QED
    BY <1>2, <1>4, <2>1, <2>2, PlainParserIs DEF e
<1> QED
  BY <1>5, <1>6, <1>7 DEF q, e

LEMMA PlainInside ==
  ASSUME NEW p \in Parsers, NEW b \in BOOLEAN
  PROVE  /\ [p EXCEPT !.inside = b] \in Parsers
         /\ [PlainParser(p) EXCEPT !.inside = b] = PlainParser([p EXCEPT !.inside = b])
<1> DEFINE q == PlainParser(p)
           x == [p EXCEPT !.inside = b]
           y == [q EXCEPT !.inside = b]
<1>1. q \in Parsers
  BY PlainParserTyped
<1>2. /\ q.inside = p.inside /\ q.partial = Plain(p.partial) /\ q.buffer = Plain(p.buffer)
      /\ q.out = Plain(p.out) /\ q.calls = PlainCalls(p.calls)
  BY DEF PlainParser
<1> HIDE DEF q
<1>3. /\ y \in Parsers /\ y.inside = b /\ y.partial = q.partial /\ y.buffer = q.buffer
      /\ y.out = q.out /\ y.calls = q.calls
  BY <1>1 DEF Parsers
<1>4. /\ x \in Parsers /\ x.inside = b /\ x.partial = p.partial /\ x.buffer = p.buffer
      /\ x.out = p.out /\ x.calls = p.calls
  BY DEF Parsers
<1> HIDE DEF x, y
<1>5. y = PlainParser(x)
  BY <1>2, <1>3, <1>4, PlainParserIs
<1> QED
  BY <1>4, <1>5 DEF x, y, q

LEMMA PlainToolCall ==
  ASSUME NEW p \in Parsers, NEW raw \in Strings, NEW rest \in Strings
  PROVE  ToolCall(PlainParser(p), Plain(raw), Plain(rest)) = PlainTurned(ToolCall(p, raw, rest))
<1> DEFINE q == PlainParser(p)
           e == Plain(raw)
           x == ToolCall(p, raw, rest).parser
           y == ToolCall(q, e, Plain(rest)).parser
           called(r, block) == IF IsCall(block) THEN Append(r.calls, block) ELSE r.calls
           shown(r, block) == IF IsCall(block) \/ block = << >> THEN r.out
                              ELSE ((r.out \o StartTag) \o block) \o EndTag
<1>1. q \in Parsers /\ e \in Strings
  BY PlainParserTyped, PlainOf
<1>2. /\ q.inside = p.inside /\ q.partial = Plain(p.partial) /\ q.buffer = Plain(p.buffer)
      /\ q.out = Plain(p.out) /\ q.calls = PlainCalls(p.calls)
  BY DEF PlainParser
<1>3. ASSUME NEW r \in Parsers, NEW block \in Strings, NEW more
      PROVE  LET z == ToolCall(r, block, more).parser IN
             /\ z \in Parsers /\ z.inside = FALSE /\ z.partial = r.partial /\ z.buffer = << >>
             /\ z.calls = called(r, block) /\ z.out = shown(r, block)
  <2>1. /\ called(r, block) \in Seq(Strings)
        /\ shown(r, block) \in Strings
    <3>1. /\ r.calls \in Seq(Strings) /\ r.out \in Strings
          /\ r.out \o StartTag \in Strings /\ (r.out \o StartTag) \o block \in Strings
          /\ ((r.out \o StartTag) \o block) \o EndTag \in Strings
      BY TagsTyped, JoinTyped DEF Parsers
    <3> QED
      BY <3>1, AppendProperties
  <2>2. ToolCall(r, block, more).parser
        = [r EXCEPT !.inside = FALSE, !.buffer = << >>, !.calls = called(r, block), !.out = shown(r, block)]
    BY TurnedParts DEF ToolCall
  <2> HIDE DEF called, shown
  <2> QED
    BY <2>1, <2>2, TagsTyped DEF Parsers
<1>4. IsCall(e) <=> IsCall(raw)
  BY PlainTwice DEF IsCall
<1>5. called(q, e) = PlainCalls(called(p, raw))
  <2>1. p.calls \in Seq(Strings)
    BY DEF Parsers
  <2> QED
    BY <1>2, <1>4, <2>1, PlainAppend
<1>6. shown(q, e) = Plain(shown(p, raw))
  <2>1. p.out \in Strings /\ p.out \o StartTag \in Strings /\ (p.out \o StartTag) \o raw \in Strings
        /\ StartTag \in Strings /\ EndTag \in Strings /\ Plain(StartTag) = StartTag /\ Plain(EndTag) = EndTag
    BY TagsTyped, TagsPlain, PlainTag, JoinTyped DEF Parsers
  <2>2. Plain(((p.out \o StartTag) \o raw) \o EndTag) = ((q.out \o StartTag) \o e) \o EndTag
    <3> DEFINE a == p.out
               b == a \o StartTag
               c == b \o raw
               d == c \o EndTag
    <3>1. \A v, w \in Strings : Plain(v \o w) = Plain(v) \o Plain(w)
      BY PlainJoin
    <3>2. a \in Strings /\ b \in Strings /\ c \in Strings /\ Plain(a) = q.out
      BY <1>2, <2>1
    <3> HIDE DEF a, b, c, d, q, e
    <3>3. Plain(b) = Plain(a) \o StartTag
      <4>1. Plain(a \o StartTag) = Plain(a) \o Plain(StartTag)
        BY <2>1, <3>1, <3>2, Zenon
      <4> QED
        BY <2>1, <4>1 DEF b
    <3>4. Plain(c) = Plain(b) \o e
      BY <3>1, <3>2 DEF c, e
    <3>5. Plain(d) = Plain(c) \o EndTag
      <4>1. Plain(c \o EndTag) = Plain(c) \o Plain(EndTag)
        BY <2>1, <3>1, <3>2, Zenon
      <4> QED
        BY <2>1, <4>1 DEF d
    <3>6. Plain(d) = ((q.out \o StartTag) \o e) \o EndTag
      BY <3>2, <3>3, <3>4, <3>5
    <3> QED
      BY <3>6 DEF d, c, b, a
  <2>3. e = << >> <=> raw = << >>
    BY PlainNone
  <2> QED
    BY <1>2, <1>4, <2>2, <2>3
<1> HIDE DEF called, shown, q, e
<1>7. /\ x \in Parsers /\ x.inside = FALSE /\ x.partial = p.partial /\ x.buffer = << >>
      /\ x.calls = called(p, raw) /\ x.out = shown(p, raw)
  BY <1>3
<1>8. /\ y \in Parsers /\ y.inside = FALSE /\ y.partial = q.partial /\ y.buffer = << >>
      /\ y.calls = called(q, e) /\ y.out = shown(q, e)
  BY <1>1, <1>3
<1> HIDE DEF x, y
<1>9. y = PlainParser(x)
  BY <1>2, <1>5, <1>6, <1>7, <1>8, PlainNone, PlainParserIs
<1>10. ToolCall(p, raw, rest) = Turned(x, rest) /\ ToolCall(q, e, Plain(rest)) = Turned(y, Plain(rest))
  BY TurnedParts DEF ToolCall, x, y
<1> QED
  BY <1>9, <1>10, TurnedParts DEF PlainTurned, q, e

LEMMA PlainTool ==
  ASSUME NEW p \in Parsers, NEW d \in Strings
  PROVE  Tool(PlainParser(p), Plain(d)) = PlainTurned(Tool(p, d))
<1> DEFINE q == PlainParser(p)
           e == Plain(d)
           end == Index(d, EndTag)
           start == Index(d, StartTag)
<1>1. /\ q \in Parsers /\ e \in Strings /\ Index(e, EndTag) = end /\ Index(e, StartTag) = start
      /\ q.inside = p.inside /\ q.buffer = Plain(p.buffer) /\ StartTag \in Tags /\ EndTag \in Tags
  BY PlainParserTyped, PlainOf, PlainIndex, TagsPlain, TagsTyped DEF PlainParser
<1>2. \A tag \in {StartTag, EndTag} :
        /\ Clean(e, tag) = Plain(Clean(d, tag)) /\ Carry(e, tag) = Plain(Carry(d, tag))
        /\ Clean(d, tag) \in Strings /\ Carry(d, tag) \in Strings
  BY <1>1, TagsPlain, PlainParts, CleanAndCarry
<1>3. end # 0 => /\ SubSeq(d, 1, end - 1) \in Strings /\ From(d, end + Len(EndTag)) \in Strings
                 /\ SubSeq(e, 1, end - 1) = Plain(SubSeq(d, 1, end - 1))
                 /\ From(e, end + Len(EndTag)) = Plain(From(d, end + Len(EndTag)))
  BY <1>1, TagsPlain, PlainParts, AroundTag
<1>4. start # 0 => /\ SubSeq(d, 1, start - 1) \in Strings
                   /\ SubSeq(e, 1, start - 1) = Plain(SubSeq(d, 1, start - 1))
                   /\ From(e, start + Len(StartTag)) = Plain(From(d, start + Len(StartTag)))
  BY <1>1, TagsPlain, PlainParts, AroundTag
<1> HIDE DEF end, start, e
<1>5. CASE p.inside /\ end = 0
  <2>1. Tool(p, d) = Ended(ToolContent(p, d)) /\ Tool(q, e) = Ended(ToolContent(q, e))
    BY <1>1, <1>5, ToolIs DEF end
  <2> DEFINE c == Clean(d, EndTag)
             x == Carry(d, EndTag)
  <2>2. c \in Strings /\ x \in Strings /\ Clean(e, EndTag) = Plain(c) /\ Carry(e, EndTag) = Plain(x)
    BY <1>2
  <2> HIDE DEF c, x
  <2>3. Kept(p, c) \in Parsers /\ Kept(q, Plain(c)) = PlainParser(Kept(p, c))
    BY <2>2, PlainShown, KeptTyped
  <2>4. Held(Kept(q, Plain(c)), Plain(x)) = PlainParser(Held(Kept(p, c), x))
    BY <2>2, <2>3, PlainShown
  <2>5. ToolContent(p, d) = Held(Kept(p, c), x) /\ ToolContent(q, e) = Held(Kept(q, Plain(c)), Plain(x))
    BY <1>1, <2>2, ToolContentIs DEF c, x
  <2> QED
    BY <2>1, <2>4, <2>5, TurnedParts, PlainNone DEF PlainTurned, Ended, q, e
<1>6. CASE p.inside /\ end # 0
  <2> DEFINE raw == SubSeq(d, 1, end - 1)
             rest == From(d, end + Len(EndTag))
             block == p.buffer \o raw
  <2>1. /\ raw \in Strings /\ rest \in Strings /\ SubSeq(e, 1, end - 1) = Plain(raw)
        /\ From(e, end + Len(EndTag)) = Plain(rest)
    BY <1>3, <1>6
  <2>2. Tool(p, d) = ToolCall(p, block, rest)
    BY <1>1, <1>6, ToolIs DEF end
  <2>3. Tool(q, e) = ToolCall(q, q.buffer \o SubSeq(e, 1, end - 1), From(e, end + Len(EndTag)))
    BY <1>1, <1>6, ToolIs
  <2> HIDE DEF raw, rest
  <2>4. p.buffer \in Strings /\ block \in Strings /\ Plain(block) = Plain(p.buffer) \o Plain(raw)
    BY <2>1, PlainJoin, JoinTyped DEF Parsers
  <2>5. Tool(q, e) = ToolCall(q, Plain(block), Plain(rest))
    BY <1>1, <2>1, <2>3, <2>4
  <2> HIDE DEF block
  <2>6. ToolCall(q, Plain(block), Plain(rest)) = PlainTurned(ToolCall(p, block, rest))
    BY <2>1, <2>4, PlainToolCall
  <2> QED
    BY <2>2, <2>5, <2>6 DEF q, e
<1>7. CASE ~p.inside /\ start = 0
  <2>1. Tool(p, d) = PassOn(p, d) /\ Tool(q, e) = PassOn(q, e)
    BY <1>1, <1>7, ToolIs DEF start
  <2> DEFINE c == Clean(d, StartTag)
             x == Carry(d, StartTag)
  <2>2. c \in Strings /\ x \in Strings /\ Clean(e, StartTag) = Plain(c) /\ Carry(e, StartTag) = Plain(x)
    BY <1>2
  <2> HIDE DEF c, x
  <2>3. Shown(p, c) \in Parsers /\ Shown(q, Plain(c)) = PlainParser(Shown(p, c))
    BY <2>2, PlainShown, ShownTyped
  <2>4. Held(Shown(q, Plain(c)), Plain(x)) = PlainParser(Held(Shown(p, c), x))
    BY <2>2, <2>3, PlainShown
  <2>5. PassOn(p, d) = Ended(Held(Shown(p, c), x)) /\ PassOn(q, e) = Ended(Held(Shown(q, Plain(c)), Plain(x)))
    BY <1>1, <2>2, PassOnIs DEF c, x
  <2> QED
    BY <2>1, <2>4, <2>5, TurnedParts, PlainNone DEF PlainTurned, Ended, q, e
<1>8. CASE ~p.inside /\ start # 0
  <2> DEFINE c == SubSeq(d, 1, start - 1)
             rest == From(d, start + Len(StartTag))
  <2>1. /\ c \in Strings /\ SubSeq(e, 1, start - 1) = Plain(c)
        /\ From(e, start + Len(StartTag)) = Plain(rest)
    BY <1>4, <1>8
  <2>2. Tool(p, d) = Turned([Shown(p, c) EXCEPT !.inside = TRUE], rest)
    BY <1>1, <1>8, ToolIs DEF start
  <2>3. Tool(q, e) = Turned([Shown(q, SubSeq(e, 1, start - 1)) EXCEPT !.inside = TRUE],
                            From(e, start + Len(StartTag)))
    BY <1>1, <1>8, ToolIs
  <2> HIDE DEF c, rest
  <2>4. Shown(p, c) \in Parsers /\ Shown(q, Plain(c)) = PlainParser(Shown(p, c))
    BY <2>1, PlainShown, ShownTyped
  <2>5. [PlainParser(Shown(p, c)) EXCEPT !.inside = TRUE] = PlainParser([Shown(p, c) EXCEPT !.inside = TRUE])
    BY <2>4, PlainInside
  <2>6. Tool(q, e) = Turned(PlainParser([Shown(p, c) EXCEPT !.inside = TRUE]), Plain(rest))
    BY <2>1, <2>3, <2>4, <2>5
  <2> QED
    BY <2>2, <2>6, TurnedParts DEF PlainTurned, q, e
<1>9. p.inside \in BOOLEAN
  BY DEF Parsers
<1> QED
  BY <1>5, <1>6, <1>7, <1>8, <1>9

LEMMA PlainTurnedTyped ==
  ASSUME NEW s \in Loops
  PROVE  /\ s.parser \in Parsers /\ s.rest \in Strings
         /\ Turn("tool", PlainTurned(s)) = PlainTurned(Turn("tool", s))
<1>1. s.parser \in Parsers /\ s.rest \in Strings /\ s = Turned(s.parser, s.rest)
  BY DEF Loops, Turned
<1>2. PlainTurned(s).parser = PlainParser(s.parser) /\ PlainTurned(s).rest = Plain(s.rest)
  BY TurnedParts DEF PlainTurned
<1>3. Plain(s.rest) = << >> <=> s.rest = << >>
  BY <1>1, PlainNone
<1>4. CASE s.rest = << >>
  <2>1. Turn("tool", s) = s
    BY <1>4 DEF Turn
  <2> DEFINE t == PlainTurned(s)
  <2>2. t.rest = << >>
    BY <1>2, <1>3, <1>4
  <2> HIDE DEF t
  <2>3. Turn("tool", t) = t
    BY <2>2 DEF Turn
  <2> QED
    BY <1>1, <2>1, <2>3 DEF t
<1>5. CASE s.rest # << >>
  <2>1. Turn("tool", s) = Tool(s.parser, s.rest)
    BY <1>5 DEF Turn
  <2>2. Turn("tool", PlainTurned(s)) = Tool(PlainParser(s.parser), Plain(s.rest))
    BY <1>2, <1>3, <1>5 DEF Turn
  <2> QED
    BY <1>1, <2>1, <2>2, PlainTool
<1> QED
  BY <1>1, <1>4, <1>5

\* The loop makes the same turns.
LEMMA PlainFinal ==
  ASSUME NEW p \in Parsers, NEW d \in Strings
  PROVE  Final("tool", PlainParser(p), Plain(d)) = PlainParser(Final("tool", p, d))
<1> DEFINE q == PlainParser(p)
           e == Plain(d)
           f == Loop("tool", p, d)
           g == Loop("tool", q, e)
           A == {n \in Nat : g[n] = PlainTurned(f[n])}
<1>1. "tool" \in ParserKinds /\ q \in Parsers /\ e \in Strings /\ Len(e) = Len(d) /\ Len(d) \in Nat
  BY PlainParserTyped, PlainOf DEF ParserKinds
<1>2. f \in [Nat -> Loops] /\ f[0] = Turned(p, d) /\ \A n \in Nat : f[n + 1] = Turn("tool", f[n])
  BY <1>1, LoopTurns
<1> HIDE DEF q, e
<1>3. g[0] = Turned(q, e) /\ \A n \in Nat : g[n + 1] = Turn("tool", g[n])
  BY <1>1, LoopTurns
<1> HIDE DEF f, g
<1>4. 0 \in A
  <2>1. PlainTurned(Turned(p, d)) = Turned(q, e)
    BY TurnedParts DEF PlainTurned, q, e
  <2> QED
    BY <1>2, <1>3, <2>1
<1>5. ASSUME NEW n \in Nat, n \in A PROVE n + 1 \in A
  <2>1. f[n] \in Loops /\ f[n + 1] = Turn("tool", f[n]) /\ g[n + 1] = Turn("tool", g[n])
        /\ g[n] = PlainTurned(f[n])
    BY <1>2, <1>3, <1>5
  <2>2. g[n + 1] = PlainTurned(f[n + 1])
    BY <2>1, PlainTurnedTyped
  <2> QED
    BY <2>2
<1>6. Nat \subseteq A
  <2> HIDE DEF A
  <2> QED
    BY <1>4, <1>5, NatInductionOf
<1>7. g[Len(d)] = PlainTurned(f[Len(d)])
  BY <1>1, <1>6
<1>8. g[Len(d)].parser = PlainParser(f[Len(d)].parser)
  BY <1>7, TurnedParts DEF PlainTurned
<1> QED
  BY <1>1, <1>8 DEF Final, f, g, q, e

LEMMA PlainPush ==
  ASSUME NEW p \in Parsers, NEW c \in Strings
  PROVE  Push(PlainParser(p), Plain(c)) = PlainParser(Push(p, c))
<1> DEFINE r == Fresh(p)
           q == Fresh(PlainParser(p))
           d == r.partial \o c
<1>1. /\ r \in Parsers /\ r.inside = p.inside /\ r.partial = p.partial /\ r.buffer = p.buffer
      /\ r.out = << >> /\ r.calls = << >>
  BY TagsTyped, EmptySeq DEF Fresh, Parsers
<1>2. /\ q \in Parsers /\ q.inside = p.inside /\ q.partial = Plain(p.partial)
      /\ q.buffer = Plain(p.buffer) /\ q.out = << >> /\ q.calls = << >>
  <2> DEFINE x == PlainParser(p)
  <2>1. /\ x \in Parsers /\ x.inside = p.inside /\ x.partial = Plain(p.partial)
        /\ x.buffer = Plain(p.buffer)
    BY PlainParserTyped DEF PlainParser
  <2> HIDE DEF x
  <2>2. /\ Fresh(x) \in Parsers /\ Fresh(x).inside = x.inside /\ Fresh(x).partial = x.partial
        /\ Fresh(x).buffer = x.buffer /\ Fresh(x).out = << >> /\ Fresh(x).calls = << >>
    BY <2>1, TagsTyped, EmptySeq DEF Fresh, Parsers
  <2> QED
    BY <2>1, <2>2 DEF x
<1> HIDE DEF r, q
<1>3. q = PlainParser(r)
  BY <1>1, <1>2, PlainNone, PlainParserIs
<1>4. Cleared(q) = PlainParser(Cleared(r)) /\ Cleared(r) \in Parsers
  <2>1. /\ Cleared(q) \in Parsers /\ Cleared(q).inside = q.inside /\ Cleared(q).partial = << >>
        /\ Cleared(q).buffer = q.buffer /\ Cleared(q).out = q.out /\ Cleared(q).calls = q.calls
    BY <1>2, TagsTyped DEF Cleared, Parsers
  <2>2. /\ Cleared(r) \in Parsers /\ Cleared(r).inside = r.inside /\ Cleared(r).partial = << >>
        /\ Cleared(r).buffer = r.buffer /\ Cleared(r).out = r.out /\ Cleared(r).calls = r.calls
    BY <1>1, TagsTyped DEF Cleared, Parsers
  <2> DEFINE x == Cleared(r)
             y == Cleared(q)
  <2>3. /\ y \in Parsers /\ y.inside = x.inside /\ y.partial = Plain(x.partial)
        /\ y.buffer = Plain(x.buffer) /\ y.out = Plain(x.out) /\ y.calls = PlainCalls(x.calls)
    BY <1>1, <1>2, <2>1, <2>2, PlainNone
  <2> HIDE DEF x, y
  <2>4. y = PlainParser(x)
    BY <2>3, PlainParserIs
  <2> QED
    BY <2>2, <2>4 DEF x, y
<1>5. d \in Strings /\ Plain(d) = q.partial \o Plain(c)
  <2> DEFINE a == r.partial
  <2>1. a \in Strings /\ q.partial = Plain(a)
    BY <1>1, <1>2 DEF Parsers
  <2> HIDE DEF a
  <2>2. a \o c \in Strings /\ Plain(a \o c) = Plain(a) \o Plain(c)
    BY <2>1, PlainJoin, JoinTyped
  <2> QED
    BY <2>1, <2>2 DEF a
<1> HIDE DEF d
<1>6. Final("tool", Cleared(q), Plain(d)) = PlainParser(Final("tool", Cleared(r), d))
  BY <1>4, <1>5, PlainFinal
<1>7. /\ Push(p, c) = Final("tool", Cleared(r), d)
      /\ Push(PlainParser(p), Plain(c)) = Final("tool", Cleared(q), q.partial \o Plain(c))
  BY FeedIs DEF Push, r, q, d
<1> QED
  BY <1>5, <1>6, <1>7

-----------------------------------------------------------------------------
(* The adapter of a streamed answer and the collector of a blocking one. *)

\* rewriteContent changes links into images only.
LEMMA RewritePlain ==
  ASSUME NEW t \in Strings
  PROVE  Rewrite(t) \in Strings /\ Plain(Rewrite(t)) = Plain(t)
<1> DEFINE image(i) == rewrites /\ i > 1 /\ t[i] = Link /\ t[i - 1] = LinkHead
           e == Rewrite(t)
<1>1. Len(t) \in Nat /\ DOMAIN t = 1..Len(t) /\ \A i \in 1..Len(t) : t[i] \in Symbols
  BY LenProperties, ElementOfSeq DEF Strings
<1>2. Image \in Symbols /\ Link # Image
  BY TextAssumption
<1>3. e = [i \in 1..Len(t) |-> IF image(i) THEN Image ELSE t[i]]
  BY <1>1 DEF Rewrite
<1>4. /\ e \in Strings /\ Len(e) = Len(t)
      /\ \A i \in 1..Len(t) : e[i] = t[i] \/ (e[i] = Image /\ t[i] = Link)
  <2>1. \A i \in 1..Len(t) : /\ (IF image(i) THEN Image ELSE t[i]) \in Symbols
                             /\ image(i) => t[i] = Link
    BY <1>1, <1>2
  <2> HIDE DEF image, e
  <2>2. e \in Strings /\ Len(e) = Len(t) /\ \A i \in 1..Len(t) : e[i] = IF image(i) THEN Image ELSE t[i]
    BY <1>1, <1>3, <2>1 DEF Strings
  <2> QED
    BY <2>1, <2>2
<1> HIDE DEF e
<1>5. /\ Plain(e) \in Strings /\ Len(Plain(e)) = Len(e)
      /\ \A i \in 1..Len(e) : Plain(e)[i] = IF e[i] = Image THEN Link ELSE e[i]
  BY <1>4, PlainOf
<1>6. /\ Plain(t) \in Strings /\ Len(Plain(t)) = Len(t)
      /\ \A i \in 1..Len(t) : Plain(t)[i] = IF t[i] = Image THEN Link ELSE t[i]
  BY PlainOf
<1>7. \A i \in 1..Len(t) : Plain(e)[i] = Plain(t)[i]
  BY <1>2, <1>4, <1>5, <1>6
<1>8. Plain(e) = Plain(t)
  BY <1>4, <1>5, <1>6, <1>7, SameText
<1> QED
  BY <1>4, <1>8 DEF e

\* What is said with a mark of the think tags before what is added.
Said(a, mark, t) == (a \o mark) \o t

LEMMA SaidSame ==
  ASSUME NEW a \in Strings, NEW b \in Strings, Plain(a) = Plain(b), NEW mark \in Strings,
         NEW t \in Strings, NEW u \in Strings, Plain(t) = Plain(u)
  PROVE  Plain(Said(a, mark, t)) = Plain(Said(b, mark, u))
<1> DEFINE c == a \o mark
           d == b \o mark
<1>1. c \in Strings /\ d \in Strings /\ Plain(c) = Plain(a) \o Plain(mark) /\ Plain(d) = Plain(b) \o Plain(mark)
  BY PlainJoin, JoinTyped
<1> HIDE DEF c, d
<1>2. Plain(c \o t) = Plain(c) \o Plain(t) /\ Plain(d \o u) = Plain(d) \o Plain(u)
  BY <1>1, PlainJoin
<1>3. Plain(c \o t) = Plain(d \o u)
  BY <1>1, <1>2
<1> QED
  BY <1>3 DEF Said, c, d

LEMMA SameContent ==
  ASSUME NEW w \in Writers, NEW v \in Writers, SameAdapter(w, v),
         NEW t \in Strings, NEW u \in Strings, Plain(t) = Plain(u)
  PROVE  SameAdapter(Content(w, t), Content(v, u)) /\ SameAdapter(Reasoning(w, t), Reasoning(v, u))
<1> DEFINE shut == IF w.open THEN <<")">> ELSE << >>
           mark == IF w.open THEN << >> ELSE <<"(">>
<1>1. /\ w.open = v.open /\ Plain(w.out) = Plain(v.out) /\ PlainCalls(w.calls) = PlainCalls(v.calls)
      /\ PlainParser(w.parser) = PlainParser(v.parser) /\ w.out \in Strings /\ v.out \in Strings
  BY DEF SameAdapter, Writers
<1>2. shut \in Strings /\ mark \in Strings
  BY TextAssumption, TagsTyped DEF Strings
<1> HIDE DEF shut, mark
<1>3. /\ Plain(Said(w.out, shut, t)) = Plain(Said(v.out, shut, u))
      /\ Plain(Said(w.out, mark, t)) = Plain(Said(v.out, mark, u))
  BY <1>1, <1>2, SaidSame
<1>4. t = << >> <=> u = << >>
  BY PlainNone
<1>5. SameAdapter(Content(w, t), Content(v, u))
  <2>1. CASE t = << >>
    BY <1>4, <2>1 DEF Content
  <2>2. CASE t # << >>
    <3> DEFINE x == Content(w, t)
               y == Content(v, u)
    <3>1. /\ x.open = FALSE /\ x.out = Said(w.out, shut, t) /\ x.calls = w.calls /\ x.parser = w.parser
          /\ y.open = FALSE /\ y.out = Said(v.out, shut, u) /\ y.calls = v.calls /\ y.parser = v.parser
      BY <1>1, <1>4, <2>2 DEF Content, Writers, shut, Said
    <3> HIDE DEF x, y
    <3>2. SameAdapter(x, y)
      BY <1>1, <1>3, <3>1 DEF SameAdapter
    <3> QED
      BY <3>2 DEF x, y
  <2> QED
    BY <2>1, <2>2
<1>6. SameAdapter(Reasoning(w, t), Reasoning(v, u))
  <2> DEFINE x == Reasoning(w, t)
             y == Reasoning(v, u)
  <2>1. /\ x.open = TRUE /\ x.out = Said(w.out, mark, t) /\ x.calls = w.calls /\ x.parser = w.parser
        /\ y.open = TRUE /\ y.out = Said(v.out, mark, u) /\ y.calls = v.calls /\ y.parser = v.parser
    BY <1>1 DEF Reasoning, Writers, mark, Said
  <2> HIDE DEF x, y
  <2>2. SameAdapter(x, y)
    BY <1>1, <1>3, <2>1 DEF SameAdapter
  <2> QED
    BY <2>2 DEF x, y
<1> QED
  BY <1>5, <1>6

LEMMA SameEvent ==
  ASSUME NEW w \in Writers, NEW v \in Writers, SameAdapter(w, v),
         NEW t \in Strings, NEW u \in Strings, Plain(t) = Plain(u), NEW calls \in Seq(Strings)
  PROVE  SameAdapter(Event(w, t, calls), Event(v, u, calls))
<1>1. CASE ~toolsOn
  <2>1. CallsAsText(calls) \in Strings
    BY CallsAsTextTyped
  <2>2. SameAdapter(Content(w, t), Content(v, u)) /\ Content(w, t) \in Writers /\ Content(v, u) \in Writers
    BY SameContent, ContentTyped
  <2>3. SameAdapter(Content(Content(w, t), CallsAsText(calls)), Content(Content(v, u), CallsAsText(calls)))
    BY <2>1, <2>2, SameContent
  <2> QED
    BY <1>1, <2>3 DEF Event
<1>2. CASE toolsOn
  <2> DEFINE p == Push(w.parser, t)
             q == Push(v.parser, u)
  <2>1. /\ p \in Parsers /\ q \in Parsers /\ w.parser \in Parsers /\ v.parser \in Parsers
        /\ PlainParser(w.parser) = PlainParser(v.parser)
    BY PushTyped DEF Writers, SameAdapter
  <2>2. PlainParser(p) = PlainParser(q)
    <3>1. /\ Push(PlainParser(w.parser), Plain(t)) = PlainParser(p)
          /\ Push(PlainParser(v.parser), Plain(u)) = PlainParser(q)
      BY <2>1, PlainPush
    <3> QED
      BY <2>1, <3>1
  <2> HIDE DEF p, q
  <2>3. /\ Plain(p.out) = Plain(q.out) /\ PlainCalls(p.calls) = PlainCalls(q.calls)
        /\ p.out \in Strings /\ q.out \in Strings /\ p.calls \in Seq(Strings) /\ q.calls \in Seq(Strings)
    BY <2>1, <2>2 DEF PlainParser, Parsers
  <2> DEFINE x == Content(w, p.out)
             y == Content(v, q.out)
  <2>4. x \in Writers /\ y \in Writers /\ SameAdapter(x, y)
    BY <2>3, SameContent, ContentTyped
  <2>5. /\ Event(w, t, calls) = [x EXCEPT !.parser = p, !.calls = (x.calls \o p.calls) \o calls]
        /\ Event(v, u, calls) = [y EXCEPT !.parser = q, !.calls = (y.calls \o q.calls) \o calls]
    BY <1>2 DEF Event, p, q
  <2> HIDE DEF x, y
  <2>6. PlainCalls((x.calls \o p.calls) \o calls) = PlainCalls((y.calls \o q.calls) \o calls)
    <3> DEFINE a == x.calls
               b == y.calls
               c == a \o p.calls
               d == b \o q.calls
    <3>1. a \in Seq(Strings) /\ b \in Seq(Strings) /\ PlainCalls(a) = PlainCalls(b)
      BY <2>4 DEF Writers, SameAdapter
    <3> HIDE DEF a, b
    <3>2. c \in Seq(Strings) /\ d \in Seq(Strings)
      BY <2>3, <3>1, ConcatProperties
    <3>3. PlainCalls(c) = PlainCalls(a) \o PlainCalls(p.calls) /\ PlainCalls(d) = PlainCalls(b) \o PlainCalls(q.calls)
      BY <2>3, <3>1, PlainCallsJoin
    <3> HIDE DEF c, d
    <3>4. /\ PlainCalls(c \o calls) = PlainCalls(c) \o PlainCalls(calls)
          /\ PlainCalls(d \o calls) = PlainCalls(d) \o PlainCalls(calls)
      BY <3>2, PlainCallsJoin
    <3>5. PlainCalls(c \o calls) = PlainCalls(d \o calls)
      BY <2>3, <3>1, <3>3, <3>4
    <3> QED
      BY <3>5 DEF a, b, c, d
  <2> DEFINE m == (x.calls \o p.calls) \o calls
             n == (y.calls \o q.calls) \o calls
             g == [x EXCEPT !.parser = p, !.calls = m]
             h == [y EXCEPT !.parser = q, !.calls = n]
  <2> HIDE DEF m, n
  <2>7. /\ g.parser = p /\ g.calls = m /\ g.open = x.open /\ g.out = x.out
        /\ h.parser = q /\ h.calls = n /\ h.open = y.open /\ h.out = y.out
    BY <2>4 DEF Writers
  <2> HIDE DEF g, h
  <2>8. PlainCalls(m) = PlainCalls(n)
    BY <2>6 DEF m, n
  <2>9. SameAdapter(g, h)
    BY <2>2, <2>4, <2>7, <2>8 DEF SameAdapter
  <2> QED
    BY <2>5, <2>9 DEF g, h, m, n
<1> QED
  BY <1>1, <1>2

\* What an event does to both.
LEMMA EmittedSame ==
  ASSUME TextTyped, Alike, NEW p \in Parsers, Emitted(p)
  PROVE  streamed' \in Writers /\ blocking' \in Writers /\ Alike'
<1>1. /\ streamed \in Writers /\ blocking \in Writers /\ SameAdapter(streamed, blocking)
      /\ p.out \in Strings /\ p.calls \in Seq(Strings)
  BY DEF TextTyped, Alike, Parsers
<1>2. Rewrite(p.out) \in Strings /\ Plain(Rewrite(p.out)) = Plain(p.out)
  BY <1>1, RewritePlain
<1>3. streamed' = Event(streamed, Rewrite(p.out), p.calls) /\ blocking' = Event(blocking, p.out, p.calls)
  BY DEF Emitted
<1>4. streamed' \in Writers /\ blocking' \in Writers
  BY <1>1, <1>2, <1>3, EventTyped
<1>5. SameAdapter(Event(streamed, Rewrite(p.out), p.calls), Event(blocking, p.out, p.calls))
  BY <1>1, <1>2, SameEvent
<1>6. SameAdapter(streamed', blocking')
  BY <1>3, <1>5
<1> QED
  BY <1>4, <1>6 DEF Alike

LEMMA ThoughtSame ==
  ASSUME TextTyped, Alike, NEW chunk \in Strings, Thought(chunk)
  PROVE  streamed' \in Writers /\ blocking' \in Writers /\ Alike'
<1>1. streamed \in Writers /\ blocking \in Writers /\ SameAdapter(streamed, blocking)
  BY DEF TextTyped, Alike
<1>2. streamed' = Reasoning(streamed, chunk) /\ blocking' = Reasoning(blocking, chunk)
  BY DEF Thought
<1>3. streamed' \in Writers /\ blocking' \in Writers /\ SameAdapter(streamed', blocking')
  BY <1>1, <1>2, ContentTyped, SameContent
<1> QED
  BY <1>3 DEF Alike

LEMMA TextInitInv == TextInit => TextInv
<1> SUFFICES ASSUME TextInit PROVE TextInv
  OBVIOUS
<1>1. kind \in Kinds /\ kind \in ParserKinds /\ text \in Strings /\ toolsOn \in BOOLEAN
      /\ rewrites \in BOOLEAN /\ pos = 0 /\ parser = Parser /\ streamed = Writer /\ blocking = Writer
  BY TextAssumption DEF TextInit, ParserKinds, Strings
<1>2. TextTyped
  BY <1>1, LenTyped, ParserTyped DEF TextTyped
<1>3. ASSUME kind \in {"drop", "tool"} PROVE parser = Feed(kind, Parser, SubSeq(text, 1, pos))
  <2>1. SubSeq(text, 1, pos) = << >>
    BY <1>1, SubSeqEmpty
  <2>2. Feed(kind, Parser, << >>) = Parser
    BY <1>1, TagsTyped, ParserTyped, FeedOfParser, FinalOfNone
  <2> QED
    BY <1>1, <2>1, <2>2
<1> QED
  BY <1>1, <1>2, <1>3 DEF TextInv, Uncuts, Alike, SameAdapter

LEMMA ArrivesInv ==
  ASSUME TextInv, NEW n \in 1..Len(text), Arrives(n)
  PROVE  TextInv'
<1> DEFINE chunk == SubSeq(text, pos + 1, pos + n)
           p == Push(parser, chunk)
<1>1. /\ kind \in Kinds /\ kind \in ParserKinds /\ text \in Strings /\ toolsOn \in BOOLEAN
      /\ pos \in Nat /\ Len(text) \in Nat /\ n \in Nat \ {0} /\ pos + n <= Len(text)
      /\ parser \in Parsers /\ streamed \in Writers /\ blocking \in Writers /\ rewrites \in BOOLEAN
      /\ kind' = kind /\ text' = text /\ toolsOn' = toolsOn /\ pos' = pos + n
      /\ rewrites' = rewrites
  BY LenTyped DEF TextInv, TextTyped, Alike, Arrives
<1>2. pos' \in 0..(Len(text) + 1) /\ pos' <= Len(text)
  BY <1>1
<1>3. chunk \in Strings
  <2>1. pos + 1 \in 1..(Len(text) + 1) /\ pos + n \in ((pos + 1) - 1)..Len(text)
    BY <1>1
  <2> QED
    BY <1>1, <2>1, PieceOf
<1>4. p \in Parsers /\ p.out \in Strings /\ p.calls \in Seq(Strings)
  <2>1. p \in Parsers
    BY <1>1, <1>3, PushTyped
  <2> QED
    BY <2>1 DEF Parsers
<1>5. CASE kind # "answer"
  <2>1. parser' = Feed(kind, parser, chunk) /\ streamed' = streamed /\ blocking' = blocking
    BY <1>5 DEF Arrives
  <2>2. parser' \in Parsers
    BY <1>1, <1>3, <2>1, FeedTyped
  <2>3. ASSUME kind \in {"drop", "tool"} PROVE parser' = Feed(kind, Parser, SubSeq(text, 1, pos + n))
    <3> DEFINE d == SubSeq(text, 1, pos)
    <3>1. parser = Feed(kind, Parser, d)
      BY <2>3 DEF TextInv, Uncuts
    <3>2. d \in Strings
      <4>1. 1 \in 1..(Len(text) + 1) /\ pos \in (1 - 1)..Len(text)
        BY <1>1
      <4> QED
        BY <1>1, <4>1, PieceOf
    <3>3. d \o chunk = SubSeq(text, 1, pos + n)
      <4>1. 1 \in 1..(Len(text) + 1) /\ pos \in (1 - 1)..Len(text) /\ pos + n \in pos..Len(text)
        BY <1>1
      <4>2. text \in Seq(Symbols)
        BY <1>1 DEF Strings
      <4> QED
        BY <4>1, <4>2, ConcatAdjacentSubSeq
    <3> HIDE DEF d, chunk
    <3>4. Feed(kind, Feed(kind, Parser, d), chunk) = Feed(kind, Parser, d \o chunk)
      BY <1>3, <2>3, <3>2, FeedCut
    <3> QED
      BY <2>1, <3>1, <3>3, <3>4
  <2> QED
    BY <1>1, <1>2, <2>1, <2>2, <2>3 DEF TextInv, TextTyped, Uncuts, Alike
<1>6. CASE kind = "answer"
  <2>1. /\ Thinks(chunk) => parser' = parser /\ Thought(chunk)
        /\ ~Thinks(chunk) => parser' = p /\ Emitted(p)
    BY <1>6 DEF Arrives
  <2> HIDE DEF p, chunk
  <2>2. TextTyped /\ Alike
    BY DEF TextInv
  <2>3. parser' \in Parsers /\ streamed' \in Writers /\ blocking' \in Writers /\ Alike'
    <3>1. CASE Thinks(chunk)
      BY <1>1, <1>3, <2>1, <2>2, <3>1, ThoughtSame
    <3>2. CASE ~Thinks(chunk)
      BY <1>4, <2>1, <2>2, <3>2, EmittedSame
    <3> QED
      BY <3>1, <3>2
  <2> QED
    BY <1>1, <1>2, <1>6, <2>3 DEF TextInv, TextTyped, Uncuts
<1> QED
  BY <1>5, <1>6

LEMMA EndsInv ==
  ASSUME TextInv, Ends
  PROVE  TextInv'
<1> DEFINE p == ToolFlush(Fresh(parser))
<1>1. /\ kind \in Kinds /\ kind \in ParserKinds /\ text \in Strings /\ toolsOn \in BOOLEAN
      /\ kind = "answer" /\ pos = Len(text) /\ pos' = pos + 1 /\ Len(text) \in Nat
      /\ parser \in Parsers /\ rewrites \in BOOLEAN
      /\ kind' = kind /\ text' = text /\ toolsOn' = toolsOn /\ parser' = parser
      /\ rewrites' = rewrites /\ Emitted(p)
  BY LenTyped DEF TextInv, TextTyped, Ends
<1>2. p \in Parsers
  <2>1. Fresh(parser) \in Parsers
    BY <1>1, TagsTyped, EmptySeq DEF Fresh, Parsers
  <2> QED
    BY <2>1, ToolFlushTyped
<1> HIDE DEF p
<1>3. streamed' \in Writers /\ blocking' \in Writers /\ Alike'
  BY <1>1, <1>2, EmittedSame DEF TextInv
<1> QED
  BY <1>1, <1>3 DEF TextInv, TextTyped, Uncuts

LEMMA TextStepInv == TextInv /\ [TextNext]_textVars => TextInv'
<1> SUFFICES ASSUME TextInv, [TextNext]_textVars PROVE TextInv'
  OBVIOUS
<1>1. CASE Ends
  BY <1>1, EndsInv
<1>2. ASSUME NEW n \in 1..Len(text), Arrives(n) PROVE TextInv'
  BY <1>2, ArrivesInv
<1>3. CASE UNCHANGED textVars
  BY <1>3 DEF textVars, TextInv, TextTyped, Uncuts, Alike, SameAdapter, PlainParser, Plain, PlainCalls
<1> QED
  BY <1>1, <1>2, <1>3 DEF TextNext

LEMMA TextAlways == TextSpec => []TextInv
BY TextInitInv, TextStepInv, PTL DEF TextSpec

(* However a stream is cut, the parsers that drop tags and that collect tool *)
(* calls make of any text what they make of it in one piece.                 *)
THEOREM TextSplitIndependent == TextSpec => []SplitIndependent
<1>1. TextInv => SplitIndependent
  <2> SUFFICES ASSUME TextInv, pos = Len(text), kind \in {"drop", "tool"}
               PROVE  Flush(kind, parser) = Uncut(kind)
    BY DEF SplitIndependent
  <2>1. parser = Feed(kind, Parser, SubSeq(text, 1, Len(text)))
    BY DEF TextInv, Uncuts
  <2>2. SubSeq(text, 1, Len(text)) = text
    BY SubSeqFull DEF TextInv, TextTyped, Strings
  <2> QED
    BY <2>1, <2>2 DEF Uncut
<1> QED
  BY <1>1, TextAlways, PTL

-----------------------------------------------------------------------------
(* The end of an answer. *)

LEMMA PrefixOfJoin ==
  ASSUME NEW a \in Strings, NEW b \in Strings
  PROVE  IsPrefix(a, a) /\ IsPrefix(a, a \o b)
<1>1. Len(a) \in Nat /\ Len(b) \in Nat /\ Len(a \o b) = Len(a) + Len(b)
  BY JoinOf
<1>2. 1 \in 1..(Len(a) + 1) /\ Len(a) \in (1 - 1)..Len(a)
  BY <1>1
<1>3. SubSeq(a \o b, 1, Len(a)) = SubSeq(a, 1, Len(a))
  BY <1>2, PieceOfFirst
<1> QED
  BY <1>1, <1>3 DEF IsPrefix

LEMMA BuildSays ==
  ASSUME NEW w \in Writers, toolsOn \in BOOLEAN
  PROVE  /\ IsPrefix(FinishChunks(w).out, Build(w).out)
         /\ ~Holds(w) => /\ FinishChunks(w).out = Build(w).out
                         /\ w.calls = Build(w).calls
<1> DEFINE mark == IF w.open THEN <<")">> ELSE << >>
           o == w.out \o mark
<1>1. /\ w.out \in Strings /\ w.calls \in Seq(Strings) /\ w.parser \in Parsers /\ mark \in Strings
      /\ w.open \in BOOLEAN /\ w.calls \o << >> = w.calls
  BY TextAssumption, TagsTyped, ConcatEmptySeq DEF Writers, Strings
<1>2. o \in Strings
  BY <1>1, JoinTyped
<1>3. FinishChunks(w).out = o /\ Finalize(w).out = o /\ Finalize(w).calls = w.calls
  BY DEF FinishChunks, Finalize, Writers
<1> HIDE DEF o
<1>4. CASE ~toolsOn
  <2>1. Build(w) = Finalize(w)
    BY <1>4 DEF Build
  <2> QED
    BY <1>2, <1>3, <2>1, PrefixOfJoin
<1>5. CASE toolsOn
  <2> DEFINE p == ToolFlush(Fresh(w.parser))
             v == [Content(w, p.out) EXCEPT !.calls = @ \o p.calls]
  <2>1. p \in Parsers
    BY <1>1, PushTyped, TagsTyped, ToolFlushTyped
  <2>2. p.out \in Strings /\ p.calls \in Seq(Strings)
    BY <2>1 DEF Parsers
  <2>3. Build(w) = Finalize(v)
    BY <1>5 DEF Build
  <2>4. Holds(w) \/ (p.out = << >> /\ p.calls = << >>)
    <3> SUFFICES ASSUME ~Holds(w) PROVE p.out = << >> /\ p.calls = << >>
      OBVIOUS
    <3> DEFINE q == Fresh(w.parser)
    <3>1. ~q.inside /\ q.partial = << >> /\ q.out = << >> /\ q.calls = << >>
      BY <1>1, <1>5 DEF Holds, Fresh, Parsers
    <3> HIDE DEF q
    <3>2. ToolFlush(q).out = q.out \o q.partial /\ ToolFlush(q).calls = q.calls
      BY <3>1 DEF ToolFlush, Parser
    <3>3. << >> \o << >> = << >>
      BY TagsTyped, ConcatEmptySeq DEF Strings
    <3> QED
      BY <3>1, <3>2, <3>3 DEF q
  <2> HIDE DEF p
  <2>5. CASE p.out = << >>
    <3>1. Content(w, p.out) = w
      BY <2>5 DEF Content
    <3>2. Finalize(v).out = o /\ Finalize(v).calls = w.calls \o p.calls
      BY <3>1 DEF Finalize, Writers, o
    <3> QED
      BY <1>1, <1>2, <1>3, <2>3, <2>4, <3>2, PrefixOfJoin
  <2>6. CASE p.out # << >>
    <3>1. Content(w, p.out) = [w EXCEPT !.out = o \o p.out, !.open = FALSE]
      BY <2>6 DEF Content, o
    <3>2. v.out = o \o p.out /\ v.open = FALSE
      BY <3>1 DEF Writers
    <3>3. Finalize(v).out = (o \o p.out) \o << >>
      <4>1. "out" \in DOMAIN v /\ "open" \in DOMAIN v
        BY <3>1 DEF Writers
      <4> HIDE DEF v
      <4> QED
        BY <3>2, <4>1 DEF Finalize
    <3>4. (o \o p.out) \o << >> = o \o p.out
      <4> DEFINE x == o \o p.out
      <4>1. x \in Seq(Symbols)
        BY <1>2, <2>2, JoinTyped DEF Strings
      <4> HIDE DEF x
      <4>2. x \o << >> = x
        BY <4>1, ConcatEmptySeq
      <4> QED
        BY <4>2 DEF x
    <3>5. IsPrefix(o, o \o p.out)
      BY <1>2, <2>2, PrefixOfJoin
    <3> QED
      BY <1>3, <2>3, <2>4, <2>6, <3>3, <3>4, <3>5
  <2> QED
    BY <2>5, <2>6
<1> QED
  BY <1>4, <1>5

\* A prefix is one of the plain texts, too.
LEMMA PlainPrefix ==
  ASSUME NEW a \in Strings, NEW b \in Strings, IsPrefix(a, b)
  PROVE  IsPrefix(Plain(a), Plain(b))
<1>1. Len(a) <= Len(b) /\ SubSeq(a, 1, Len(a)) = SubSeq(b, 1, Len(a)) /\ Len(a) \in Nat /\ Len(b) \in Nat
  BY LenTyped DEF IsPrefix
<1>2. Len(Plain(a)) = Len(a) /\ Len(Plain(b)) = Len(b)
  BY PlainOf
<1>3. 1 \in 1..(Len(a) + 1) /\ Len(a) \in (1 - 1)..Len(a) /\ 1 \in 1..(Len(b) + 1) /\ Len(a) \in (1 - 1)..Len(b)
  BY <1>1
<1>4. /\ SubSeq(Plain(a), 1, Len(a)) = Plain(SubSeq(a, 1, Len(a)))
      /\ SubSeq(Plain(b), 1, Len(a)) = Plain(SubSeq(b, 1, Len(a)))
  BY <1>3, PlainPiece
<1> QED
  BY <1>1, <1>2, <1>4 DEF IsPrefix

LEMMA BuildTyped ==
  ASSUME NEW w \in Writers
  PROVE  FinishChunks(w) \in Writers /\ Build(w) \in Writers
<1>1. ASSUME NEW v \in Writers PROVE Finalize(v) \in Writers
  <2>1. <<")">> \in Strings
    BY TextAssumption DEF Strings
  <2>2. v.out \o (IF v.open THEN <<")">> ELSE << >>) \in Strings
    BY <2>1, TagsTyped, JoinTyped DEF Writers
  <2> QED
    BY <2>2 DEF Finalize, Writers
<1>2. FinishChunks(w) = Finalize(w)
  BY DEF FinishChunks, Finalize
<1> DEFINE p == ToolFlush(Fresh(w.parser))
           c == Content(w, p.out)
           v == [c EXCEPT !.calls = @ \o p.calls]
<1>3. p \in Parsers
  BY PushTyped, TagsTyped, ToolFlushTyped DEF Writers
<1> HIDE DEF p
<1>4. c \in Writers /\ p.calls \in Seq(Strings)
  BY <1>3, ContentTyped DEF Parsers
<1> HIDE DEF c
<1>5. c.calls \o p.calls \in Seq(Strings)
  <2>1. c.calls \in Seq(Strings)
    BY <1>4 DEF Writers
  <2> QED
    BY <1>4, <2>1, ConcatProperties
<1>6. v \in Writers
  BY <1>4, <1>5 DEF Writers
<1>7. Build(w) = Finalize(IF toolsOn THEN v ELSE w)
  BY DEF Build, v, c, p
<1> HIDE DEF v
<1> QED
  BY <1>1, <1>2, <1>6, <1>7

(* However an answer is cut, with or without tools, streaming says what the *)
(* blocking collector says and makes the same calls, up to links that are   *)
(* rewritten in one of them, event by event, and not in the other, as a     *)
(* whole; only what an unfinished tag holds back is missing.                *)
THEOREM TextStreamSameWords == TextSpec => []SameWords
<1>1. TextInv => SameWords
  <2> SUFFICES ASSUME TextInv PROVE SameWords
    OBVIOUS
  <2> DEFINE b == Build(blocking)
             f == FinishChunks(blocking)
             s == FinishChunks(streamed)
  <2>1. /\ SameAdapter(streamed, blocking) /\ streamed \in Writers /\ blocking \in Writers
        /\ toolsOn \in BOOLEAN
    BY DEF TextInv, TextTyped, Alike
  <2>2. s \in Writers /\ f \in Writers /\ b \in Writers
    BY <2>1, BuildTyped
  <2>3. Plain(s.out) = Plain(f.out) /\ s.calls = streamed.calls /\ f.calls = blocking.calls
    <3> DEFINE mark == IF blocking.open THEN <<")">> ELSE << >>
    <3>1. /\ streamed.open = blocking.open /\ Plain(streamed.out) = Plain(blocking.out)
          /\ streamed.out \in Strings /\ blocking.out \in Strings
      BY <2>1 DEF SameAdapter, Writers
    <3>2. mark \in Strings
      BY TextAssumption, TagsTyped DEF Strings
    <3>3. s.out = streamed.out \o mark /\ f.out = blocking.out \o mark
          /\ s.calls = streamed.calls /\ f.calls = blocking.calls
      BY <2>1, <3>1 DEF FinishChunks, Writers
    <3> HIDE DEF mark, s, f
    <3> DEFINE x == streamed.out
               y == blocking.out
    <3>4. x \in Strings /\ y \in Strings /\ Plain(x) = Plain(y)
      BY <3>1
    <3> HIDE DEF x, y
    <3>5. Plain(x \o mark) = Plain(y \o mark)
      <4>1. Plain(x \o mark) = Plain(x) \o Plain(mark) /\ Plain(y \o mark) = Plain(y) \o Plain(mark)
        BY <3>2, <3>4, PlainJoin
      <4> QED
        BY <3>4, <4>1
    <3> QED
      BY <3>3, <3>5 DEF x, y
  <2>4. /\ IsPrefix(f.out, b.out)
        /\ ~Holds(blocking) => f.out = b.out /\ blocking.calls = b.calls
    BY <2>1, BuildSays
  <2>5. Holds(streamed) <=> Holds(blocking)
    <3> DEFINE x == streamed.parser
               y == blocking.parser
    <3>1. PlainParser(x) = PlainParser(y) /\ x \in Parsers /\ y \in Parsers
      BY <2>1 DEF SameAdapter, Writers
    <3> HIDE DEF x, y
    <3>2. x.inside = y.inside /\ Plain(x.partial) = Plain(y.partial)
          /\ x.partial \in Strings /\ y.partial \in Strings
      BY <3>1 DEF PlainParser, Parsers
    <3>3. x.partial = << >> <=> y.partial = << >>
      BY <3>2, PlainNone
    <3> QED
      BY <3>2, <3>3 DEF Holds, x, y
  <2>6. Blocking.calls = b.calls /\ Plain(Blocking.out) = Plain(b.out)
    <3> HIDE DEF b
    <3>1. Blocking = [b EXCEPT !.out = Rewrite(b.out)]
      BY DEF Blocking, b
    <3>2. Blocking.calls = b.calls /\ Blocking.out = Rewrite(b.out) /\ b.out \in Strings
      BY <2>2, <3>1 DEF Writers
    <3> QED
      BY <3>2, RewritePlain
  <2> HIDE DEF b, f, s
  <2>7. b.out \in Strings /\ f.out \in Strings
    BY <2>2 DEF Writers
  <2>8. IsPrefix(Plain(f.out), Plain(b.out))
    BY <2>4, <2>7, PlainPrefix
  <2>9. PlainCalls(streamed.calls) = PlainCalls(blocking.calls)
    BY <2>1 DEF SameAdapter
  <2>10. Streamed = s
    BY DEF Streamed, s
  <2> QED
    BY <2>3, <2>4, <2>5, <2>6, <2>8, <2>9, <2>10 DEF SameWords
<1> QED
  BY <1>1, TextAlways, PTL
=============================================================================
