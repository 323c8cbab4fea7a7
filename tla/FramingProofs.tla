--------------------------- MODULE FramingProofs ---------------------------
(***************************************************************************)
(* What one side writes is what the other one reads: facts about the bytes *)
(* of Framing, and about bytes that are read from the front of a stream    *)
(* while frames are written to its end.                                    *)
(***************************************************************************)
EXTENDS Framing, SetSums, SequenceTheorems

Byte == 0 .. 255

-----------------------------------------------------------------------------
(* The front of a stream *)

\* x, with y behind it, is u, with v behind it
Begins(x, y, u, v) == x \o y = u \o v

\* x is all that has arrived of a stream that begins with u: u is what a reader takes
LEMMA FrontOf ==
  ASSUME NEW T, NEW x \in Seq(T), NEW y \in Seq(T), NEW u \in Seq(T), NEW v \in Seq(T),
         Begins(x, y, u, v), Len(u) <= Len(x)
  PROVE  /\ SubSeq(x, 1, Len(u)) = u
         /\ SubSeq(x, Len(u) + 1, Len(x)) \in Seq(T)
         /\ SubSeq(x, Len(u) + 1, Len(x)) \o y = v
<1> USE DEF Begins
<1> DEFINE m == Len(u)
           n == Len(x)
           r == SubSeq(x, m + 1, n)
<1>1. m \in Nat /\ n \in Nat /\ m <= n
  BY LenProperties
<1>2. \A i \in 1 .. n : x[i] = (x \o y)[i]
  BY ConcatProperties
<1>3. \A i \in 1 .. m : u[i] = (u \o v)[i]
  BY ConcatProperties
<1>4. SubSeq(x, 1, m) \in Seq(T) /\ Len(SubSeq(x, 1, m)) = m
      /\ \A i \in 1 .. m : SubSeq(x, 1, m)[i] = x[i]
  BY <1>1, SubSeqProperties, LenProperties
<1>5. SubSeq(x, 1, m) = u
  BY <1>1, <1>2, <1>3, <1>4, SeqEqual
<1>6. r \in Seq(T)
  BY <1>1, SubSeqProperties, LenProperties
<1>7. SubSeq(x, 1, m) \o r = x
  <2>1. 1 \in 1 .. n + 1 /\ m \in 1 - 1 .. n /\ n \in m .. n
    BY <1>1
  <2>2. SubSeq(x, 1, m) \o r = SubSeq(x, 1, n)
    BY <2>1, ConcatAdjacentSubSeq
  <2> QED  BY <2>2, SubSeqFull
<1>8. u \o (r \o y) = u \o v
  <2>1. u \o r = x
    BY <1>5, <1>7
  <2>2. (u \o r) \o y = u \o (r \o y)
    <3> HIDE DEF r, m, n
    <3> QED  BY <1>6
  <2> QED  BY <2>1, <2>2
<1>9. r \o y = v
  <2>1. r \o y \in Seq(T)
    BY <1>6, ConcatProperties
  <2> HIDE DEF r
  <2> QED  BY <1>8, <2>1, ConcatSimplifications
<1> QED  BY <1>5, <1>6, <1>9

\* the two pieces of a sequence
LEMMA Behind ==
  ASSUME NEW T, NEW u \in Seq(T), NEW v \in Seq(T)
  PROVE  /\ u \o v \in Seq(T)
         /\ Len(u \o v) = Len(u) + Len(v)
         /\ SubSeq(u \o v, 1, Len(u)) = u
         /\ SubSeq(u \o v, Len(u) + 1, Len(u \o v)) = v
<1> DEFINE w == u \o v
           r == SubSeq(w, Len(u) + 1, Len(w))
<1>1. w \in Seq(T) /\ Len(w) = Len(u) + Len(v) /\ Len(u) \in Nat /\ Len(v) \in Nat
  BY ConcatProperties, LenProperties
<1>2. w \o <<>> = u \o v /\ <<>> \in Seq(T) /\ Len(u) <= Len(w)
  BY <1>1, ConcatEmptySeq, EmptySeq
<1> HIDE DEF w
<1>3. SubSeq(w, 1, Len(u)) = u /\ r \in Seq(T) /\ r \o <<>> = v
  BY <1>1, <1>2, FrontOf
<1>4. r = v
  BY <1>3, ConcatEmptySeq
<1> QED  BY <1>1, <1>3, <1>4 DEF w

\* where the first b is
IndexOf(x, b) == SelectInSeq(x, LAMBDA e : e = b)

\* the first b of a stream is the one behind u, where u has none
LEMMA FirstOf ==
  ASSUME NEW T, NEW x \in Seq(T), NEW y \in Seq(T), NEW u \in Seq(T), NEW v \in Seq(T),
         NEW b \in T, Begins(x, y, u \o <<b>>, v), ~Contains(u, b), Contains(x, b)
  PROVE  /\ Len(u) + 1 <= Len(x)
         /\ IndexOf(x, b) = Len(u) + 1
<1> USE DEF Begins
<1> DEFINE m == Len(u)
           n == Len(x)
           w == u \o <<b>>
           I == {i \in 1 .. n : x[i] = b}
<1>1. m \in Nat /\ n \in Nat /\ w \in Seq(T) /\ Len(w) = m + 1
  BY ConcatProperties
<1>2. (\A i \in 1 .. m : w[i] = u[i]) /\ w[m + 1] = b
  BY ConcatProperties
<1>3. \A i \in 1 .. n : x[i] = (x \o y)[i]
  BY ConcatProperties
<1>4. \A i \in 1 .. m + 1 : w[i] = (w \o v)[i]
  BY <1>1, ConcatProperties
<1>5. \A i \in 1 .. n : i <= m => x[i] = u[i]
  BY <1>1, <1>2, <1>3, <1>4
<1>6. \A i \in I : i >= m + 1
  BY <1>1, <1>5 DEF Contains
<1>7. I # {}
  BY DEF Contains
<1>8. m + 1 <= n
  BY <1>1, <1>6, <1>7
<1>9. m + 1 \in I
  BY <1>1, <1>2, <1>3, <1>4, <1>8
<1>10. Min(I) = m + 1
  BY <1>1, <1>6, <1>9 DEF Min
<1>11. IndexOf(x, b) = Min(I)
  BY <1>7 DEF IndexOf, SelectInSeq
<1> QED  BY <1>8, <1>10, <1>11

\* what is lost of a stream is its end
LEMMA PrefixOf ==
  ASSUME NEW T, NEW s \in Seq(T), NEW p \in Prefixes(s)
  PROVE  p \in Seq(T) /\ \E q \in Seq(T) : s = p \o q
<1>1. PICK l \in 0 .. Len(s) : p = SubSeq(s, 1, l)
  BY DEF Prefixes
<1> DEFINE q == SubSeq(s, l + 1, Len(s))
<1>2. p \in Seq(T) /\ q \in Seq(T)
  BY <1>1, SubSeqProperties, LenProperties
<1>3. p \o q = s
  <2>1. Len(s) \in Nat /\ 1 \in 1 .. Len(s) + 1 /\ l \in 1 - 1 .. Len(s) /\ Len(s) \in l .. Len(s)
    BY LenProperties
  <2>2. SubSeq(s, 1, l) \o q = SubSeq(s, 1, Len(s))
    BY <2>1, ConcatAdjacentSubSeq
  <2> QED  BY <1>1, <2>2, SubSeqFull
<1> QED  BY <1>2, <1>3

-----------------------------------------------------------------------------
(* Frames one after another *)

\* s is the frames of f behind the m-th, up to the n-th
Joined(s, f, m, n) ==
  \E rest \in [m .. n -> Seq(Byte)] :
    /\ rest[m] = s
    /\ rest[n] = <<>>
    /\ \A i \in m .. n - 1 : rest[i] = f[i + 1] \o rest[i + 1]

\* nothing is no frame
LEMMA JoinedNone ==
  ASSUME NEW f, NEW n \in Nat
  PROVE  Joined(<<>>, f, n, n) /\ \A s : Joined(s, f, n, n) => s = <<>>
<1> DEFINE rest == [i \in n .. n |-> <<>>]
<1>1. rest \in [n .. n -> Seq(Byte)] /\ rest[n] = <<>>
  OBVIOUS
<1>2. \A i \in n .. n - 1 : FALSE
  OBVIOUS
<1>3. Joined(<<>>, f, n, n)
  <2> HIDE DEF rest
  <2> QED  BY <1>1, <1>2 DEF Joined
<1> QED  BY <1>3 DEF Joined

\* sequences of bytes may be joined, in any order
LEMMA JoinType == \A u, v \in Seq(Byte) : u \o v \in Seq(Byte)
BY ConcatProperties

InAnyOrder(u, v, w) == (u \o v) \o w = u \o (v \o w)

\* ... as it makes no difference
LEMMA JoinOrder == \A u, v, w \in Seq(Byte) : InAnyOrder(u, v, w)
BY ConcatAssociative DEF InAnyOrder

\* a frame is written behind the others
LEMMA JoinedMore ==
  ASSUME NEW f, NEW g, NEW m \in Nat, NEW n \in Nat, m <= n, NEW s, NEW x \in Seq(Byte),
         \A i \in m + 1 .. n : f[i] \in Seq(Byte) /\ g[i] = f[i],
         g[n + 1] = x,
         Joined(s, f, m, n)
  PROVE  Joined(s \o x, g, m, n + 1)
<1>1. PICK rest \in [m .. n -> Seq(Byte)] :
        /\ rest[m] = s
        /\ rest[n] = <<>>
        /\ \A i \in m .. n - 1 : rest[i] = f[i + 1] \o rest[i + 1]
  BY DEF Joined
<1> DEFINE more == [i \in m .. n + 1 |-> IF i = n + 1 THEN <<>> ELSE rest[i] \o x]
<1>2. \A i \in m .. n : rest[i] \in Seq(Byte) /\ rest[i] \o x \in Seq(Byte)
  BY ConcatProperties
<1>3. more \in [m .. n + 1 -> Seq(Byte)]
  BY <1>2
<1>4. more[m] = s \o x /\ more[n + 1] = <<>> /\ more[n] = x
  BY <1>1, ConcatEmptySeq
<1>5. \A j \in m .. n : more[j] = rest[j] \o x
  <2> TAKE j \in m .. n
  <2>1. j \in m .. n + 1 /\ j # n + 1
    OBVIOUS
  <2> QED  BY <2>1
<1> HIDE DEF more
<1>6. ASSUME NEW i \in m .. n
      PROVE  more[i] = g[i + 1] \o more[i + 1]
  <2>1. CASE i = n
    <3>1. x \o <<>> = x
      BY ConcatEmptySeq
    <3> QED  BY <1>4, <2>1, <3>1
  <2>2. CASE i # n
    <3> DEFINE a == f[i + 1]
               b == rest[i + 1]
    <3>1. i \in m .. n - 1 /\ i + 1 \in m .. n /\ i + 1 \in m + 1 .. n /\ i + 1 # n + 1 /\ i # n + 1
      BY <2>2
    <3>2. more[i] = rest[i] \o x /\ more[i + 1] = b \o x
      BY <1>5, <3>1
    <3>3. rest[i] = a \o b
      BY <1>1, <3>1
    <3>4. a \in Seq(Byte) /\ b \in Seq(Byte) /\ g[i + 1] = a
      BY <1>2, <3>1
    <3>5. (a \o b) \o x = a \o (b \o x)
      <4> HIDE DEF a, b
      <4>1. InAnyOrder(a, b, x)
        BY <3>4, JoinOrder, Zenon
      <4> QED  BY <4>1 DEF InAnyOrder
    <3> QED  BY <3>2, <3>3, <3>4, <3>5
  <2> QED  BY <2>1, <2>2
<1>7. m .. (n + 1) - 1 = m .. n
  OBVIOUS
<1> QED  BY <1>3, <1>4, <1>6, <1>7 DEF Joined

\* the first of the frames comes first
LEMMA JoinedFirst ==
  ASSUME NEW f, NEW m \in Nat, NEW n \in Nat, m < n, NEW s, Joined(s, f, m, n)
  PROVE  \E t \in Seq(Byte) : s = f[m + 1] \o t /\ Joined(t, f, m + 1, n)
<1>1. PICK rest \in [m .. n -> Seq(Byte)] :
        /\ rest[m] = s
        /\ rest[n] = <<>>
        /\ \A i \in m .. n - 1 : rest[i] = f[i + 1] \o rest[i + 1]
  BY DEF Joined
<1> DEFINE less == [i \in m + 1 .. n |-> rest[i]]
<1>2. less \in [m + 1 .. n -> Seq(Byte)] /\ less[m + 1] = rest[m + 1] /\ less[n] = <<>>
  BY <1>1
<1>3. ASSUME NEW i \in m + 1 .. n - 1
      PROVE  less[i] = f[i + 1] \o less[i + 1]
  <2>1. i \in m .. n - 1 /\ i \in m + 1 .. n /\ i + 1 \in m + 1 .. n
    OBVIOUS
  <2> QED  BY <1>1, <2>1
<1>4. s = f[m + 1] \o rest[m + 1] /\ rest[m + 1] \in Seq(Byte)
  <2>1. m \in m .. n - 1 /\ m + 1 \in m .. n
    OBVIOUS
  <2> QED  BY <1>1, <2>1
<1>5. Joined(rest[m + 1], f, m + 1, n)
  <2> HIDE DEF less
  <2> QED  BY <1>2, <1>3 DEF Joined
<1> QED  BY <1>4, <1>5

-----------------------------------------------------------------------------
(* What FOLLOW makes of its text *)

\* the characters of a line
Letter == 1 .. 127

\* and of what is made of it
Ascii == 0 .. 127

\* f[i] is what is left of the first i characters of s, up to the n-th
KeptUpTo(f, s, n) ==
  /\ f \in [0 .. n -> Seq(Letter)]
  /\ f[0] = <<>>
  /\ \A i \in 0 .. n - 1 :
       f[i + 1] = IF s[i + 1] = Blank THEN f[i] ELSE Append(f[i], s[i + 1])

\* the loop comes to the end of its text
LEMMA KeptExists ==
  ASSUME NEW s \in Seq(Letter)
  PROVE  \A n \in Nat : n <= Len(s) => \E f : KeptUpTo(f, s, n)
<1> DEFINE P == {n \in Nat : n <= Len(s) => \E f : KeptUpTo(f, s, n)}
<1>1. 0 \in P
  <2> DEFINE f == [i \in 0 .. 0 |-> <<>>]
  <2>1. f \in [0 .. 0 -> Seq(Letter)] /\ f[0] = <<>> /\ 0 .. 0 - 1 = {}
    OBVIOUS
  <2>2. KeptUpTo(f, s, 0)
    <3> HIDE DEF f
    <3> QED  BY <2>1 DEF KeptUpTo
  <2> QED  BY <2>2
<1>2. ASSUME NEW n \in Nat, n \in P
      PROVE  n + 1 \in P
  <2>1. SUFFICES ASSUME n + 1 <= Len(s)
                 PROVE  \E f : KeptUpTo(f, s, n + 1)
    OBVIOUS
  <2>2. PICK f : KeptUpTo(f, s, n)
    BY <1>2, <2>1, LenProperties
  <2> DEFINE last == IF s[n + 1] = Blank THEN f[n] ELSE Append(f[n], s[n + 1])
             g == [i \in 0 .. n + 1 |-> IF i = n + 1 THEN last ELSE f[i]]
  <2>3. s[n + 1] \in Letter /\ f[n] \in Seq(Letter) /\ \A i \in 0 .. n : f[i] \in Seq(Letter)
    BY <2>1, <2>2, ElementOfSeq, LenProperties DEF KeptUpTo
  <2>4. last \in Seq(Letter)
    BY <2>3, AppendProperties
  <2> HIDE DEF last
  <2>5. g \in [0 .. n + 1 -> Seq(Letter)] /\ g[0] = <<>>
    BY <2>2, <2>3, <2>4 DEF KeptUpTo
  <2>6. ASSUME NEW i \in 0 .. n
        PROVE  g[i + 1] = IF s[i + 1] = Blank THEN g[i] ELSE Append(g[i], s[i + 1])
    <3>1. CASE i = n
      BY <3>1 DEF last
    <3>2. CASE i # n
      <4>1. i \in 0 .. n - 1 /\ g[i + 1] = f[i + 1] /\ g[i] = f[i]
        BY <3>2
      <4> QED  BY <2>2, <4>1 DEF KeptUpTo
    <3> QED  BY <3>1, <3>2
  <2>7. (n + 1) - 1 = n
    OBVIOUS
  <2>8. KeptUpTo(g, s, n + 1)
    <3> HIDE DEF g
    <3> QED  BY <2>5, <2>6, <2>7 DEF KeptUpTo
  <2> QED  BY <2>8
<1>3. Nat \subseteq P
  <2> HIDE DEF P
  <2> QED  BY <1>1, <1>2, Induction
<1> QED  BY <1>3

\* what the loop leaves is what its last turn leaves
LEMMA KeptIs ==
  ASSUME NEW s \in Seq(Letter)
  PROVE  \E f : KeptUpTo(f, s, Len(s)) /\ WithoutBlanks(s) = f[Len(s)]
<1> DEFINE n == Len(s)
           Turns(f) == [i \in 0 .. n |-> IF i = 0 THEN <<>>
                                         ELSE IF s[i] = Blank THEN f[i - 1]
                                              ELSE Append(f[i - 1], s[i])]
           kept == CHOOSE f : f = Turns(f)
<1>1. n \in Nat
  BY LenProperties
<1>2. PICK f : KeptUpTo(f, s, n)
  BY <1>1, KeptExists
<1>3. f = Turns(f)
  <2>1. DOMAIN f = 0 .. n /\ f = [i \in 0 .. n |-> f[i]]
    BY <1>2 DEF KeptUpTo
  <2>2. ASSUME NEW i \in 0 .. n
        PROVE  f[i] = Turns(f)[i]
    <3>1. CASE i = 0
      BY <1>2, <3>1 DEF KeptUpTo
    <3>2. CASE i # 0
      <4>1. i - 1 \in 0 .. n - 1 /\ (i - 1) + 1 = i
        BY <1>1, <3>2
      <4>2. f[i] = IF s[i] = Blank THEN f[i - 1] ELSE Append(f[i - 1], s[i])
        BY <1>2, <4>1 DEF KeptUpTo
      <4> QED  BY <3>2, <4>2
    <3> QED  BY <3>1, <3>2
  <2> QED  BY <2>1, <2>2
<1>4. kept = Turns(kept)
  <2> HIDE DEF Turns
  <2> QED  BY <1>3
<1>5. WithoutBlanks(s) = kept[n]
  BY DEF WithoutBlanks
<1> DEFINE P == {i \in Nat : i <= n => kept[i] = f[i]}
<1> HIDE DEF kept
<1>6. 0 \in P
  BY <1>1, <1>2, <1>4 DEF KeptUpTo
<1>7. ASSUME NEW i \in Nat, i \in P
      PROVE  i + 1 \in P
  <2>1. SUFFICES ASSUME i + 1 <= n
                 PROVE  kept[i + 1] = f[i + 1]
    OBVIOUS
  <2>2. kept[i] = f[i] /\ i \in 0 .. n - 1 /\ i + 1 \in 0 .. n /\ i + 1 # 0 /\ (i + 1) - 1 = i
    BY <1>1, <1>7, <2>1
  <2>3. kept[i + 1] = IF s[i + 1] = Blank THEN kept[i] ELSE Append(kept[i], s[i + 1])
    BY <1>4, <2>2
  <2>4. f[i + 1] = IF s[i + 1] = Blank THEN f[i] ELSE Append(f[i], s[i + 1])
    BY <1>2, <2>2 DEF KeptUpTo
  <2> QED  BY <2>2, <2>3, <2>4
<1>8. Nat \subseteq P
  <2> HIDE DEF P
  <2> QED  BY <1>6, <1>7, Induction
<1>9. kept[n] = f[n]
  BY <1>1, <1>8
<1> QED  BY <1>2, <1>5, <1>9

\* it leaves characters of its text
LEMMA KeptFrom ==
  ASSUME NEW s \in Seq(Letter)
  PROVE  /\ WithoutBlanks(s) \in Seq(Letter)
         /\ \A b : ~Contains(s, b) => ~Contains(WithoutBlanks(s), b)
<1> DEFINE n == Len(s)
<1>1. n \in Nat
  BY LenProperties
<1>2. PICK f : KeptUpTo(f, s, n) /\ WithoutBlanks(s) = f[n]
  BY KeptIs
<1>3. ASSUME NEW b, ~Contains(s, b)
      PROVE  ~Contains(f[n], b)
  <2> DEFINE P == {i \in Nat : i <= n => ~Contains(f[i], b)}
  <2>1. 0 \in P
    <3>1. f[0] = <<>>
      BY <1>2 DEF KeptUpTo
    <3> QED  BY <3>1 DEF Contains
  <2>2. ASSUME NEW i \in Nat, i \in P
        PROVE  i + 1 \in P
    <3>1. SUFFICES ASSUME i + 1 <= n
                   PROVE  ~Contains(f[i + 1], b)
      OBVIOUS
    <3>2. ~Contains(f[i], b) /\ i \in 0 .. n - 1 /\ i \in 0 .. n /\ i + 1 \in 1 .. n
      BY <1>1, <2>2, <3>1
    <3>3. f[i + 1] = IF s[i + 1] = Blank THEN f[i] ELSE Append(f[i], s[i + 1])
      BY <1>2, <3>2 DEF KeptUpTo
    <3>4. s[i + 1] # b
      BY <1>3, <3>2 DEF Contains
    <3>5. f[i] \in Seq(Letter)
      BY <1>2, <3>2 DEF KeptUpTo
    <3>6. ~Contains(Append(f[i], s[i + 1]), b)
      <4> DEFINE k == f[i]
                 e == s[i + 1]
      <4>1. k \in Seq(Letter) /\ e # b /\ \A j \in 1 .. Len(k) : k[j] # b
        BY <3>2, <3>4, <3>5 DEF Contains
      <4>2. \A j \in 1 .. Len(Append(k, e)) : Append(k, e)[j] # b
        <5> HIDE DEF k, e
        <5> QED  BY <4>1
      <4> QED  BY <4>2 DEF Contains
    <3> QED  BY <3>2, <3>3, <3>6
  <2>3. Nat \subseteq P
    <3> HIDE DEF P
    <3> QED  BY <2>1, <2>2, Induction
  <2> QED  BY <1>1, <2>3
<1>4. f[n] \in Seq(Letter)
  BY <1>1, <1>2 DEF KeptUpTo
<1> QED  BY <1>2, <1>3, <1>4

\* a character, a blank and a word without blanks: the character and the word are left
LEMMA KeptWord ==
  ASSUME NEW s \in Seq(Letter), 3 <= Len(s), s[1] # Blank, s[2] = Blank,
         \A i \in 3 .. Len(s) : s[i] # Blank
  PROVE  WithoutBlanks(s) = <<s[1]>> \o SubSeq(s, 3, Len(s))
<1> DEFINE n == Len(s)
<1>1. n \in Nat /\ \A i \in 1 .. n : s[i] \in Letter
  BY LenProperties, ElementOfSeq
<1>2. PICK f : KeptUpTo(f, s, n) /\ WithoutBlanks(s) = f[n]
  BY KeptIs
<1>3. \A i \in 0 .. n - 1 : f[i + 1] = IF s[i + 1] = Blank THEN f[i] ELSE Append(f[i], s[i + 1])
  BY <1>2 DEF KeptUpTo
<1>4. f[0] = <<>>
  BY <1>2 DEF KeptUpTo
<1>5. f[2] = <<s[1]>>
  <2>1. 0 \in 0 .. n - 1 /\ 1 \in 0 .. n - 1 /\ 0 + 1 = 1 /\ 1 + 1 = 2
    BY <1>1
  <2>2. f[1] = Append(f[0], s[1])
    BY <1>3, <2>1
  <2>3. f[2] = f[1]
    BY <1>3, <2>1
  <2> QED  BY <1>4, <2>2, <2>3
<1> DEFINE Q == {i \in Nat : i + 2 <= n => f[i + 2] = <<s[1]>> \o SubSeq(s, 3, i + 2)}
<1>6. 0 \in Q
  <2>1. SubSeq(s, 3, 2) = <<>>
    BY SubSeqEmpty
  <2> QED  BY <1>5, <2>1
<1>7. ASSUME NEW i \in Nat, i \in Q
      PROVE  i + 1 \in Q
  <2>1. SUFFICES ASSUME i + 3 <= n
                 PROVE  f[i + 3] = <<s[1]>> \o SubSeq(s, 3, i + 3)
    OBVIOUS
  <2>2. f[i + 2] = <<s[1]>> \o SubSeq(s, 3, i + 2) /\ i + 2 \in 0 .. n - 1 /\ i + 3 \in 3 .. n
        /\ (i + 2) + 1 = i + 3
    BY <1>1, <1>7, <2>1
  <2>3. f[i + 3] = Append(f[i + 2], s[i + 3])
    BY <1>3, <2>2
  <2> DEFINE r == SubSeq(s, 3, i + 2)
             e == s[i + 3]
             a == s[1]
  <2>4. r \in Seq(Letter) /\ e \in Letter /\ a \in Letter
    BY <1>1, <2>2
  <2>5. SubSeq(s, 3, i + 3) = Append(r, e)
    BY <1>1, <2>2
  <2>6. Append(<<a>> \o r, e) = <<a>> \o Append(r, e)
    <3> HIDE DEF r, e, a
    <3> QED  BY <2>4
  <2> QED  BY <2>2, <2>3, <2>5, <2>6
<1>8. Nat \subseteq Q
  <2> HIDE DEF Q
  <2> QED  BY <1>6, <1>7, Induction
<1>9. PICK i \in Nat : i + 2 = n
  <2>1. n - 2 \in Nat /\ (n - 2) + 2 = n
    BY <1>1
  <2> QED  BY <2>1
<1>10. f[n] = <<s[1]>> \o SubSeq(s, 3, n)
  <2>1. i \in Q /\ i + 2 <= n
    BY <1>1, <1>8, <1>9
  <2>2. f[i + 2] = <<s[1]>> \o SubSeq(s, 3, i + 2)
    BY <2>1
  <2> QED  BY <1>9, <2>2
<1> QED  BY <1>2, <1>10

-----------------------------------------------------------------------------
(* The parts of a text *)

\* bs among the first i of s
Before(s, b, i) == Cardinality({j \in 1 .. i : s[j] = b})

\* the positions of the k-th part
Part(s, b, k) == {i \in DOMAIN s : s[i] # b /\ Before(s, b, i) = k - 1}

\* the count goes up by one with each b
LEMMA BeforeNext ==
  ASSUME NEW s, NEW b, NEW i \in Nat
  PROVE  /\ Before(s, b, i) \in Nat
         /\ Before(s, b, 0) = 0
         /\ Before(s, b, i + 1) = IF s[i + 1] = b THEN Before(s, b, i) + 1 ELSE Before(s, b, i)
<1> DEFINE J(n) == {j \in 1 .. n : s[j] = b}
<1>1. \A n \in Nat : IsFiniteSet(J(n))
  <2> TAKE n \in Nat
  <2>1. IsFiniteSet(1 .. n) /\ J(n) \subseteq 1 .. n
    BY FS_Interval
  <2> QED  BY <2>1, FS_Subset
<1>2. Cardinality(J(i)) \in Nat
  BY <1>1, FS_CardinalityType
<1>3. J(0) = {}
  OBVIOUS
<1>4. Cardinality(J(0)) = 0
  BY <1>3, FS_EmptySet
<1>5. CASE s[i + 1] = b
  <2>1. J(i + 1) = J(i) \cup {i + 1} /\ i + 1 \notin J(i)
    BY <1>5
  <2>2. Cardinality(J(i) \cup {i + 1}) = Cardinality(J(i)) + 1
    BY <1>1, <2>1, FS_AddElement
  <2> QED  BY <1>2, <1>4, <1>5, <2>1, <2>2 DEF Before
<1>6. CASE s[i + 1] # b
  <2>1. J(i + 1) = J(i)
    BY <1>6
  <2> QED  BY <1>2, <1>4, <1>6, <2>1 DEF Before
<1> QED  BY <1>5, <1>6

\* BeforeNext at every index
LEMMA BeforeEach ==
  \A s, b : \A i \in Nat :
    Before(s, b, i + 1) = IF s[i + 1] = b THEN Before(s, b, i) + 1 ELSE Before(s, b, i)
<1> TAKE s, b
<1> TAKE i \in Nat
<1> QED  BY BeforeNext

\* and never down
LEMMA BeforeUp ==
  ASSUME NEW s, NEW b, NEW i \in Nat, NEW k \in Nat, i <= k
  PROVE  Before(s, b, i) <= Before(s, b, k)
<1> DEFINE J(n) == {j \in 1 .. n : s[j] = b}
<1>1. IsFiniteSet(J(k))
  <2>1. IsFiniteSet(1 .. k) /\ J(k) \subseteq 1 .. k
    BY FS_Interval
  <2> QED  BY <2>1, FS_Subset
<1>2. J(i) \subseteq J(k)
  OBVIOUS
<1>3. Cardinality(J(i)) <= Cardinality(J(k))
  BY <1>1, <1>2, FS_Subset
<1> QED  BY <1>3 DEF Before

\* a part goes from its least position to its greatest
LEMMA Ends ==
  ASSUME NEW n \in Nat, NEW T, T \subseteq 1 .. n, T # {}
  PROVE  /\ Min(T) \in T /\ Max(T) \in T
         /\ \A y \in T : Min(T) <= y /\ y <= Max(T)
<1>1. PICK x \in T : \A y \in T : x <= y
  <2>1. T \subseteq Nat
    OBVIOUS
  <2> QED  BY <2>1, Least
<1>2. Min(T) \in T /\ \A y \in T : Min(T) <= y
  BY <1>1 DEF Min
<1> DEFINE U == {m \in Nat : \A y \in T : y <= m}
<1>3. n \in U
  OBVIOUS
<1>4. PICK m \in U : \A y \in U : m <= y
  <2>1. U \subseteq Nat /\ U # {}
    BY <1>3
  <2> HIDE DEF U
  <2> QED  BY <2>1, Least
<1>5. m \in T
  <2>1. SUFFICES ASSUME m \notin T PROVE FALSE
    OBVIOUS
  <2>2. m >= 1 /\ m - 1 \in Nat
    BY <1>1, <1>4
  <2>3. \A y \in T : y <= m - 1
    BY <1>4, <2>1
  <2>4. m - 1 \in U
    BY <2>2, <2>3
  <2> QED  BY <1>4, <2>2, <2>4
<1>6. \A y \in T : y <= m
  BY <1>4
<1>7. Max(T) \in T /\ \A y \in T : y <= Max(T)
  BY <1>5, <1>6 DEF Max
<1> QED  BY <1>2, <1>7

\* Split, part by part
LEMMA SplitIs ==
  ASSUME NEW s, NEW b
  PROVE  Split(s, b) =
           [k \in 1 .. Before(s, b, Len(s)) + 1 |->
              IF Part(s, b, k) = {} THEN <<>>
              ELSE SubSeq(s, Min(Part(s, b, k)), Max(Part(s, b, k)))]
BY DEF Split, Before, Part

\* there is no separator between two positions of one part
LEMMA PartWhole ==
  ASSUME NEW T, NEW s \in Seq(T), NEW b, NEW k,
         NEW x \in Part(s, b, k), NEW z \in Part(s, b, k), NEW y \in x .. z
  PROVE  y \in Part(s, b, k)
<1>1. /\ x \in 1 .. Len(s) /\ y \in 1 .. Len(s) /\ z \in 1 .. Len(s) /\ Len(s) \in Nat
      /\ x \in Nat /\ y \in Nat /\ z \in Nat /\ x <= y /\ y <= z
  BY LenProperties DEF Part
<1>2. Before(s, b, x) = k - 1 /\ Before(s, b, z) = k - 1 /\ s[x] # b
  BY DEF Part
<1> DEFINE B(i) == Before(s, b, i)
<1>3. B(x) <= B(y) /\ B(y) <= B(z) /\ B(x) \in Nat /\ B(y) \in Nat
  BY <1>1, BeforeUp, BeforeNext
<1>4. B(y) = k - 1
  <2> HIDE DEF B
  <2>1. B(x) = k - 1 /\ B(z) = k - 1
    BY <1>2 DEF B
  <2> QED  BY <1>3, <2>1
<1>5. s[y] # b
  <2>1. SUFFICES ASSUME s[y] = b PROVE FALSE
    OBVIOUS
  <2>2. x # y /\ y - 1 \in Nat /\ x <= y - 1 /\ (y - 1) + 1 = y
    BY <1>1, <1>2, <2>1
  <2>3. B(y) = B(y - 1) + 1 /\ B(x) <= B(y - 1) /\ B(y - 1) \in Nat
    <3> DEFINE j == y - 1
    <3>1. B(j + 1) = B(j) + 1
      <4>1. j \in Nat /\ s[j + 1] = b
        BY <2>1, <2>2
      <4> HIDE DEF j
      <4> QED  BY <4>1, BeforeEach
    <3>2. B(x) <= B(y - 1) /\ B(y - 1) \in Nat
      BY <1>1, <2>2, BeforeUp, BeforeNext
    <3> QED  BY <2>2, <3>1, <3>2
  <2>4. B(x) = B(y)
    BY <1>2, <1>4
  <2> HIDE DEF B
  <2> QED  BY <1>3, <2>3, <2>4
<1>6. DOMAIN s = 1 .. Len(s)
  BY LenProperties
<1> QED  BY <1>1, <1>4, <1>5, <1>6 DEF Part

\* the bounds of a part
LEMMA PartEnds ==
  ASSUME NEW T, NEW s \in Seq(T), NEW b, NEW k, Part(s, b, k) # {}
  PROVE  LET p == Part(s, b, k)
         IN  /\ Min(p) \in p /\ Max(p) \in p
             /\ Min(p) \in 1 .. Len(s) /\ Max(p) \in 1 .. Len(s) /\ Min(p) <= Max(p)
             /\ p = Min(p) .. Max(p)
<1> DEFINE p == Part(s, b, k)
<1>1. Len(s) \in Nat /\ p \subseteq 1 .. Len(s)
  BY LenProperties DEF Part
<1>2. /\ Min(p) \in p /\ Max(p) \in p
      /\ \A y \in p : Min(p) <= y /\ y <= Max(p)
  BY <1>1, Ends
<1>3. \A y \in Min(p) .. Max(p) : y \in p
  BY <1>2, PartWhole
<1> HIDE DEF p
<1>4. p = Min(p) .. Max(p)
  <2>1. \A y \in p : y \in Int
    BY <1>1
  <2>2. Min(p) \in Int /\ Max(p) \in Int
    BY <1>2, <2>1
  <2>3. \A y \in p : y \in Min(p) .. Max(p)
    BY <1>2, <2>1, <2>2
  <2> QED  BY <1>3, <2>3
<1>5. Min(p) \in 1 .. Len(s) /\ Max(p) \in 1 .. Len(s) /\ Min(p) <= Max(p)
  BY <1>1, <1>2
<1> QED  BY <1>2, <1>4, <1>5 DEF p

\* the parts of a text are texts
LEMMA SplitType ==
  ASSUME NEW T, NEW s \in Seq(T), NEW b
  PROVE  /\ Split(s, b) \in Seq(Seq(T))
         /\ Len(Split(s, b)) = Before(s, b, Len(s)) + 1
<1> DEFINE n == Before(s, b, Len(s)) + 1
           F(k) == IF Part(s, b, k) = {} THEN <<>>
                   ELSE SubSeq(s, Min(Part(s, b, k)), Max(Part(s, b, k)))
<1>1. n \in Nat
  BY BeforeNext, LenProperties
<1>2. ASSUME NEW k \in 1 .. n
      PROVE  F(k) \in Seq(T)
  <2>1. CASE Part(s, b, k) = {}
    BY <2>1
  <2>2. CASE Part(s, b, k) # {}
    <3> DEFINE x == Min(Part(s, b, k))
               z == Max(Part(s, b, k))
    <3>1. x \in 1 .. Len(s) /\ z \in 1 .. Len(s)
      BY <2>2, PartEnds
    <3>2. F(k) = SubSeq(s, x, z)
      BY <2>2
    <3> HIDE DEF x, z, F
    <3> QED  BY <3>1, <3>2, LenProperties
  <2> QED  BY <2>1, <2>2
<1>3. Split(s, b) = [k \in 1 .. n |-> F(k)]
  BY SplitIs
<1> HIDE DEF n, F
<1>4. [k \in 1 .. n |-> F(k)] \in Seq(Seq(T)) /\ Len([k \in 1 .. n |-> F(k)]) = n
  BY <1>1, <1>2
<1> QED  BY <1>3, <1>4 DEF n

\* blanks made NULs: the parts are the same
LEMMA SplitReplaced ==
  ASSUME NEW t \in Seq(Letter)
  PROVE  Split(ReplaceAll(t, Blank, NUL), NUL) = Split(t, Blank)
<1> DEFINE r == ReplaceAll(t, Blank, NUL)
           n == Len(t)
<1>1. n \in Nat /\ \A i \in 1 .. n : t[i] \in Letter
  BY LenProperties, ElementOfSeq
<1>2. r = [i \in 1 .. n |-> IF t[i] = Blank THEN NUL ELSE t[i]]
  BY DEF ReplaceAll
<1>3. r \in Seq(0 .. 127) /\ Len(r) = n
  <2>1. \A i \in 1 .. n : (IF t[i] = Blank THEN NUL ELSE t[i]) \in 0 .. 127
    BY <1>1 DEF Letter, NUL
  <2> HIDE DEF r, n
  <2> QED  BY <1>1, <1>2, <2>1
<1>4. \A i \in 1 .. n : (r[i] = NUL <=> t[i] = Blank) /\ (r[i] # NUL => r[i] = t[i])
  <2> TAKE i \in 1 .. n
  <2>1. t[i] \in Letter
    BY <1>1
  <2>2. t[i] # NUL
    <3>1. \A e \in Letter : e # NUL
      BY DEF Letter, NUL
    <3> QED  BY <2>1, <3>1
  <2>3. r[i] = IF t[i] = Blank THEN NUL ELSE t[i]
    BY <1>2
  <2> QED  BY <2>2, <2>3
<1> HIDE DEF r
<1>5. \A i \in 0 .. n : Before(r, NUL, i) = Before(t, Blank, i)
  <2> TAKE i \in 0 .. n
  <2>1. {j \in 1 .. i : r[j] = NUL} = {j \in 1 .. i : t[j] = Blank}
    BY <1>1, <1>4
  <2> QED  BY <2>1 DEF Before
<1>6. DOMAIN r = 1 .. n /\ DOMAIN t = 1 .. n
  BY <1>3, LenProperties
<1>7. \A k : Part(r, NUL, k) = Part(t, Blank, k)
  <2> TAKE k
  <2>1. \A i \in 1 .. n : (r[i] # NUL <=> t[i] # Blank) /\ Before(r, NUL, i) = Before(t, Blank, i)
    BY <1>1, <1>4, <1>5
  <2> QED  BY <1>6, <2>1 DEF Part
<1>8. ASSUME NEW k, Part(t, Blank, k) # {}
      PROVE  SubSeq(r, Min(Part(t, Blank, k)), Max(Part(t, Blank, k)))
               = SubSeq(t, Min(Part(t, Blank, k)), Max(Part(t, Blank, k)))
  <2> DEFINE p == Part(t, Blank, k)
             x == Min(p)
             z == Max(p)
  <2>1. x \in 1 .. n /\ z \in 1 .. n /\ p = x .. z
    BY <1>8, PartEnds
  <2>2. \A i \in x .. z : i \in 1 .. n /\ t[i] # Blank
    BY <2>1, <1>6 DEF Part
  <2>3. \A i \in x .. z : r[i] = t[i]
    BY <1>4, <2>2
  <2> HIDE DEF p, x, z, n
  <2>4. SubSeq(r, x, z) = SubSeq(t, x, z)
    BY <1>1, <2>1, <2>3
  <2> QED  BY <2>4 DEF p, x, z
<1>9. Before(r, NUL, Len(r)) = Before(t, Blank, Len(t))
  BY <1>1, <1>3, <1>5
<1>10. Split(r, NUL) =
         [k \in 1 .. Before(t, Blank, n) + 1 |->
            IF Part(t, Blank, k) = {} THEN <<>>
            ELSE SubSeq(t, Min(Part(t, Blank, k)), Max(Part(t, Blank, k)))]
  <2>1. Split(r, NUL) =
           [k \in 1 .. Before(r, NUL, Len(r)) + 1 |->
              IF Part(r, NUL, k) = {} THEN <<>>
              ELSE SubSeq(r, Min(Part(r, NUL, k)), Max(Part(r, NUL, k)))]
    BY SplitIs
  <2> QED  BY <1>7, <1>8, <1>9, <2>1
<1>11. Split(t, Blank) =
         [k \in 1 .. Before(t, Blank, n) + 1 |->
            IF Part(t, Blank, k) = {} THEN <<>>
            ELSE SubSeq(t, Min(Part(t, Blank, k)), Max(Part(t, Blank, k)))]
  BY SplitIs
<1>12. Split(r, NUL) = Split(t, Blank)
  BY <1>10, <1>11
<1> QED  BY <1>12 DEF r

\* a separator at the end: one more part, without characters
LEMMA SplitOpen ==
  ASSUME NEW T, NEW s \in Seq(T), NEW b \in T
  PROVE  Split(s \o <<b>>, b) = Append(Split(s, b), <<>>)
<1> DEFINE w == s \o <<b>>
           n == Len(s)
           m == Before(s, b, n) + 1
<1>1. n \in Nat /\ w \in Seq(T) /\ Len(w) = n + 1 /\ w[n + 1] = b
      /\ \A i \in 1 .. n : w[i] = s[i]
  BY LenProperties, ConcatProperties
<1> HIDE DEF w
<1>2. \A i \in 0 .. n : Before(w, b, i) = Before(s, b, i)
  <2> TAKE i \in 0 .. n
  <2>1. {j \in 1 .. i : w[j] = b} = {j \in 1 .. i : s[j] = b}
    BY <1>1
  <2> QED  BY <2>1 DEF Before
<1>3. m \in Nat /\ Before(w, b, n + 1) = m
  <2>1. Before(w, b, n + 1) = Before(w, b, n) + 1 /\ Before(s, b, n) \in Nat
    BY <1>1, BeforeNext
  <2> QED  BY <1>1, <1>2, <2>1
<1>4. DOMAIN w = 1 .. n + 1 /\ DOMAIN s = 1 .. n
  BY <1>1, LenProperties
<1>5. \A k : Part(w, b, k) = Part(s, b, k)
  <2> TAKE k
  <2>1. \A i \in 1 .. n : w[i] = s[i] /\ Before(w, b, i) = Before(s, b, i)
    BY <1>1, <1>2
  <2> HIDE DEF n
  <2> QED  BY <1>1, <1>4, <2>1 DEF Part
<1>6. Part(s, b, m + 1) = {}
  <2>1. SUFFICES ASSUME NEW i \in Part(s, b, m + 1)
                 PROVE  FALSE
    OBVIOUS
  <2>2. i \in 1 .. n /\ Before(s, b, i) = m
    BY <1>3, <1>4, <2>1 DEF Part
  <2>3. Before(s, b, i) <= Before(s, b, n)
    BY <1>1, <2>2, BeforeUp
  <2>4. Before(s, b, n) \in Nat
    BY <1>1, BeforeNext
  <2> QED  BY <2>2, <2>3, <2>4
<1> DEFINE F(v, k) == IF Part(s, b, k) = {} THEN <<>>
                      ELSE SubSeq(v, Min(Part(s, b, k)), Max(Part(s, b, k)))
<1>7. ASSUME NEW k
      PROVE  F(w, k) = F(s, k)
  <2>1. CASE Part(s, b, k) = {}
    BY <2>1
  <2>2. CASE Part(s, b, k) # {}
    <3> DEFINE x == Min(Part(s, b, k))
               z == Max(Part(s, b, k))
    <3>1. x \in 1 .. n /\ z \in 1 .. n
      BY <2>2, PartEnds
    <3>2. F(w, k) = SubSeq(w, x, z) /\ F(s, k) = SubSeq(s, x, z)
      BY <2>2
    <3> HIDE DEF x, z, F, n
    <3>3. \A i \in x .. z : w[i] = s[i]
      BY <1>1, <3>1
    <3> QED  BY <1>1, <3>1, <3>2, <3>3
  <2> QED  BY <2>1, <2>2
<1>8. Split(w, b) = [k \in 1 .. m + 1 |-> F(s, k)]
  <2>1. Split(w, b) = [k \in 1 .. m + 1 |->
                         IF Part(w, b, k) = {} THEN <<>>
                         ELSE SubSeq(w, Min(Part(w, b, k)), Max(Part(w, b, k)))]
    BY <1>1, <1>3, SplitIs
  <2>2. Split(w, b) = [k \in 1 .. m + 1 |-> F(w, k)]
    BY <1>5, <2>1
  <2> HIDE DEF F
  <2> QED  BY <1>7, <2>2
<1>9. Split(s, b) = [k \in 1 .. m |-> F(s, k)]
  BY SplitIs
<1>10. F(s, m + 1) = <<>>
  BY <1>6
<1>11. [k \in 1 .. m + 1 |-> F(s, k)] = Append([k \in 1 .. m |-> F(s, k)], F(s, m + 1))
  <2>1. \A k \in 1 .. m + 1 : F(s, k) \in Seq(T)
    <3> TAKE k \in 1 .. m + 1
    <3>1. CASE k = m + 1
      <4>1. <<>> \in Seq(T)
        BY EmptySeq
      <4> HIDE DEF F, m
      <4> QED  BY <1>10, <3>1, <4>1
    <3>2. CASE k # m + 1
      <4>1. k \in 1 .. m /\ Split(s, b)[k] = F(s, k)
        BY <1>3, <1>9, <3>2
      <4>2. Split(s, b) \in Seq(Seq(T)) /\ Len(Split(s, b)) = m
        BY SplitType
      <4> HIDE DEF F, m
      <4> QED  BY <4>1, <4>2
    <3> QED  BY <3>1, <3>2
  <2> HIDE DEF F, m
  <2> QED  BY <1>3, <2>1
<1>12. Split(w, b) = Append(Split(s, b), <<>>)
  BY <1>8, <1>9, <1>10, <1>11
<1> QED  BY <1>12 DEF w

\* fields with something in them, and an empty one behind them: they are what is read
LEMMA TrimmedWhole ==
  ASSUME NEW T, NEW F \in Seq(Seq(T)), F # <<>>, <<>> \notin ToSet(F)
  PROVE  Trimmed(F) = F /\ Trimmed(Append(F, <<>>)) = F
<1> DEFINE n == Len(F)
           G == Append(F, <<>>)
<1>1. n \in Nat /\ n >= 1 /\ n \in 1 .. n /\ \A i \in 1 .. n : F[i] # <<>>
  BY LenProperties, EmptySeq DEF ToSet
<1>2. /\ G \in Seq(Seq(T)) /\ Len(G) = n + 1 /\ G[n + 1] = <<>>
      /\ \A i \in 1 .. n : G[i] = F[i]
  BY AppendProperties, EmptySeq
<1> HIDE DEF G
<1>3. {i \in 1 .. n : F[i] # <<>>} = 1 .. n
  BY <1>1
<1>4. {i \in 1 .. n + 1 : G[i] # <<>>} = 1 .. n
  <2>1. \A i \in 1 .. n + 1 : G[i] # <<>> <=> i \in 1 .. n
    <3> TAKE i \in 1 .. n + 1
    <3>1. i \in 1 .. n \/ (i = n + 1 /\ i \notin 1 .. n)
      BY <1>1
    <3> QED  BY <1>1, <1>2, <3>1
  <2>2. 1 .. n \subseteq 1 .. n + 1
    BY <1>1
  <2> HIDE DEF n
  <2> QED  BY <2>1, <2>2
<1>5. Max(1 .. n) = n
  <2>1. Max(1 .. n) \in 1 .. n /\ \A y \in 1 .. n : y <= Max(1 .. n)
    BY <1>1, Ends
  <2> HIDE DEF n
  <2> QED  BY <1>1, <2>1
<1>6. SelectLastInSeq(F, LAMBDA f : f # <<>>) = n
  <2>1. 1 .. n # {}
    BY <1>1
  <2> QED  BY <1>3, <1>5, <2>1 DEF SelectLastInSeq
<1>7. SelectLastInSeq(G, LAMBDA f : f # <<>>) = n
  <2>1. 1 .. n # {}
    BY <1>1
  <2> HIDE DEF n
  <2> QED  BY <1>2, <1>4, <1>5, <2>1 DEF SelectLastInSeq
<1>8. Trimmed(F) = SubSeq(F, 1, n)
  BY <1>6 DEF Trimmed
<1>9. Trimmed(G) = SubSeq(G, 1, n)
  BY <1>7 DEF Trimmed
<1>10. SubSeq(F, 1, n) = F
  BY SubSeqFull
<1>11. SubSeq(G, 1, n) = F
  <2>1. SubSeq(G, 1, n) \in Seq(Seq(T)) /\ Len(SubSeq(G, 1, n)) = n
        /\ \A i \in 1 .. n : SubSeq(G, 1, n)[i] = G[i]
    BY <1>1, <1>2
  <2> QED  BY <1>2, <2>1, SeqEqual
<1>12. Trimmed(G) = F
  BY <1>9, <1>11
<1> QED  BY <1>8, <1>10, <1>12 DEF G

-----------------------------------------------------------------------------
(* Requests *)

\* what a user may type
IsLine(line) ==
  /\ line.rest \in Seq(Letter)
  /\ line.rest # <<>> => Head(line.rest) = Blank

\* what is sent of a line before the delimiter
Message(line) == Two(Op[line.word]) \o Body(line)

\* the opcodes of the requests
Ops == {1, 2, 3, 4, 5, 6, 7, 8, 12}

\* each command has one, and they look different
LEMMA Opcodes ==
  /\ \A word \in DOMAIN Op : Op[word] \in Ops
  /\ \A op \in Ops : Two(op) \in Seq(Ascii) /\ Len(Two(op)) = 2 /\ ~Contains(Two(op), Semicolon)
  /\ \A a, b \in Ops : Two(a) = Two(b) => a = b
<1>1. \A word \in DOMAIN Op : Op[word] \in Ops
  BY DEF Op, Ops
<1>2. /\ Two(1) = <<48, 49>> /\ Two(2) = <<48, 50>> /\ Two(3) = <<48, 51>>
      /\ Two(4) = <<48, 52>> /\ Two(5) = <<48, 53>> /\ Two(6) = <<48, 54>>
      /\ Two(7) = <<48, 55>> /\ Two(8) = <<48, 56>> /\ Two(12) = <<49, 50>>
  BY DEF Two, Digit
<1>3. ASSUME NEW op \in Ops
      PROVE  \E x \in 48 .. 49, y \in 48 .. 57 : Two(op) = <<x, y>>
  BY <1>2 DEF Ops
<1>4. ASSUME NEW op \in Ops
      PROVE  Two(op) \in Seq(Ascii) /\ Len(Two(op)) = 2 /\ ~Contains(Two(op), Semicolon)
  <2>1. PICK x \in 48 .. 49, y \in 48 .. 57 : Two(op) = <<x, y>>
    BY <1>3
  <2>2. <<x, y>> \in Seq(Ascii) /\ Len(<<x, y>>) = 2
    BY DEF Ascii
  <2>3. ~Contains(<<x, y>>, 59)
    BY DEF Contains
  <2> QED  BY <2>1, <2>2, <2>3 DEF Semicolon
<1>5. ASSUME NEW a \in Ops, NEW b \in Ops, Two(a) = Two(b)
      PROVE  a = b
  BY <1>2, <1>5 DEF Ops
<1> QED  BY <1>1, <1>4, <1>5

\* the text of a line
LEMMA TextIs ==
  ASSUME NEW line, IsLine(line)
  PROVE  /\ Text(line) \in Seq(Letter)
         /\ NoDelimiter(line) => ~Contains(Text(line), Semicolon)
<1> DEFINE r == line.rest
<1>1. r \in Seq(Letter)
  BY DEF IsLine
<1>2. CASE r = <<>>
  BY <1>2, EmptySeq DEF Text, NoDelimiter
<1>3. CASE r # <<>>
  <2>1. Text(line) = Tail(r)
    BY <1>3 DEF Text
  <2>2. Tail(r) \in Seq(Letter) /\ Len(Tail(r)) = Len(r) - 1
        /\ \A i \in 1 .. Len(Tail(r)) : i + 1 \in 1 .. Len(r) /\ Tail(r)[i] = r[i + 1]
    <3> HIDE DEF r
    <3> QED  BY <1>1, <1>3
  <2>3. ~Contains(r, Semicolon) => ~Contains(Tail(r), Semicolon)
    BY <2>2 DEF Contains
  <2> QED  BY <2>1, <2>2, <2>3 DEF NoDelimiter
<1> QED  BY <1>2, <1>3

\* two pieces without an element
LEMMA NotContained ==
  ASSUME NEW T, NEW s \in Seq(T), NEW t \in Seq(T), NEW b, ~Contains(s, b), ~Contains(t, b)
  PROVE  s \o t \in Seq(T) /\ ~Contains(s \o t, b)
<1>1. (\A i \in 1 .. Len(s) : s[i] # b) /\ \A i \in 1 .. Len(t) : t[i] # b
  BY DEF Contains
<1>2. \A i \in 1 .. Len(s \o t) : (s \o t)[i] # b
  BY <1>1
<1> QED  BY <1>2 DEF Contains

\* what follows the opcode
LEMMA BodyIs ==
  ASSUME NEW line, IsLine(line), line.word \in DOMAIN Op
  PROVE  /\ Body(line) \in Seq(Ascii)
         /\ NoDelimiter(line) => ~Contains(Body(line), Semicolon)
<1> DEFINE t == Text(line)
           r == ReplaceAll(t, Blank, NUL)
           w == WithoutBlanks(t)
           free(s) == NoDelimiter(line) => ~Contains(s, Semicolon)
           fine(s) == s \in Seq(Ascii) /\ free(s)
<1>1. t \in Seq(Letter) /\ free(t)
  BY TextIs
<1>2. fine(t)
  <2>1. Letter \subseteq Ascii
    BY DEF Letter, Ascii
  <2> QED  BY <1>1, <2>1, SeqMonotonic
<1>3. fine(w)
  <2>1. Letter \subseteq Ascii
    BY DEF Letter, Ascii
  <2>2. w \in Seq(Letter) /\ free(w)
    BY <1>1, KeptFrom
  <2> QED  BY <2>1, <2>2, SeqMonotonic
<1>4. fine(r)
  <2>1. r = [i \in 1 .. Len(t) |-> IF t[i] = Blank THEN NUL ELSE t[i]]
    BY DEF ReplaceAll
  <2>2. \A i \in 1 .. Len(t) : t[i] \in Ascii
    BY <1>2, ElementOfSeq, LenProperties
  <2>3. Len(t) \in Nat
    BY <1>1, LenProperties
  <2>4. r \in Seq(Ascii) /\ Len(r) = Len(t) /\ \A i \in 1 .. Len(t) : r[i] \in {NUL, t[i]}
    <3>1. \A i \in 1 .. Len(t) : (IF t[i] = Blank THEN NUL ELSE t[i]) \in Ascii
      BY <2>2 DEF NUL, Ascii
    <3>2. \A i \in 1 .. Len(t) : r[i] \in {NUL, t[i]}
      BY <2>1
    <3>3. [i \in 1 .. Len(t) |-> IF t[i] = Blank THEN NUL ELSE t[i]] \in Seq(Ascii)
          /\ Len([i \in 1 .. Len(t) |-> IF t[i] = Blank THEN NUL ELSE t[i]]) = Len(t)
      <4> HIDE DEF t
      <4> QED  BY <2>3, <3>1
    <3> QED  BY <2>1, <3>2, <3>3
  <2>5. free(r)
    <3>1. NUL # Semicolon
      BY DEF NUL, Semicolon
    <3> QED  BY <1>1, <2>4, <3>1 DEF Contains
  <2> QED  BY <2>4, <2>5
<1>5. fine(<<NUL>>)
  BY DEF NUL, Semicolon, Contains, Ascii
<1>6. ASSUME NEW s, fine(s)
      PROVE  fine(s \o <<NUL>>)
  <2>1. s \in Seq(Ascii) /\ <<NUL>> \in Seq(Ascii)
    BY <1>5, <1>6
  <2>2. s \o <<NUL>> \in Seq(Ascii)
    BY <2>1, ConcatProperties
  <2>3. CASE NoDelimiter(line)
    BY <1>5, <1>6, <2>1, <2>2, <2>3, NotContained
  <2>4. CASE ~NoDelimiter(line)
    BY <2>2, <2>4
  <2> QED  BY <2>3, <2>4
<1>7. fine(<<>>)
  BY EmptySeq DEF Contains
<1>8. Body(line) \in {r \o <<NUL>>, r, <<>>, w \o <<NUL>>, t \o <<NUL>>}
  BY DEF Body
<1> HIDE DEF fine, t, r, w
<1>9. fine(Body(line))
  BY <1>2, <1>3, <1>4, <1>6, <1>7, <1>8
<1> QED  BY <1>9 DEF fine

\* a line of a known command is sent as a message and the delimiter, which is not in it
LEMMA MessageIs ==
  ASSUME NEW line, IsLine(line), line.word \in DOMAIN Op
  PROVE  /\ Encoder(line) = Message(line) \o <<Semicolon>>
         /\ Message(line) \in Seq(Ascii)
         /\ NoDelimiter(line) => ~Contains(Message(line), Semicolon)
         /\ SubSeq(Message(line), 1, 2) = Two(Op[line.word])
         /\ SubSeq(Message(line), 3, Len(Message(line))) = Body(line)
         /\ Len(Message(line)) = Len(Body(line)) + 2
<1> DEFINE two == Two(Op[line.word])
           body == Body(line)
           m == two \o body
<1>1. two \in Seq(Ascii) /\ Len(two) = 2 /\ ~Contains(two, Semicolon)
  BY Opcodes
<1>2. body \in Seq(Ascii) /\ (NoDelimiter(line) => ~Contains(body, Semicolon))
  BY BodyIs
<1>3. Encoder(line) = m \o <<Semicolon>> /\ Message(line) = m
  BY DEF Encoder, Message
<1> HIDE DEF two, body
<1>4. m \in Seq(Ascii) /\ (NoDelimiter(line) => ~Contains(m, Semicolon))
  BY <1>1, <1>2, NotContained, ConcatProperties
<1>5. Len(m) = Len(body) + 2 /\ SubSeq(m, 1, 2) = two /\ SubSeq(m, 3, Len(m)) = body
  <2>1. /\ Len(m) = Len(two) + Len(body)
        /\ SubSeq(m, 1, Len(two)) = two
        /\ SubSeq(m, Len(two) + 1, Len(m)) = body
    <3>1. two \in Seq(Ascii) /\ body \in Seq(Ascii)
      BY <1>1, <1>2
    <3>2. \A u, v \in Seq(Ascii) :
            /\ Len(u \o v) = Len(u) + Len(v)
            /\ SubSeq(u \o v, 1, Len(u)) = u
            /\ SubSeq(u \o v, Len(u) + 1, Len(u \o v)) = v
      BY Behind
    <3> QED  BY <3>1, <3>2, Zenon
  <2>2. Len(body) \in Nat
    BY <1>2, LenProperties
  <2> HIDE DEF m
  <2> QED  BY <1>1, <2>1, <2>2
<1> QED  BY <1>3, <1>4, <1>5 DEF two, body

\* any other line is not sent
LEMMA UnknownIs ==
  ASSUME NEW line, line.word \notin DOMAIN Op
  PROVE  Encoder(line) = <<>>
BY DEF Encoder

\* the branch of process that a message takes is that of its opcode
LEMMA ReadIs ==
  ASSUME NEW m, NEW op \in Ops, SubSeq(m, 1, 2) = Two(op)
  PROVE  LET rest == SubSeq(m, 3, Len(m))
             whole == SubSeq(m, 3, Len(m) - 1)
         IN  /\ op \in {1, 2} => ReadRequest(m) = [op |-> op, fields |-> Trimmed(Split(rest, NUL))]
             /\ op = 4 =>
                  ReadRequest(m) =
                    [op |-> 4, fields |-> <<SubSeq(rest, 1, 1), SubSeq(whole, 2, Len(whole))>>]
             /\ op \in {3, 7} => ReadRequest(m) = [op |-> op, fields |-> <<>>]
             /\ op \in {5, 6, 8, 12} => ReadRequest(m) = [op |-> op, fields |-> <<whole>>]
<1> DEFINE code(x) == Two(x) = SubSeq(m, 1, 2)
           rest == SubSeq(m, 3, Len(m))
           whole == SubSeq(m, 3, Len(m) - 1)
           some12 == \E x \in {1, 2} : code(x)
           some37 == \E x \in {3, 7} : code(x)
           some5 == \E x \in {5, 6, 8, 12} : code(x)
           the12 == CHOOSE x \in {1, 2} : code(x)
           the37 == CHOOSE x \in {3, 7} : code(x)
           the5 == CHOOSE x \in {5, 6, 8, 12} : code(x)
           words == Trimmed(Split(rest, NUL))
           follow == <<SubSeq(rest, 1, 1), SubSeq(whole, 2, Len(whole))>>
<1>1. \A x \in Ops : code(x) <=> x = op
  BY Opcodes
<1>2. ReadRequest(m) =
        CASE some12 -> [op |-> the12, fields |-> words]
          [] code(4) -> [op |-> 4, fields |-> follow]
          [] some37 -> [op |-> the37, fields |-> <<>>]
          [] some5 -> [op |-> the5, fields |-> <<whole>>]
          [] OTHER -> [op |-> 0, fields |-> <<>>]
  BY DEF ReadRequest
<1>3. /\ op \in {1, 2} => some12 /\ the12 = op
      /\ op \in {3, 7} => some37 /\ the37 = op
      /\ op \in {5, 6, 8, 12} => some5 /\ the5 = op
      /\ some12 => op \in {1, 2}
      /\ some37 => op \in {3, 7}
      /\ some5 => op \in {5, 6, 8, 12}
      /\ code(4) <=> op = 4
  BY <1>1 DEF Ops
<1> HIDE DEF code, some12, some37, some5, the12, the37, the5, words, follow, whole
<1>4. op \in {1, 2} => ReadRequest(m) = [op |-> op, fields |-> words]
  <2> SUFFICES ASSUME op \in {1, 2} PROVE ReadRequest(m) = [op |-> op, fields |-> words]
    OBVIOUS
  <2>1. some12 /\ ~code(4) /\ ~some37 /\ ~some5
    BY <1>3
  <2> QED  BY <1>2, <1>3, <2>1
<1>5. op = 4 => ReadRequest(m) = [op |-> 4, fields |-> follow]
  <2> SUFFICES ASSUME op = 4 PROVE ReadRequest(m) = [op |-> 4, fields |-> follow]
    OBVIOUS
  <2>1. ~some12 /\ code(4) /\ ~some37 /\ ~some5
    BY <1>3
  <2> QED  BY <1>2, <1>3, <2>1
<1>6. op \in {3, 7} => ReadRequest(m) = [op |-> op, fields |-> <<>>]
  <2> SUFFICES ASSUME op \in {3, 7} PROVE ReadRequest(m) = [op |-> op, fields |-> <<>>]
    OBVIOUS
  <2>1. ~some12 /\ ~code(4) /\ some37 /\ ~some5
    BY <1>3
  <2> QED  BY <1>2, <1>3, <2>1
<1>7. op \in {5, 6, 8, 12} => ReadRequest(m) = [op |-> op, fields |-> <<whole>>]
  <2> SUFFICES ASSUME op \in {5, 6, 8, 12} PROVE ReadRequest(m) = [op |-> op, fields |-> <<whole>>]
    OBVIOUS
  <2>1. ~some12 /\ ~code(4) /\ ~some37 /\ some5
    BY <1>3
  <2> QED  BY <1>2, <1>3, <2>1
<1> QED  BY <1>4, <1>5, <1>6, <1>7 DEF words, follow, whole

\* FOLLOW with its two fields: a character, a blank, a word
LEMMA FollowIs ==
  ASSUME NEW t \in Seq(Letter), Len(Split(t, Blank)) = 2, Len(Split(t, Blank)[1]) = 1,
         <<>> \notin ToSet(Split(t, Blank))
  PROVE  /\ Split(t, Blank) = <<<<t[1]>>, SubSeq(t, 3, Len(t))>>
         /\ WithoutBlanks(t) = <<t[1]>> \o SubSeq(t, 3, Len(t))
         /\ 3 <= Len(t)
<1> DEFINE n == Len(t)
           f == Split(t, Blank)
           P(k) == Part(t, Blank, k)
           B(i) == Before(t, Blank, i)
<1>1. n \in Nat /\ DOMAIN t = 1 .. n /\ \A i \in 1 .. n : t[i] \in Letter
  BY LenProperties, ElementOfSeq
<1>2. f \in Seq(Seq(Letter)) /\ B(n) = 1 /\ f[1] # <<>> /\ f[2] # <<>>
  <2>1. f \in Seq(Seq(Letter)) /\ 2 = B(n) + 1 /\ B(n) \in Nat
    BY <1>1, SplitType, BeforeNext
  <2>2. 1 \in DOMAIN f /\ 2 \in DOMAIN f
    BY <2>1, LenProperties
  <2> QED  BY <2>1, <2>2 DEF ToSet
<1>3. ASSUME NEW k \in 1 .. 2
      PROVE  f[k] = SubSeq(t, Min(P(k)), Max(P(k))) /\ P(k) # {}
  <2>1. f = [j \in 1 .. B(n) + 1 |->
               IF P(j) = {} THEN <<>> ELSE SubSeq(t, Min(P(j)), Max(P(j)))]
    BY SplitIs
  <2>2. f[k] = IF P(k) = {} THEN <<>> ELSE SubSeq(t, Min(P(k)), Max(P(k)))
    <3>1. k \in 1 .. B(n) + 1
      BY <1>2
    <3> HIDE DEF f, P, B
    <3> QED  BY <2>1, <3>1
  <2>3. f[k] # <<>>
    <3> HIDE DEF f
    <3> QED  BY <1>2
  <2> QED  BY <2>2, <2>3
<1> DEFINE a == Min(P(1))
           b == Max(P(1))
           c == Min(P(2))
           d == Max(P(2))
<1>4. /\ a \in P(1) /\ b \in P(1) /\ c \in P(2) /\ d \in P(2)
      /\ a \in 1 .. n /\ b \in 1 .. n /\ a <= b /\ P(1) = a .. b
      /\ c \in 1 .. n /\ d \in 1 .. n /\ c <= d /\ P(2) = c .. d
  BY <1>3, PartEnds
<1>5. \A i \in 1 .. n : t[i] # Blank => (i \in P(1) <=> B(i) = 0) /\ (i \in P(2) <=> B(i) = 1)
  BY <1>1 DEF Part
<1>6. \A i \in 1 .. n : (i \in P(1) => B(i) = 0 /\ t[i] # Blank) /\ (i \in P(2) => B(i) = 1 /\ t[i] # Blank)
  BY DEF Part
<1>7. \A i, j \in 0 .. n : i <= j => B(i) \in Nat /\ B(j) \in Nat /\ B(i) <= B(j)
  <2> TAKE i, j \in 0 .. n
  <2>1. i \in Nat /\ j \in Nat
    BY <1>1
  <2> QED  BY <2>1, BeforeUp, BeforeNext
<1>8. \A i \in 0 .. n - 1 : B(i + 1) = IF t[i + 1] = Blank THEN B(i) + 1 ELSE B(i)
  <2> TAKE i \in 0 .. n - 1
  <2>1. i \in Nat
    BY <1>1
  <2> QED  BY <2>1, BeforeEach
<1>9. B(0) = 0
  BY BeforeNext
<1>10. f[1] = SubSeq(t, a, b) /\ f[2] = SubSeq(t, c, d)
  BY <1>3
<1>11. Len(SubSeq(t, a, b)) = b - a + 1
  <2> HIDE DEF a, b
  <2> QED  BY <1>1, <1>4
<1>12. b = a
  <2>1. b - a + 1 = 1
    BY <1>10, <1>11
  <2> HIDE DEF a, b
  <2> QED  BY <1>4, <2>1
<1> HIDE DEF a, b, c, d, P, B, f, n
<1>13. a = 1
  <2>1. B(1) \in Nat /\ B(1) <= B(a) /\ B(a) = 0
    BY <1>1, <1>4, <1>6, <1>7
  <2>2. t[1] # Blank /\ 1 \in 1 .. n
    <3>1. 0 \in 0 .. n - 1 /\ 0 + 1 = 1
      BY <1>1, <1>4
    <3>2. B(1) = IF t[1] = Blank THEN B(0) + 1 ELSE B(0)
      BY <1>8, <3>1
    <3> QED  BY <1>1, <1>4, <1>9, <2>1, <3>2
  <2>3. 1 \in P(1)
    BY <1>5, <2>1, <2>2
  <2> QED  BY <1>4, <1>12, <2>3
<1>14. 2 \in 1 .. n /\ t[2] = Blank /\ B(2) = 1
  <2>1. n # 1
    <3>1. SUFFICES ASSUME n = 1 PROVE FALSE
      OBVIOUS
    <3>2. B(1) = 0
      BY <1>4, <1>6, <1>13
    <3> QED  BY <1>2, <3>1, <3>2
  <2>2. 2 \in 1 .. n /\ 1 \in 0 .. n - 1 /\ 1 + 1 = 2
    BY <1>1, <1>4, <2>1
  <2>3. B(2) = IF t[2] = Blank THEN B(1) + 1 ELSE B(1)
    BY <1>8, <2>2
  <2>4. B(1) = 0
    BY <1>4, <1>6, <1>13
  <2>5. t[2] = Blank
    <3>1. SUFFICES ASSUME t[2] # Blank PROVE FALSE
      OBVIOUS
    <3>2. 2 \in P(1)
      BY <1>5, <2>2, <2>3, <2>4, <3>1
    <3> QED  BY <1>4, <1>12, <1>13, <3>2
  <2> QED  BY <2>2, <2>3, <2>4, <2>5
<1>15. \A i \in 3 .. n : B(i) = 1 /\ t[i] # Blank /\ i \in P(2)
  <2> TAKE i \in 3 .. n
  <2>1. i \in 1 .. n /\ i \in 0 .. n /\ i - 1 \in 0 .. n - 1 /\ i - 1 \in 0 .. n /\ (i - 1) + 1 = i
        /\ 2 \in 0 .. n /\ n \in 0 .. n /\ 2 <= i - 1 /\ 2 <= i /\ i <= n /\ i - 1 <= n
    BY <1>1
  <2>2. B(2) <= B(i - 1) /\ B(i - 1) <= B(n) /\ B(2) <= B(i) /\ B(i) <= B(n)
        /\ B(i) \in Nat /\ B(i - 1) \in Nat
    BY <1>7, <2>1
  <2>3. B(i) = 1 /\ B(i - 1) = 1
    BY <1>2, <1>14, <2>2
  <2>4. B(i) = IF t[i] = Blank THEN B(i - 1) + 1 ELSE B(i - 1)
    BY <1>8, <2>1
  <2>5. t[i] # Blank
    BY <2>3, <2>4
  <2> QED  BY <1>5, <2>1, <2>3, <2>5
<1>16. c = 3 /\ d = n /\ 3 <= n
  <2>1. c # 1 /\ c # 2
    <3>1. B(1) = 0 /\ B(c) = 1 /\ t[c] # Blank
      BY <1>4, <1>6, <1>13
    <3> QED  BY <1>14, <3>1
  <2>2. c \in 3 .. n /\ 3 <= n
    BY <1>1, <1>4, <2>1
  <2>3. 3 \in P(2) /\ n \in P(2)
    BY <1>1, <1>15, <2>2
  <2> QED  BY <1>1, <1>4, <2>2, <2>3
<1>17. SubSeq(t, 1, 1) = <<t[1]>>
  <2>1. 1 \in 1 .. Len(t) /\ Len(t) \in Nat
    BY <1>1, <1>16 DEF n
  <2>2. Len(SubSeq(t, 1, 1)) = 1 /\ SubSeq(t, 1, 1)[1] = t[1] /\ SubSeq(t, 1, 1) \in Seq(Letter)
    BY <2>1, SubSeqProperties
  <2> DEFINE x == SubSeq(t, 1, 1)
  <2> HIDE DEF x
  <2>3. x \in Seq(Letter) /\ Len(x) = 1 /\ x[1] = t[1]
    BY <2>2 DEF x
  <2>4. x = <<t[1]>>
    BY <2>3
  <2> QED  BY <2>4 DEF x
<1>18. f = <<f[1], f[2]>>
  <2>1. f \in Seq(Seq(Letter)) /\ Len(f) = 2
    BY <1>2 DEF f
  <2> QED  BY <2>1
<1>19. f = <<<<t[1]>>, SubSeq(t, 3, n)>>
  BY <1>10, <1>12, <1>13, <1>16, <1>17, <1>18
<1>20. WithoutBlanks(t) = <<t[1]>> \o SubSeq(t, 3, Len(t))
  <2>1. t[1] # Blank
    BY <1>4, <1>6, <1>13
  <2> QED  BY <1>14, <1>15, <1>16, <2>1, KeptWord DEF n
<1> QED  BY <1>16, <1>19, <1>20 DEF f, n


\* the body of a message between its opcode and its last byte
LEMMA WholeIs ==
  ASSUME NEW T, NEW m \in Seq(T), NEW s \in Seq(T), NEW b \in T, 2 <= Len(m),
         SubSeq(m, 3, Len(m)) = s \o <<b>>
  PROVE  SubSeq(m, 3, Len(m) - 1) = s
<1>1. Len(m) \in Nat /\ Len(s) \in Nat /\ s \o <<b>> \in Seq(T) /\ Len(s \o <<b>>) = Len(s) + 1
      /\ DOMAIN s = 1 .. Len(s)
  BY LenProperties, ConcatProperties
<1>2. Len(m) = Len(s) + 3
  <2>1. Len(SubSeq(m, 3, Len(m))) = Len(m) - 2
    BY <1>1, SubSeqProperties
  <2> QED  BY <1>1, <2>1
<1> DEFINE w == SubSeq(m, 3, Len(m) - 1)
           all == SubSeq(m, 3, Len(m))
<1>3. w \in Seq(T) /\ Len(w) = Len(s)
  <2>1. Len(m) - 1 <= Len(m) /\ 2 <= Len(m) - 1 /\ Len(m) - 1 \in Nat
    BY <1>1, <1>2
  <2> QED  BY <1>1, <1>2, <2>1, SubSeqProperties
<1>4. \A i \in 1 .. Len(s) : w[i] = s[i]
  <2> TAKE i \in 1 .. Len(s)
  <2>1. w[i] = m[3 + i - 1]
    BY <1>1, <1>2, SubSeqProperties
  <2>2. all[i] = m[3 + i - 1]
    BY <1>1, <1>2, SubSeqProperties
  <2>3. (s \o <<b>>)[i] = s[i]
    BY <1>1
  <2> QED  BY <2>1, <2>2, <2>3
<1> HIDE DEF w
<1>5. w = s
  BY <1>1, <1>3, <1>4
<1> QED  BY <1>5 DEF w

\* a message has the opcode of its command
LEMMA SameOpcode ==
  ASSUME NEW line, IsLine(line), line.word \in DOMAIN Op
  PROVE  ReadRequest(Message(line)).op = Op[line.word]
<1> DEFINE m == Message(line)
           op == Op[line.word]
<1>1. op \in Ops /\ SubSeq(m, 1, 2) = Two(op)
  BY Opcodes, MessageIs
<1> HIDE DEF m, op
<1>2. op \in {1, 2} \/ op = 4 \/ op \in {3, 7} \/ op \in {5, 6, 8, 12}
  BY <1>1 DEF Ops
<1>3. ReadRequest(m).op = op
  BY <1>1, <1>2, ReadIs
<1> QED  BY <1>3 DEF m, op

\* the text of REGISTER and of LOGIN, whose parts are separated by NUL as they were by blanks
LEMMA WordsRead ==
  ASSUME NEW t \in Seq(Letter), <<>> \notin ToSet(Split(t, Blank))
  PROVE  LET r == ReplaceAll(t, Blank, NUL)
         IN  /\ Trimmed(Split(r, NUL)) = Split(t, Blank)
             /\ Trimmed(Split(r \o <<NUL>>, NUL)) = Split(t, Blank)
<1> DEFINE r == ReplaceAll(t, Blank, NUL)
           F == Split(t, Blank)
<1>1. Split(r, NUL) = F
  BY SplitReplaced
<1>2. F \in Seq(Seq(Letter)) /\ Len(F) = Before(t, Blank, Len(t)) + 1
  BY SplitType
<1>3. F # <<>>
  <2>1. Before(t, Blank, Len(t)) \in Nat
    BY BeforeNext, LenProperties
  <2> HIDE DEF F
  <2> QED  BY <1>2, <2>1, EmptySeq
<1>4. r \in Seq(Ascii) /\ NUL \in Ascii
  <2>1. \A i \in 1 .. Len(t) : t[i] \in Letter
    BY ElementOfSeq, LenProperties
  <2>2. \A i \in 1 .. Len(t) : (IF t[i] = Blank THEN NUL ELSE t[i]) \in Ascii
    BY <2>1 DEF NUL, Ascii, Letter
  <2>3. Len(t) \in Nat
    BY LenProperties
  <2>4. r = [i \in 1 .. Len(t) |-> IF t[i] = Blank THEN NUL ELSE t[i]]
    BY DEF ReplaceAll
  <2>5. [i \in 1 .. Len(t) |-> IF t[i] = Blank THEN NUL ELSE t[i]] \in Seq(Ascii)
    BY <2>2, <2>3
  <2>6. NUL \in Ascii
    BY DEF NUL, Ascii
  <2> HIDE DEF r
  <2> QED  BY <2>4, <2>5, <2>6
<1>5. Split(r \o <<NUL>>, NUL) = Append(F, <<>>)
  BY <1>1, <1>4, SplitOpen
<1> HIDE DEF F, r
<1>6. Trimmed(F) = F /\ Trimmed(Append(F, <<>>)) = F
  BY <1>2, <1>3, TrimmedWhole DEF F
<1>7. Trimmed(Split(r, NUL)) = F /\ Trimmed(Split(r \o <<NUL>>, NUL)) = F
  BY <1>1, <1>5, <1>6
<1> QED  BY <1>7 DEF F, r

\* the parts of FOLLOW in its message w and NUL
LEMMA FollowParts ==
  ASSUME NEW T, NEW w \in Seq(T), NEW b \in T
  PROVE  /\ SubSeq(w \o <<b>>, 1, 1) \in Seq(T) /\ Len(SubSeq(w \o <<b>>, 1, 1)) = 1
         /\ SubSeq(w \o <<b>>, 1, 1) = IF w = <<>> THEN <<b>> ELSE <<w[1]>>
         /\ SubSeq(w, 2, Len(w)) \in Seq(T)
<1> DEFINE x == w \o <<b>>
           y == SubSeq(x, 1, 1)
<1>1. Len(w) \in Nat /\ x \in Seq(T) /\ Len(x) = Len(w) + 1
  BY LenProperties, ConcatProperties
<1>2. y \in Seq(T) /\ Len(y) = 1 /\ y[1] = x[1]
  <2>1. 1 \in 1 .. Len(x)
    BY <1>1
  <2> HIDE DEF x
  <2> QED  BY <1>1, <2>1, SubSeqProperties
<1>3. x[1] = IF w = <<>> THEN b ELSE w[1]
  BY <1>1, EmptySeq
<1>4. SubSeq(w, 2, Len(w)) \in Seq(T)
  BY <1>1, SubSeqProperties
<1> HIDE DEF y
<1>5. y = <<x[1]>>
  BY <1>2
<1>6. y = IF w = <<>> THEN <<b>> ELSE <<w[1]>>
  BY <1>3, <1>5
<1> QED  BY <1>2, <1>4, <1>6 DEF y

\* the name is what follows the first character
LEMMA FollowName ==
  ASSUME NEW T, NEW a \in T, NEW s \in Seq(T)
  PROVE  LET w == <<a>> \o s
         IN  w \in Seq(T) /\ w # <<>> /\ w[1] = a /\ SubSeq(w, 2, Len(w)) = s
<1>1. <<a>> \in Seq(T) /\ Len(<<a>>) = 1
  OBVIOUS
<1> DEFINE w == <<a>> \o s
<1>2. w \in Seq(T) /\ Len(w) = Len(<<a>>) + Len(s) /\ SubSeq(w, Len(<<a>>) + 1, Len(w)) = s
  BY <1>1, Behind
<1>3. Len(s) \in Nat /\ w[1] = a
  BY LenProperties
<1>4. w # <<>>
  <2> HIDE DEF w
  <2> QED  BY <1>1, <1>2, <1>3, EmptySeq
<1> QED  BY <1>1, <1>2, <1>3, <1>4

(***************************************************************************)
(* A well-formed line, of any length, is read by the server as it was      *)
(* meant: opcode and fields, through Encoder's blanks that become NULs and *)
(* what the branches of process make of them.                              *)
(***************************************************************************)
THEOREM SameRequest ==
  ASSUME NEW line, IsLine(line), line.word \in DOMAIN Op, WellFormed(line)
  PROVE  ReadRequest(Message(line)) = Meant(line)
<1> DEFINE m == Message(line)
           op == Op[line.word]
           t == Text(line)
           rest == SubSeq(m, 3, Len(m))
           whole == SubSeq(m, 3, Len(m) - 1)
<1>1. /\ op \in Ops /\ SubSeq(m, 1, 2) = Two(op)
      /\ m \in Seq(Ascii) /\ rest = Body(line) /\ Len(m) = Len(Body(line)) + 2
      /\ t \in Seq(Letter) /\ Body(line) \in Seq(Ascii)
  BY Opcodes, MessageIs, TextIs, BodyIs
<1>2. 2 <= Len(m)
  BY <1>1, LenProperties
<1>3. Letter \subseteq Ascii /\ NUL \in Ascii
  BY DEF Letter, Ascii, NUL
<1>4. \A s \in Seq(Letter) : Body(line) = s \o <<NUL>> => whole = s
  <2> TAKE s \in Seq(Letter)
  <2>1. s \in Seq(Ascii)
    BY <1>3, SeqMonotonic
  <2>2. SUFFICES ASSUME Body(line) = s \o <<NUL>> PROVE whole = s
    OBVIOUS
  <2> HIDE DEF m
  <2> QED  BY <1>1, <1>2, <1>3, <2>1, <2>2, WholeIs
<1>5. /\ op \in {1, 2} => ReadRequest(m) = [op |-> op, fields |-> Trimmed(Split(rest, NUL))]
      /\ op = 4 =>
           ReadRequest(m) = [op |-> 4, fields |-> <<SubSeq(rest, 1, 1), SubSeq(whole, 2, Len(whole))>>]
      /\ op \in {3, 7} => ReadRequest(m) = [op |-> op, fields |-> <<>>]
      /\ op \in {5, 6, 8, 12} => ReadRequest(m) = [op |-> op, fields |-> <<whole>>]
  <2> HIDE DEF m, op
  <2> QED  BY <1>1, ReadIs
<1>6. CASE line.word \in {"REGISTER", "LOGIN"}
  <2>1. op \in {1, 2} /\ Meant(line) = [op |-> op, fields |-> Split(t, Blank)]
    BY <1>6 DEF Op, Meant
  <2>2. <<>> \notin ToSet(Split(t, Blank))
    BY <2>1 DEF WellFormed
  <2>3. Body(line) \in {ReplaceAll(t, Blank, NUL), ReplaceAll(t, Blank, NUL) \o <<NUL>>}
    BY <1>6 DEF Body
  <2>4. Trimmed(Split(rest, NUL)) = Split(t, Blank)
    <3> HIDE DEF rest, t
    <3> QED  BY <1>1, <2>2, <2>3, WordsRead
  <2> QED  BY <1>5, <2>1, <2>4
<1>7. CASE line.word = "FOLLOW"
  <2> DEFINE F == Split(t, Blank)
             s == SubSeq(t, 3, Len(t))
             w == WithoutBlanks(t)
  <2>1. op = 4 /\ Meant(line) = [op |-> 4, fields |-> F]
    BY <1>7 DEF Op, Meant
  <2>2. Len(F) = 2 /\ Len(F[1]) = 1 /\ <<>> \notin ToSet(F)
    BY <1>7, <2>1 DEF WellFormed
  <2>3. F = <<<<t[1]>>, s>> /\ w = <<t[1]>> \o s /\ 3 <= Len(t)
    BY <1>1, <2>2, FollowIs
  <2>4. t[1] \in Letter /\ s \in Seq(Letter)
    <3> HIDE DEF t
    <3>1. Len(t) \in Nat /\ 1 \in 1 .. Len(t)
      BY <1>1, <2>3, LenProperties
    <3>2. t[1] \in Letter
      BY <1>1, <3>1, ElementOfSeq
    <3>3. s \in Seq(Letter)
      BY <1>1, <2>3, <3>1, SubSeqProperties
    <3> QED  BY <3>2, <3>3
  <2>5. w \in Seq(Letter) /\ w # <<>> /\ w[1] = t[1] /\ SubSeq(w, 2, Len(w)) = s
    <3> HIDE DEF w, s, t
    <3> QED  BY <2>3, <2>4, FollowName
  <2>6. Body(line) = w \o <<NUL>>
    BY <1>7 DEF Body
  <2>7. whole = w
    BY <1>4, <2>5, <2>6
  <2>8. SubSeq(rest, 1, 1) = <<t[1]>>
    <3>1. w \in Seq(Ascii)
      BY <1>3, <2>5, SeqMonotonic
    <3>2. rest = w \o <<NUL>>
      BY <1>1, <2>6
    <3> HIDE DEF w, t, rest
    <3>3. SubSeq(w \o <<NUL>>, 1, 1) = IF w = <<>> THEN <<NUL>> ELSE <<w[1]>>
      BY <1>3, <3>1, FollowParts
    <3> QED  BY <2>5, <3>2, <3>3
  <2>9. <<SubSeq(rest, 1, 1), SubSeq(whole, 2, Len(whole))>> = F
    <3> HIDE DEF w, t, rest, whole, F, s
    <3> QED  BY <2>3, <2>5, <2>7, <2>8
  <2> HIDE DEF F
  <2> QED  BY <1>5, <2>1, <2>9
<1>8. CASE line.word \in {"LOGOUT", "LOGSTAT"}
  <2>1. op \in {3, 7} /\ Meant(line) = [op |-> op, fields |-> <<>>]
    BY <1>8 DEF Op, Meant
  <2> QED  BY <1>5, <2>1
<1>9. CASE line.word \in {"POST", "PM", "STAT", "BLOCK"}
  <2>1. op \in {5, 6, 8, 12} /\ Meant(line) = [op |-> op, fields |-> <<t>>]
    BY <1>9 DEF Op, Meant
  <2>2. Body(line) = t \o <<NUL>>
    BY <1>9 DEF Body
  <2>3. whole = t
    BY <1>1, <1>4, <2>2
  <2> QED  BY <1>5, <2>1, <2>3
<1>10. line.word \in {"REGISTER", "LOGIN", "FOLLOW", "LOGOUT", "LOGSTAT", "POST", "PM", "STAT", "BLOCK"}
  BY DEF Op
<1> QED  BY <1>6, <1>7, <1>8, <1>9, <1>10

\* a message that begins like none of the requests
LEMMA ReadNone ==
  ASSUME NEW m, \A op \in Ops : SubSeq(m, 1, 2) # Two(op)
  PROVE  ReadRequest(m) = [op |-> 0, fields |-> <<>>]
<1> DEFINE code(op) == Two(op) = SubSeq(m, 1, 2)
<1>1. /\ ~(\E op \in {1, 2} : code(op)) /\ ~code(4) /\ ~(\E op \in {3, 7} : code(op))
      /\ ~(\E op \in {5, 6, 8, 12} : code(op))
  BY DEF Ops
<1> QED  BY <1>1 DEF ReadRequest

\* the parts that process takes from the messages it answers with them
LEMMA ReadFields ==
  ASSUME NEW m \in Seq(Byte), ~Malformed(m)
  PROVE  LET r == ReadRequest(m)
         IN  /\ r.op \in Ops \cup {0}
             /\ r.op = 4 => r.fields[1] \in Seq(Byte) /\ r.fields[2] \in Seq(Byte)
             /\ r.op \in {5, 6} => r.fields[1] \in Seq(Byte)
<1> DEFINE r == ReadRequest(m)
           rest == SubSeq(m, 3, Len(m))
           whole == SubSeq(m, 3, Len(m) - 1)
<1>1. CASE \E op \in Ops : SubSeq(m, 1, 2) = Two(op)
  <2>1. PICK op \in Ops : SubSeq(m, 1, 2) = Two(op)
    BY <1>1
  <2>2. /\ op \in {1, 2} => r = [op |-> op, fields |-> Trimmed(Split(rest, NUL))]
        /\ op = 4 => r = [op |-> 4, fields |-> <<SubSeq(rest, 1, 1), SubSeq(whole, 2, Len(whole))>>]
        /\ op \in {3, 7} => r = [op |-> op, fields |-> <<>>]
        /\ op \in {5, 6, 8, 12} => r = [op |-> op, fields |-> <<whole>>]
    BY <2>1, ReadIs
  <2>3. op \in {1, 2} \/ op = 4 \/ op \in {3, 7} \/ op \in {5, 6, 8, 12}
    BY DEF Ops
  <2>4. r.op = op
    <3> HIDE DEF r, rest, whole
    <3> QED  BY <2>2, <2>3
  <2>5. Len(m) \in Nat /\ (op \in {4, 5, 6} => 3 <= Len(m))
    <3>1. ~(r.op \in {4, 5, 6} /\ Len(m) = 2)
      BY DEF Malformed
    <3>2. Len(m) \in Nat /\ ~(Len(m) < 2)
      BY LenProperties DEF Malformed
    <3>3. op \in {4, 5, 6} => Len(m) # 2
      BY <2>4, <3>1, Zenon
    <3>4. \A n \in Nat : ~(n < 2) /\ n # 2 => 3 <= n
      OBVIOUS
    <3> QED  BY <3>2, <3>3, <3>4, Zenon
  <2>6. op \in {4, 5, 6} => whole \in Seq(Byte) /\ rest \in Seq(Byte) /\ 1 <= Len(rest)
    <3>1. SUFFICES ASSUME op \in {4, 5, 6}
                   PROVE  whole \in Seq(Byte) /\ rest \in Seq(Byte) /\ 1 <= Len(rest)
      OBVIOUS
    <3>2. 3 <= Len(m) /\ Len(m) \in Nat
      BY <2>5, <3>1
    <3> QED  BY <3>2, SubSeqProperties
  <2>7. op = 4 => SubSeq(rest, 1, 1) \in Seq(Byte) /\ SubSeq(whole, 2, Len(whole)) \in Seq(Byte)
    <3> HIDE DEF rest, whole
    <3>1. SUFFICES ASSUME op = 4
                   PROVE  SubSeq(rest, 1, 1) \in Seq(Byte) /\ SubSeq(whole, 2, Len(whole)) \in Seq(Byte)
      OBVIOUS
    <3>2. whole \in Seq(Byte) /\ rest \in Seq(Byte) /\ 1 <= Len(rest) /\ Len(rest) \in Nat /\ Len(whole) \in Nat
      BY <2>6, <3>1, LenProperties
    <3> QED  BY <3>2, SubSeqProperties
  <2> DEFINE a == SubSeq(rest, 1, 1)
             name == SubSeq(whole, 2, Len(whole))
  <2>8. /\ r.op = 4 => r = [op |-> 4, fields |-> <<a, name>>] /\ a \in Seq(Byte) /\ name \in Seq(Byte)
        /\ r.op \in {5, 6} => r = [op |-> op, fields |-> <<whole>>] /\ whole \in Seq(Byte)
    BY <2>2, <2>4, <2>6, <2>7
  <2> HIDE DEF r, rest, whole, a, name
  <2>9. /\ r.op \in Ops \cup {0}
        /\ r.op = 4 => r.fields[1] \in Seq(Byte) /\ r.fields[2] \in Seq(Byte)
        /\ r.op \in {5, 6} => r.fields[1] \in Seq(Byte)
    BY <2>4, <2>8
  <2> QED  BY <2>9 DEF r
<1>2. CASE \A op \in Ops : SubSeq(m, 1, 2) # Two(op)
  <2>1. r = [op |-> 0, fields |-> <<>>]
    BY <1>2, ReadNone
  <2> QED  BY <2>1
<1> QED  BY <1>1, <1>2

\* the same of a line: no NUL in what may come back to a client
LEMMA LineFields ==
  ASSUME NEW line, IsLine(line), line.word \in DOMAIN Op
  PROVE  LET r == ReadRequest(Message(line))
         IN  /\ r.op = 4 => /\ r.fields[1] \in Seq(Byte) /\ Len(r.fields[1]) = 1
                            /\ r.fields[2] \in Seq(Letter)
             /\ r.op \in {5, 6} => r.fields[1] \in Seq(Letter)
<1> DEFINE m == Message(line)
           op == Op[line.word]
           t == Text(line)
           w == WithoutBlanks(t)
           rest == SubSeq(m, 3, Len(m))
           whole == SubSeq(m, 3, Len(m) - 1)
           r == ReadRequest(m)
<1>1. /\ op \in Ops /\ SubSeq(m, 1, 2) = Two(op)
      /\ m \in Seq(Ascii) /\ rest = Body(line) /\ Len(m) = Len(Body(line)) + 2
      /\ t \in Seq(Letter) /\ Body(line) \in Seq(Ascii)
  BY Opcodes, MessageIs, TextIs, BodyIs
<1>2. 2 <= Len(m) /\ Len(m) \in Nat
  BY <1>1, LenProperties
<1>3. Letter \subseteq Byte /\ Ascii \subseteq Byte /\ NUL \in Byte
  BY DEF Letter, Ascii, Byte, NUL
<1>4. m \in Seq(Byte)
  BY <1>1, <1>3, SeqMonotonic
<1>5. \A s \in Seq(Letter) : s \in Seq(Byte)
  BY <1>3, SeqMonotonic
<1>6. \A s \in Seq(Letter) : Body(line) = s \o <<NUL>> => whole = s
  <2> TAKE s \in Seq(Letter)
  <2>1. s \in Seq(Byte)
    BY <1>5
  <2>2. SUFFICES ASSUME Body(line) = s \o <<NUL>> PROVE whole = s
    OBVIOUS
  <2> HIDE DEF m
  <2> QED  BY <1>1, <1>2, <1>3, <1>4, <2>1, <2>2, WholeIs
<1>7. /\ op = 4 => r = [op |-> 4, fields |-> <<SubSeq(rest, 1, 1), SubSeq(whole, 2, Len(whole))>>]
      /\ op \in {5, 6, 8, 12} => r = [op |-> op, fields |-> <<whole>>]
  <2> HIDE DEF m, op
  <2> QED  BY <1>1, ReadIs
<1>8. r.op = op
  BY SameOpcode
<1>9. ASSUME op = 4
      PROVE  r.fields[1] \in Seq(Byte) /\ Len(r.fields[1]) = 1 /\ r.fields[2] \in Seq(Letter)
  <2>1. line.word = "FOLLOW"
    BY <1>9 DEF Op
  <2>2. Body(line) = w \o <<NUL>>
    BY <2>1 DEF Body
  <2>3. w \in Seq(Letter)
    BY <1>1, KeptFrom
  <2>4. whole = w /\ rest = w \o <<NUL>> /\ w \in Seq(Byte)
    BY <1>1, <1>5, <1>6, <2>2, <2>3
  <2> HIDE DEF w, rest, whole, t
  <2>5. SubSeq(w \o <<NUL>>, 1, 1) \in Seq(Byte) /\ Len(SubSeq(w \o <<NUL>>, 1, 1)) = 1
    BY <1>3, <2>4, FollowParts
  <2>6. SubSeq(w, 2, Len(w)) \in Seq(Letter)
    <3>1. \E b : b \in Letter
      BY DEF Letter
    <3> QED  BY <2>3, <3>1, FollowParts
  <2> DEFINE a == SubSeq(w \o <<NUL>>, 1, 1)
             name == SubSeq(w, 2, Len(w))
  <2>7. r.fields = <<a, name>>
    BY <1>7, <1>9, <2>4
  <2>8. a \in Seq(Byte) /\ Len(a) = 1 /\ name \in Seq(Letter)
    BY <2>5, <2>6
  <2> HIDE DEF r, a, name
  <2> QED  BY <2>7, <2>8
<1>10. ASSUME op \in {5, 6}
       PROVE  r.fields[1] \in Seq(Letter)
  <2>1. line.word \in {"POST", "PM"}
    BY <1>10 DEF Op
  <2>2. Body(line) = t \o <<NUL>>
    BY <2>1 DEF Body
  <2>3. whole = t
    BY <1>1, <1>6, <2>2
  <2> HIDE DEF r, whole, t, op
  <2> QED  BY <1>1, <1>7, <1>10, <2>3
<1> QED  BY <1>8, <1>9, <1>10

-----------------------------------------------------------------------------
(* What is sent of an answer, part by part *)

\* the bytes of a number, and what the client makes of them, for the numbers of LOGSTAT
LEMMA ShortIs ==
  /\ \A n \in Int : ShortToBytes(n) \in Seq(Byte) /\ Len(ShortToBytes(n)) = 2
  /\ \A n \in {-1, 300, 32767, 59} : BytesToShort(ShortToBytes(n)) = n
<1>1. ASSUME NEW n \in Int
      PROVE  ShortToBytes(n) \in Seq(Byte) /\ Len(ShortToBytes(n)) = 2
  <2> DEFINE a == (n \div 256) % 256
             b == n % 256
  <2>1. a \in Byte /\ b \in Byte
    BY DEF Byte
  <2>2. ShortToBytes(n) = <<a, b>>
    BY DEF ShortToBytes
  <2> HIDE DEF a, b
  <2>3. <<a, b>> \in Seq(Byte) /\ Len(<<a, b>>) = 2
    BY <2>1
  <2> QED  BY <2>2, <2>3
<1>2. 2 ^ 15 = 32768 /\ 2 ^ 16 = 65536
  OBVIOUS
<1>3. ASSUME NEW a \in Int, NEW b \in Int
      PROVE  BytesToShort(<<a, b>>) = IF 256 * a + b < 32768 THEN 256 * a + b ELSE 256 * a + b - 65536
  <2> DEFINE x == <<a, b>>
             n == 256 * x[1] + x[2]
  <2>1. BytesToShort(x) = IF n < 2 ^ 15 THEN n ELSE n - 2 ^ 16
    BY DEF BytesToShort
  <2>2. n = 256 * a + b
    OBVIOUS
  <2> HIDE DEF n, x
  <2>3. BytesToShort(x) = IF n < 32768 THEN n ELSE n - 65536
    BY <1>2, <2>1
  <2> QED  BY <2>2, <2>3 DEF x
<1>4. ASSUME NEW n \in Int, n + 1 = 0
      PROVE  BytesToShort(ShortToBytes(n)) = n
  <2> DEFINE q == n \div 256
             r == n % 256
  <2>1. q + 1 = 0 /\ q \in Int
    BY <1>4
  <2>2. q % 256 = 255
    <3> HIDE DEF q
    <3> QED  BY <2>1
  <2>3. r = 255
    BY <1>4
  <2>4. ShortToBytes(n) = <<q % 256, r>>
    BY DEF ShortToBytes
  <2> HIDE DEF q, r
  <2>5. BytesToShort(<<255, 255>>) + 1 = 0 /\ BytesToShort(<<255, 255>>) \in Int
    BY <1>3
  <2> QED  BY <1>4, <2>2, <2>3, <2>4, <2>5
<1>5. /\ ShortToBytes(300) = <<1, 44>>
      /\ ShortToBytes(32767) = <<127, 255>>
      /\ ShortToBytes(59) = <<0, 59>>
  BY DEF ShortToBytes
<1>6. /\ BytesToShort(ShortToBytes(300)) = 300
      /\ BytesToShort(ShortToBytes(32767)) = 32767
      /\ BytesToShort(ShortToBytes(59)) = 59
  BY <1>3, <1>5
<1>7. \A n \in {-1, 300, 32767, 59} : BytesToShort(ShortToBytes(n)) = n
  <2>1. -1 \in Int /\ (-1) + 1 = 0
    OBVIOUS
  <2>2. BytesToShort(ShortToBytes(-1)) = -1
    BY <1>4, <2>1
  <2> QED  BY <1>6, <2>2
<1> QED  BY <1>1, <1>7

\* two bytes behind others
LEMMA PairBehind ==
  \A u, p \in Seq(Byte) : \A m \in Nat :
    Len(u) = m /\ Len(p) = 2 =>
      /\ u \o p \in Seq(Byte) /\ Len(u \o p) = m + 2
      /\ \A i \in 1 .. m : (u \o p)[i] = u[i]
      /\ (u \o p)[m + 1] = p[1] /\ (u \o p)[m + 2] = p[2]
<1> SUFFICES ASSUME NEW u \in Seq(Byte), NEW p \in Seq(Byte), NEW m \in Nat, Len(u) = m, Len(p) = 2
             PROVE  /\ u \o p \in Seq(Byte) /\ Len(u \o p) = m + 2
                    /\ \A i \in 1 .. m : (u \o p)[i] = u[i]
                    /\ (u \o p)[m + 1] = p[1] /\ (u \o p)[m + 2] = p[2]
  OBVIOUS
<1> DEFINE x == u \o p
<1>1. /\ x \in Seq(Byte) /\ Len(x) = Len(u) + Len(p)
      /\ \A i \in 1 .. Len(u) + Len(p) : x[i] = IF i <= Len(u) THEN u[i] ELSE p[i - Len(u)]
  BY ConcatProperties, Zenon
<1> HIDE DEF x
<1>2. x \in Seq(Byte) /\ Len(x) = m + 2 /\ \A i \in 1 .. m + 2 : x[i] = IF i <= m THEN u[i] ELSE p[i - m]
  BY <1>1, Zenon
<1>3. (m + 1) - m = 1 /\ (m + 2) - m = 2 /\ m + 1 \in 1 .. m + 2 /\ m + 2 \in 1 .. m + 2
      /\ ~(m + 1 <= m) /\ ~(m + 2 <= m)
  OBVIOUS
<1>4. \A i \in 1 .. m : x[i] = u[i]
  BY <1>2
<1>5. x[m + 1] = p[1] /\ x[m + 2] = p[2]
  BY <1>2, <1>3
<1> QED  BY <1>2, <1>4, <1>5 DEF x

\* a table has eight bytes, and the client makes the numbers of them again
LEMMA TableIs ==
  ASSUME NEW n \in [1 .. 4 -> Int]
  PROVE  /\ TableBytes(n) \in Seq(Byte) /\ Len(TableBytes(n)) = 8
         /\ \A i \in 1 .. 4 :
              <<TableBytes(n)[2 * i - 1], TableBytes(n)[2 * i]>> = ShortToBytes(n[i])
<1> DEFINE s(i) == ShortToBytes(n[i])
           u == s(1) \o s(2)
           v == u \o s(3)
           w == v \o s(4)
<1>1. \A i \in 1 .. 4 : s(i) \in Seq(Byte) /\ Len(s(i)) = 2
  BY ShortIs
<1>2. TableBytes(n) = w
  BY DEF TableBytes
<1> HIDE DEF s
<1>3. /\ s(1) \in Seq(Byte) /\ Len(s(1)) = 2 /\ s(2) \in Seq(Byte) /\ Len(s(2)) = 2
      /\ s(3) \in Seq(Byte) /\ Len(s(3)) = 2 /\ s(4) \in Seq(Byte) /\ Len(s(4)) = 2
  BY <1>1
<1>4. /\ u \in Seq(Byte) /\ Len(u) = 4
      /\ u[1] = s(1)[1] /\ u[2] = s(1)[2] /\ u[3] = s(2)[1] /\ u[4] = s(2)[2]
      /\ s(1) = <<s(1)[1], s(1)[2]>> /\ s(2) = <<s(2)[1], s(2)[2]>>
  <2>1. s(1)[1] = u[1] /\ s(1)[2] = u[2] /\ s(2)[1] = u[3] /\ s(2)[2] = u[4]
    <3>1. \A i \in 1 .. 2 : u[i] = s(1)[i]
      BY <1>3, PairBehind, 2 \in Nat, ZenonT(60)
    <3>2. u[2 + 1] = s(2)[1] /\ u[2 + 2] = s(2)[2]
      BY <1>3, PairBehind, 2 \in Nat, ZenonT(60)
    <3> HIDE DEF u
    <3> QED  BY <3>1, <3>2
  <2>2. u \in Seq(Byte) /\ Len(u) = 2 + 2
    BY <1>3, PairBehind, 2 \in Nat, Zenon
  <2>3. s(1) = <<s(1)[1], s(1)[2]>> /\ s(2) = <<s(2)[1], s(2)[2]>>
    BY <1>3
  <2> HIDE DEF u
  <2> QED  BY <2>1, <2>2, <2>3
<1> HIDE DEF u
<1>5. /\ v \in Seq(Byte) /\ Len(v) = 6
      /\ \A i \in 1 .. 4 : v[i] = u[i]
      /\ v[5] = s(3)[1] /\ v[6] = s(3)[2] /\ s(3) = <<s(3)[1], s(3)[2]>>
  <2>1. v \in Seq(Byte) /\ Len(v) = 4 + 2 /\ \A i \in 1 .. 4 : v[i] = u[i]
    BY <1>3, <1>4, PairBehind, 4 \in Nat, Zenon
  <2>2. v[4 + 1] = s(3)[1] /\ v[4 + 2] = s(3)[2]
    BY <1>3, <1>4, PairBehind, 4 \in Nat, Zenon
  <2>3. s(3) = <<s(3)[1], s(3)[2]>>
    BY <1>3
  <2> HIDE DEF v
  <2> QED  BY <2>1, <2>2, <2>3
<1> HIDE DEF v
<1>6. /\ w \in Seq(Byte) /\ Len(w) = 8
      /\ \A i \in 1 .. 6 : w[i] = v[i]
      /\ w[7] = s(4)[1] /\ w[8] = s(4)[2] /\ s(4) = <<s(4)[1], s(4)[2]>>
  <2>1. v \in Seq(Byte) /\ Len(v) = 6 /\ s(4) \in Seq(Byte) /\ Len(s(4)) = 2
    BY <1>3, <1>5
  <2>2. /\ w \in Seq(Byte) /\ Len(w) = 6 + 2 /\ \A i \in 1 .. 6 : w[i] = v[i]
        /\ w[6 + 1] = s(4)[1] /\ w[6 + 2] = s(4)[2]
    BY <2>1, PairBehind, 6 \in Nat, Zenon
  <2>3. s(4) = <<s(4)[1], s(4)[2]>>
    BY <1>3
  <2> HIDE DEF w
  <2> QED  BY <2>2, <2>3
<1> HIDE DEF w
<1>7. <<w[1], w[2]>> = s(1) /\ <<w[3], w[4]>> = s(2)
  <2>1. w[1] = s(1)[1] /\ w[2] = s(1)[2] /\ w[3] = s(2)[1] /\ w[4] = s(2)[2]
    BY <1>4, <1>5, <1>6
  <2> QED  BY <1>4, <2>1
<1>8. <<w[5], w[6]>> = s(3) /\ <<w[7], w[8]>> = s(4)
  <2>1. w[5] = s(3)[1] /\ w[6] = s(3)[2]
    BY <1>5, <1>6
  <2> QED  BY <1>5, <1>6, <2>1
<1>9. \A i \in 1 .. 4 : <<w[2 * i - 1], w[2 * i]>> = s(i)
  <2> TAKE i \in 1 .. 4
  <2>1. CASE i = 1
    BY <1>7, <2>1
  <2>2. CASE i = 2
    BY <1>7, <2>2
  <2>3. CASE i = 3
    BY <1>8, <2>3
  <2>4. CASE i = 4
    BY <1>8, <2>4
  <2> QED  BY <2>1, <2>2, <2>3, <2>4
<1> QED  BY <1>2, <1>6, <1>9 DEF s

\* what follows the frame of an answer
Zeros(answer) == IF IsTable(answer) THEN Padding ELSE <<>>

\* what is left of the frame of an answer before each of its parts
LastLeft(answer) == <<Semicolon>> \o Zeros(answer)
ExtraLeft(answer) == <<NUL>> \o LastLeft(answer)
UserNameLeft(answer) == (answer.fields[2] \o <<NUL>>) \o ExtraLeft(answer)
ActionLeft(answer) == answer.fields[1] \o UserNameLeft(answer)
ArgumentsLeft(answer) == TableBytes(answer.fields[1]) \o LastLeft(answer)
ContentLeft(answer) == (answer.fields[3] \o <<NUL>>) \o LastLeft(answer)
PostingUserLeft(answer) == (answer.fields[2] \o <<NUL>>) \o ContentLeft(answer)
StatLeft(answer) == answer.fields[1] \o PostingUserLeft(answer)
ArgLeft(answer) == Two(answer.op) \o LastLeft(answer)

\* ... of an ACK
OpcodeLeft(answer) ==
  Two(answer.op) \o (CASE answer.op = 4 -> ActionLeft(answer)
                        [] answer.op \in {7, 8} -> ArgumentsLeft(answer)
                        [] OTHER -> LastLeft(answer))

\* ... at each step of the decoder
Left(step, answer) ==
  CASE step = "messageOpcode" -> OpcodeLeft(answer)
    [] step = "action" -> ActionLeft(answer)
    [] step = "userName" -> UserNameLeft(answer)
    [] step = "extra" -> ExtraLeft(answer)
    [] step = "arguments" -> ArgumentsLeft(answer)
    [] step = "stat" -> StatLeft(answer)
    [] step = "postingUser" -> PostingUserLeft(answer)
    [] step = "content" -> ContentLeft(answer)
    [] step = "arg" -> ArgLeft(answer)
    [] step = "last" -> LastLeft(answer)

\* the opcodes of the answers, and bytes of their own
LEMMA Bytes ==
  /\ \A op \in Ops \cup {9, 10, 11} : Two(op) \in Seq(Byte) /\ Len(Two(op)) = 2
  /\ <<NUL>> \in Seq(Byte) /\ <<Semicolon>> \in Seq(Byte) /\ Padding \in Seq(Byte)
  /\ <<>> \in Seq(Byte)
  /\ Len(<<NUL>>) = 1 /\ Len(<<Semicolon>>) = 1 /\ Len(Padding) = 2
  /\ Padding \notin {Two(9), Two(10), Two(11)}
  /\ Two(9) # Two(10) /\ Two(9) # Two(11) /\ Two(10) # Two(11)
<1>1. NUL \in Byte /\ Semicolon \in Byte
  BY DEF NUL, Semicolon, Byte
<1>2. \A op \in Ops \cup {9, 10, 11} : Digit(op \div 10) \in 48 .. 57 /\ Digit(op % 10) \in 48 .. 57
  BY DEF Ops, Digit
<1>3. Padding = <<NUL, NUL>>
  BY DEF Padding
<1>4. \A op : Two(op) = <<Digit(op \div 10), Digit(op % 10)>>
  BY DEF Two
<1>5. 48 .. 57 \subseteq Byte
  BY DEF Byte
<1>6. \A op \in Ops \cup {9, 10, 11} : Two(op) \in Seq(Byte) /\ Len(Two(op)) = 2
  <2> TAKE op \in Ops \cup {9, 10, 11}
  <2> DEFINE x == Digit(op \div 10)
             y == Digit(op % 10)
  <2>1. x \in Byte /\ y \in Byte /\ Two(op) = <<x, y>>
    BY <1>2, <1>4, <1>5
  <2> HIDE DEF x, y
  <2> QED  BY <2>1
<1>7. Two(9) = <<48, 57>> /\ Two(10) = <<49, 48>> /\ Two(11) = <<49, 49>>
  BY DEF Two, Digit
<1>8. Padding = <<0, 0>>
  BY <1>3 DEF NUL
<1>9. Padding \notin {Two(9), Two(10), Two(11)}
  BY <1>7, <1>8
<1>10. Two(9) # Two(10) /\ Two(9) # Two(11) /\ Two(10) # Two(11)
  BY <1>7
<1>11. /\ <<NUL>> \in Seq(Byte) /\ <<Semicolon>> \in Seq(Byte) /\ Padding \in Seq(Byte)
       /\ <<>> \in Seq(Byte)
       /\ Len(<<NUL>>) = 1 /\ Len(<<Semicolon>>) = 1 /\ Len(Padding) = 2
  BY <1>1, <1>3
<1> QED  BY <1>6, <1>9, <1>10, <1>11

\* an ACK that says no more than what it acknowledges
LEMMA AckIs ==
  ASSUME NEW op \in {1, 2, 3, 5, 6, 12}, NEW a, a = Ack(op)
  PROVE  /\ a.kind = "ACK" /\ a.op = op /\ a.fields = <<>> /\ ~IsTable(a) /\ Zeros(a) = <<>>
         /\ Encode(a) = Two(10) \o OpcodeLeft(a)
         /\ OpcodeLeft(a) = Two(op) \o LastLeft(a)
         /\ LastLeft(a) = <<Semicolon>> \o <<>>
         /\ Encode(a) \in Seq(Byte) /\ OpcodeLeft(a) \in Seq(Byte)
         /\ LastLeft(a) \in Seq(Byte)
<1>1. a.kind = "ACK" /\ a.op = op /\ a.fields = <<>>
  BY DEF Ack
<1>2. ~IsTable(a) /\ Zeros(a) = <<>>
  BY <1>1 DEF IsTable, Zeros
<1>3. LastLeft(a) = <<Semicolon>> \o <<>>
  BY <1>2 DEF LastLeft
<1>4. OpcodeLeft(a) = Two(op) \o LastLeft(a)
  BY <1>1 DEF OpcodeLeft
<1>5. Encode(a) = Two(10) \o Two(op) \o <<Semicolon>>
  BY <1>1, <1>2 DEF Encode
<1>6. Two(10) \in Seq(Byte) /\ Two(op) \in Seq(Byte) /\ <<Semicolon>> \in Seq(Byte) /\ <<>> \in Seq(Byte)
  BY Bytes DEF Ops
<1>7. LastLeft(a) = <<Semicolon>>
  BY <1>3, <1>6, ConcatEmptySeq
<1>8. OpcodeLeft(a) \in Seq(Byte)
  BY <1>4, <1>6, <1>7, JoinType, Zenon
<1>9. Encode(a) = Two(10) \o OpcodeLeft(a)
  <2>1. Two(10) \o Two(op) \o <<Semicolon>> = Two(10) \o (Two(op) \o <<Semicolon>>)
    <3>1. InAnyOrder(Two(10), Two(op), <<Semicolon>>)
      BY <1>6, JoinOrder, Zenon
    <3> QED  BY <3>1 DEF InAnyOrder
  <2> QED  BY <1>4, <1>5, <1>7, <2>1, Zenon
<1>10. Encode(a) \in Seq(Byte)
  BY <1>6, <1>8, <1>9, JoinType, Zenon
<1> QED  BY <1>1, <1>2, <1>3, <1>4, <1>6, <1>7, <1>8, <1>9, <1>10

\* an ERROR
LEMMA ErrorIs ==
  ASSUME NEW op \in Ops, NEW a, a = Error(op)
  PROVE  /\ a.kind = "ERROR" /\ a.op = op /\ a.fields = <<>> /\ ~IsTable(a) /\ Zeros(a) = <<>>
         /\ Encode(a) = Two(11) \o ArgLeft(a)
         /\ ArgLeft(a) = Two(op) \o LastLeft(a)
         /\ LastLeft(a) = <<Semicolon>> \o <<>>
         /\ Encode(a) \in Seq(Byte) /\ ArgLeft(a) \in Seq(Byte) /\ LastLeft(a) \in Seq(Byte)
<1>1. a.kind = "ERROR" /\ a.op = op /\ a.fields = <<>>
  BY DEF Error
<1>2. ~IsTable(a) /\ Zeros(a) = <<>>
  BY <1>1 DEF IsTable, Zeros
<1>3. LastLeft(a) = <<Semicolon>> \o <<>>
  BY <1>2 DEF LastLeft
<1>4. ArgLeft(a) = Two(op) \o LastLeft(a)
  BY <1>1 DEF ArgLeft
<1>5. Encode(a) = Two(11) \o Two(op) \o <<Semicolon>>
  BY <1>1, <1>2 DEF Encode
<1>6. Two(11) \in Seq(Byte) /\ Two(op) \in Seq(Byte) /\ <<Semicolon>> \in Seq(Byte) /\ <<>> \in Seq(Byte)
  BY Bytes
<1>7. LastLeft(a) = <<Semicolon>>
  BY <1>3, <1>6, ConcatEmptySeq
<1>8. ArgLeft(a) \in Seq(Byte)
  BY <1>4, <1>6, <1>7, JoinType, Zenon
<1>9. Encode(a) = Two(11) \o ArgLeft(a)
  <2>1. Two(11) \o Two(op) \o <<Semicolon>> = Two(11) \o (Two(op) \o <<Semicolon>>)
    <3>1. InAnyOrder(Two(11), Two(op), <<Semicolon>>)
      BY <1>6, JoinOrder, Zenon
    <3> QED  BY <3>1 DEF InAnyOrder
  <2> QED  BY <1>4, <1>5, <1>7, <2>1, Zenon
<1>10. Encode(a) \in Seq(Byte)
  BY <1>6, <1>8, <1>9, JoinType, Zenon
<1> QED  BY <1>1, <1>2, <1>3, <1>4, <1>6, <1>7, <1>8, <1>9, <1>10

\* the numbers of a user, as ThreadPerClient has them
Row == <<-1, 300, 32767, 59>>

\* a table, with its zeros
LEMMA StatisticsIs ==
  ASSUME NEW a, a = Statistics(Row)
  PROVE  /\ a.kind = "ACK" /\ a.op = 7 /\ a.fields = <<Row>> /\ IsTable(a) /\ Zeros(a) = Padding
         /\ Encode(a) = Two(10) \o OpcodeLeft(a)
         /\ OpcodeLeft(a) = Two(7) \o ArgumentsLeft(a)
         /\ ArgumentsLeft(a) = TableBytes(Row) \o LastLeft(a)
         /\ LastLeft(a) = <<Semicolon>> \o Padding
         /\ Encode(a) \in Seq(Byte) /\ OpcodeLeft(a) \in Seq(Byte)
         /\ ArgumentsLeft(a) \in Seq(Byte) /\ LastLeft(a) \in Seq(Byte)
         /\ TableBytes(Row) \in Seq(Byte) /\ Len(TableBytes(Row)) = 8
         /\ [i \in 1 .. 4 |-> BytesToShort(<<TableBytes(Row)[2 * i - 1], TableBytes(Row)[2 * i]>>)] = Row
<1>1. a.kind = "ACK" /\ a.op = 7 /\ a.fields = <<Row>>
  BY DEF Statistics
<1>2. IsTable(a) /\ Zeros(a) = Padding
  BY <1>1 DEF IsTable, Zeros
<1>3. LastLeft(a) = <<Semicolon>> \o Padding
  BY <1>2 DEF LastLeft
<1>4. a.fields[1] = Row
  BY <1>1
<1>5. ArgumentsLeft(a) = TableBytes(Row) \o LastLeft(a)
  BY <1>4 DEF ArgumentsLeft
<1>6. OpcodeLeft(a) = Two(7) \o ArgumentsLeft(a)
  BY <1>1 DEF OpcodeLeft
<1>7. Encode(a) = Two(10) \o Two(7) \o TableBytes(Row) \o <<Semicolon>> \o Padding
  BY <1>1, <1>2, <1>4 DEF Encode
<1>8. Row \in [1 .. 4 -> Int]
  BY DEF Row
<1>9. TableBytes(Row) \in Seq(Byte) /\ Len(TableBytes(Row)) = 8
  BY <1>8, TableIs
<1>10. [i \in 1 .. 4 |-> BytesToShort(<<TableBytes(Row)[2 * i - 1], TableBytes(Row)[2 * i]>>)] = Row
  <2> DEFINE g(i) == BytesToShort(<<TableBytes(Row)[2 * i - 1], TableBytes(Row)[2 * i]>>)
  <2>1. \A i \in 1 .. 4 : g(i) = Row[i]
    <3>1. \A i \in 1 .. 4 :
            <<TableBytes(Row)[2 * i - 1], TableBytes(Row)[2 * i]>> = ShortToBytes(Row[i])
      BY <1>8, TableIs
    <3>2. \A i \in 1 .. 4 : BytesToShort(ShortToBytes(Row[i])) = Row[i]
      <4>1. \A i \in 1 .. 4 : Row[i] \in {-1, 300, 32767, 59}
        BY DEF Row
      <4>2. \A n \in {-1, 300, 32767, 59} : BytesToShort(ShortToBytes(n)) = n
        BY ShortIs
      <4> QED  BY <4>1, <4>2
    <3> QED  BY <3>1, <3>2, Zenon
  <2> HIDE DEF g
  <2>2. [i \in 1 .. 4 |-> g(i)] = Row
    BY <1>8, <2>1
  <2> QED  BY <2>2 DEF g
<1>11. /\ Two(10) \in Seq(Byte) /\ Two(7) \in Seq(Byte) /\ <<Semicolon>> \in Seq(Byte)
       /\ Padding \in Seq(Byte)
  BY Bytes DEF Ops
<1> DEFINE l == LastLeft(a)
           t == ArgumentsLeft(a)
           m == OpcodeLeft(a)
           r == TableBytes(Row)
           x == Two(10)
           y == Two(7)
           z == <<Semicolon>>
<1> HIDE DEF l, t, m, r, x, y, z
<1>12. l \in Seq(Byte) /\ t \in Seq(Byte) /\ m \in Seq(Byte) /\ x \o m \in Seq(Byte)
  <2>1. l \in Seq(Byte)
    BY <1>3, <1>11, ConcatProperties DEF l
  <2>2. t \in Seq(Byte)
    BY <1>5, <1>9, <2>1, ConcatProperties DEF l, t
  <2>3. m \in Seq(Byte)
    BY <1>6, <1>11, <2>2, ConcatProperties DEF t, m
  <2> QED  BY <1>11, <2>1, <2>2, <2>3, ConcatProperties DEF x
<1>13. Encode(a) = x \o m
  <2>1. /\ x \in Seq(Byte) /\ y \in Seq(Byte) /\ z \in Seq(Byte) /\ r \in Seq(Byte)
        /\ Padding \in Seq(Byte)
    BY <1>9, <1>11 DEF x, y, z, r
  <2>3. l = z \o Padding /\ t = r \o l /\ m = y \o t
    BY <1>3, <1>5, <1>6 DEF l, z, t, r, m, y
  <2>4. x \o y \in Seq(Byte) /\ x \o y \o r \in Seq(Byte)
    BY <2>1, JoinType, Zenon
  <2>5. /\ InAnyOrder(x \o y \o r, z, Padding)
        /\ InAnyOrder(x \o y, r, l)
        /\ InAnyOrder(x, y, t)
    BY <1>12, <2>1, <2>4, JoinOrder, Zenon
  <2>6. /\ x \o y \o r \o z \o Padding = x \o y \o r \o (z \o Padding)
        /\ x \o y \o r \o l = x \o y \o (r \o l)
        /\ x \o y \o t = x \o (y \o t)
    BY <2>5, Zenon DEF InAnyOrder
  <2>7. Encode(a) = x \o y \o r \o z \o Padding
    BY <1>7 DEF x, y, z, r
  <2> QED  BY <2>3, <2>6, <2>7, Zenon
<1> QED
  BY <1>1, <1>2, <1>3, <1>5, <1>6, <1>9, <1>10, <1>12, <1>13 DEF l, t, m, x

\* what an answer that is not a table ends with
LEMMA LastIs ==
  ASSUME NEW a, ~IsTable(a)
  PROVE  /\ Zeros(a) = <<>>
         /\ LastLeft(a) = <<Semicolon>> \o <<>>
         /\ LastLeft(a) = <<Semicolon>>
         /\ LastLeft(a) \in Seq(Byte)
<1>1. Zeros(a) = <<>>
  BY DEF Zeros
<1>2. LastLeft(a) = <<Semicolon>> \o <<>>
  BY <1>1 DEF LastLeft
<1>3. <<Semicolon>> \in Seq(Byte)
  BY Bytes
<1> QED  BY <1>1, <1>2, <1>3, ConcatEmptySeq

\* the ACK of FOLLOW
LEMMA FollowAckIs ==
  ASSUME NEW char \in Seq(Byte), NEW name \in Seq(Byte),
         NEW a, a = FollowAck(char, name)
  PROVE  /\ a.kind = "ACK" /\ a.op = 4 /\ ~IsTable(a) /\ Zeros(a) = <<>>
         /\ a.fields = <<a.fields[1], name>>
         /\ a.fields[1] \in Seq(Byte) /\ (Len(char) = 1 => Len(a.fields[1]) = 2)
         /\ Encode(a) = Two(10) \o OpcodeLeft(a)
         /\ OpcodeLeft(a) = Two(4) \o ActionLeft(a)
         /\ ActionLeft(a) = a.fields[1] \o UserNameLeft(a)
         /\ UserNameLeft(a) = (name \o <<NUL>>) \o ExtraLeft(a)
         /\ ExtraLeft(a) = <<NUL>> \o LastLeft(a)
         /\ LastLeft(a) = <<Semicolon>> \o <<>>
         /\ Encode(a) \in Seq(Byte)
         /\ OpcodeLeft(a) \in Seq(Byte) /\ ActionLeft(a) \in Seq(Byte)
         /\ UserNameLeft(a) \in Seq(Byte) /\ ExtraLeft(a) \in Seq(Byte) /\ LastLeft(a) \in Seq(Byte)
<1> DEFINE f == <<Digit(0)>> \o char
           l == LastLeft(a)
           e == ExtraLeft(a)
           u == UserNameLeft(a)
           t == ActionLeft(a)
           m == OpcodeLeft(a)
           x == Two(10)
           y == Two(4)
           z == <<NUL>>
           s == <<Semicolon>>
<1>1. a.kind = "ACK" /\ a.op = 4 /\ a.fields = <<f, name>>
  BY DEF FollowAck
<1>2. ~IsTable(a)
  BY <1>1 DEF IsTable
<1>3. f \in Seq(Byte) /\ (Len(char) = 1 => Len(f) = 2)
  <2>1. Digit(0) \in Byte
    BY DEF Digit, Byte
  <2>2. <<Digit(0)>> \in Seq(Byte) /\ Len(<<Digit(0)>>) = 1
    BY <2>1
  <2> DEFINE d == <<Digit(0)>>
  <2> HIDE DEF d
  <2>3. d \o char \in Seq(Byte) /\ Len(d \o char) = Len(d) + Len(char)
    BY <2>2, ConcatProperties DEF d
  <2>4. Len(char) = 1 => Len(d) + Len(char) = 2
    BY <2>2 DEF d
  <2> QED  BY <2>3, <2>4 DEF d
<1> HIDE DEF f
<1>4. a.fields[1] = f /\ a.fields[2] = name
  BY <1>1
<1>5. Zeros(a) = <<>> /\ l = s \o <<>> /\ l = s /\ l \in Seq(Byte)
  BY <1>2, LastIs
<1>6. /\ e = z \o l
      /\ u = (name \o z) \o e
      /\ t = f \o u
      /\ m = y \o t
  <2>1. e = z \o l
    BY DEF ExtraLeft
  <2>2. u = (name \o z) \o e
    BY <1>4 DEF UserNameLeft
  <2>3. t = f \o u
    BY <1>4 DEF ActionLeft
  <2>4. m = y \o t
    BY <1>1 DEF OpcodeLeft
  <2> QED  BY <2>1, <2>2, <2>3, <2>4
<1>7. Encode(a) = x \o y \o f \o name \o <<NUL, NUL, Semicolon>>
  BY <1>1, <1>2, <1>4 DEF Encode
<1>8. x \in Seq(Byte) /\ y \in Seq(Byte) /\ z \in Seq(Byte) /\ s \in Seq(Byte)
  BY Bytes DEF Ops
<1>9. <<NUL, NUL, Semicolon>> = z \o (z \o s)
  OBVIOUS
<1> HIDE DEF l, e, u, t, m, x, y, z, s
<1>10. /\ e \in Seq(Byte) /\ name \o z \in Seq(Byte) /\ u \in Seq(Byte)
       /\ t \in Seq(Byte) /\ m \in Seq(Byte) /\ x \o m \in Seq(Byte)
       /\ x \o y \in Seq(Byte) /\ x \o y \o f \in Seq(Byte)
  <2>1. e \in Seq(Byte)
    BY <1>5, <1>6, <1>8, JoinType, Zenon
  <2>2. name \o z \in Seq(Byte)
    BY <1>8, JoinType, Zenon
  <2>3. u \in Seq(Byte)
    BY <1>6, <2>1, <2>2, JoinType, Zenon
  <2>4. t \in Seq(Byte)
    BY <1>3, <1>6, <2>3, JoinType, Zenon
  <2>5. m \in Seq(Byte)
    BY <1>6, <1>8, <2>4, JoinType, Zenon
  <2>6. x \o m \in Seq(Byte)
    BY <1>8, <2>5, JoinType, Zenon
  <2>7. x \o y \in Seq(Byte) /\ x \o y \o f \in Seq(Byte)
    BY <1>3, <1>8, JoinType, Zenon
  <2> QED  BY <2>1, <2>2, <2>3, <2>4, <2>5, <2>6, <2>7
<1>11. Encode(a) = x \o m
  <2>1. /\ InAnyOrder(name, z, e)
        /\ InAnyOrder(x \o y \o f, name, z \o e)
        /\ InAnyOrder(x \o y, f, u)
        /\ InAnyOrder(x, y, t)
    <3>1. z \o e \in Seq(Byte)
      BY <1>8, <1>10, JoinType, Zenon
    <3> QED  BY <1>3, <1>8, <1>10, <3>1, JoinOrder, Zenon
  <2>2. /\ (name \o z) \o e = name \o (z \o e)
        /\ x \o y \o f \o name \o (z \o e) = x \o y \o f \o (name \o (z \o e))
        /\ x \o y \o f \o u = x \o y \o (f \o u)
        /\ x \o y \o t = x \o (y \o t)
    <3>1. /\ (name \o z) \o e = name \o (z \o e)
          /\ (x \o y \o f \o name) \o (z \o e) = (x \o y \o f) \o (name \o (z \o e))
      <4>1. x \o y \o f \o name \o (z \o e) = x \o y \o f \o (name \o (z \o e))
        BY <2>1, Zenon DEF InAnyOrder
      <4>2. (name \o z) \o e = name \o (z \o e)
        BY <2>1, Zenon DEF InAnyOrder
      <4> QED  BY <4>1, <4>2
    <3>2. x \o y \o f \o u = x \o y \o (f \o u)
      BY <2>1, Zenon DEF InAnyOrder
    <3>3. x \o y \o t = x \o (y \o t)
      BY <2>1, Zenon DEF InAnyOrder
    <3> QED  BY <3>1, <3>2, <3>3
  <2>3. Encode(a) = x \o y \o f \o name \o (z \o e)
    BY <1>5, <1>6, <1>7, <1>9, Zenon
  <2> QED  BY <1>6, <2>2, <2>3, Zenon
<1>12. /\ OpcodeLeft(a) \in Seq(Byte) /\ ActionLeft(a) \in Seq(Byte)
       /\ UserNameLeft(a) \in Seq(Byte) /\ ExtraLeft(a) \in Seq(Byte) /\ LastLeft(a) \in Seq(Byte)
  BY <1>5, <1>10 DEF l, e, u, t, m
<1>13. Encode(a) \in Seq(Byte)
  BY <1>10, <1>11
<1> QED
  BY <1>1, <1>2, <1>3, <1>4, <1>5, <1>6, <1>11, <1>12, <1>13 DEF l, e, u, t, m, x, y, z, s

\* a notification
LEMMA NoteIs ==
  ASSUME NEW text \in Seq(Byte), NEW a, a = Notification(<<Digit(1)>>, << 97 >>, text)
  PROVE  /\ a.kind = "NOTIFICATION" /\ a.op = 9 /\ ~IsTable(a) /\ Zeros(a) = <<>>
         /\ a.fields = <<<<Digit(1)>>, <<97>>, text>>
         /\ Encode(a) = Two(9) \o StatLeft(a)
         /\ StatLeft(a) = <<Digit(1)>> \o PostingUserLeft(a)
         /\ PostingUserLeft(a) = (<<97>> \o <<NUL>>) \o ContentLeft(a)
         /\ ContentLeft(a) = (text \o <<NUL>>) \o LastLeft(a)
         /\ LastLeft(a) = <<Semicolon>> \o <<>>
         /\ Encode(a) \in Seq(Byte)
         /\ StatLeft(a) \in Seq(Byte) /\ PostingUserLeft(a) \in Seq(Byte)
         /\ ContentLeft(a) \in Seq(Byte) /\ LastLeft(a) \in Seq(Byte)
<1> DEFINE d == <<Digit(1)>>
           name == <<97>>
           l == LastLeft(a)
           t == ContentLeft(a)
           u == PostingUserLeft(a)
           v == StatLeft(a)
           x == Two(9)
           z == <<NUL>>
           s == <<Semicolon>>
<1>1. a.kind = "NOTIFICATION" /\ a.op = 9 /\ a.fields = <<d, name, text>>
  BY DEF Notification
<1>2. ~IsTable(a)
  BY <1>1 DEF IsTable
<1>3. d \in Seq(Byte) /\ name \in Seq(Byte)
  BY DEF Digit, Byte
<1> HIDE DEF d, name
<1>4. a.fields[1] = d /\ a.fields[2] = name /\ a.fields[3] = text
  BY <1>1
<1>5. Zeros(a) = <<>> /\ l = s \o <<>> /\ l = s /\ l \in Seq(Byte)
  BY <1>2, LastIs
<1>6. t = (text \o z) \o l /\ u = (name \o z) \o t /\ v = d \o u
  BY <1>4 DEF ContentLeft, PostingUserLeft, StatLeft
<1>7. Encode(a) = x \o d \o name \o z \o text \o <<NUL, Semicolon>>
  BY <1>1, <1>2, <1>4 DEF Encode
<1>8. x \in Seq(Byte) /\ z \in Seq(Byte) /\ s \in Seq(Byte)
  BY Bytes
<1>9. <<NUL, Semicolon>> = z \o s
  OBVIOUS
<1> HIDE DEF l, t, u, v, x, z, s
<1>10. /\ text \o z \in Seq(Byte) /\ t \in Seq(Byte) /\ name \o z \in Seq(Byte)
       /\ u \in Seq(Byte) /\ v \in Seq(Byte) /\ x \o v \in Seq(Byte)
       /\ x \o d \in Seq(Byte) /\ x \o d \o name \in Seq(Byte)
       /\ x \o d \o name \o z \in Seq(Byte) /\ z \o l \in Seq(Byte)
  <2>1. text \o z \in Seq(Byte) /\ name \o z \in Seq(Byte) /\ z \o l \in Seq(Byte)
    BY <1>3, <1>5, <1>8, JoinType, Zenon
  <2>2. t \in Seq(Byte)
    BY <1>5, <1>6, <2>1, JoinType, Zenon
  <2>3. u \in Seq(Byte)
    BY <1>6, <2>1, <2>2, JoinType, Zenon
  <2>4. v \in Seq(Byte)
    BY <1>3, <1>6, <2>3, JoinType, Zenon
  <2>5. x \o v \in Seq(Byte)
    BY <1>8, <2>4, JoinType, Zenon
  <2>6. x \o d \in Seq(Byte)
    BY <1>3, <1>8, JoinType, Zenon
  <2>7. x \o d \o name \in Seq(Byte)
    BY <1>3, <2>6, JoinType, Zenon
  <2>8. x \o d \o name \o z \in Seq(Byte)
    BY <1>8, <2>7, JoinType, Zenon
  <2> QED  BY <2>1, <2>2, <2>3, <2>4, <2>5, <2>6, <2>7, <2>8
<1>11. Encode(a) = x \o v
  <2>1. (text \o z) \o l = text \o (z \o l)
    <3>1. InAnyOrder(text, z, l)
      BY <1>5, <1>8, JoinOrder, Zenon
    <3> QED  BY <3>1, Zenon DEF InAnyOrder
  <2>2. x \o d \o name \o z \o text \o (z \o l) = x \o d \o name \o z \o (text \o (z \o l))
    <3>1. InAnyOrder(x \o d \o name \o z, text, z \o l)
      BY <1>10, JoinOrder, Zenon
    <3> QED  BY <3>1, Zenon DEF InAnyOrder
  <2>3. (x \o d \o name) \o z \o t = (x \o d \o name) \o (z \o t)
    <3>1. InAnyOrder(x \o d \o name, z, t)
      BY <1>8, <1>10, JoinOrder, Zenon
    <3> QED  BY <3>1, Zenon DEF InAnyOrder
  <2>4. x \o d \o name \o (z \o t) = x \o d \o (name \o (z \o t))
    <3>1. z \o t \in Seq(Byte)
      BY <1>8, <1>10, JoinType, Zenon
    <3>2. InAnyOrder(x \o d, name, z \o t)
      BY <1>3, <1>10, <3>1, JoinOrder, Zenon
    <3> QED  BY <3>2, Zenon DEF InAnyOrder
  <2>5. (name \o z) \o t = name \o (z \o t)
    <3>1. InAnyOrder(name, z, t)
      BY <1>3, <1>8, <1>10, JoinOrder, Zenon
    <3> QED  BY <3>1, Zenon DEF InAnyOrder
  <2>6. x \o d \o u = x \o (d \o u)
    <3>1. InAnyOrder(x, d, u)
      BY <1>3, <1>8, <1>10, JoinOrder, Zenon
    <3> QED  BY <3>1, Zenon DEF InAnyOrder
  <2>7. Encode(a) = x \o d \o name \o z \o text \o (z \o l)
    BY <1>5, <1>7, <1>9, Zenon
  <2> QED  BY <1>6, <2>1, <2>2, <2>3, <2>4, <2>5, <2>6, <2>7, Zenon
<1>12. Encode(a) \in Seq(Byte)
  BY <1>10, <1>11
<1> QED
  BY <1>1, <1>2, <1>5, <1>6, <1>10, <1>11, <1>12 DEF l, t, u, v, x, z, s, d, name

\* x is all that has arrived of a stream that begins with u and b: u is what is read up to b
LEMMA FrameOf ==
  ASSUME NEW x \in Seq(Byte), NEW y \in Seq(Byte), NEW u \in Seq(Byte), NEW v \in Seq(Byte),
         NEW b \in Byte, Begins(x, y, u \o <<b>>, v), ~Contains(u, b), Contains(x, b)
  PROVE  /\ IndexOf(x, b) = Len(u) + 1
         /\ SubSeq(x, 1, Len(u)) = u
         /\ SubSeq(x, Len(u) + 2, Len(x)) \in Seq(Byte)
         /\ SubSeq(x, Len(u) + 2, Len(x)) \o y = v
<1> DEFINE z == <<b>>
           w == u \o z
<1>1. z \in Seq(Byte) /\ Len(z) = 1
  OBVIOUS
<1>2. Len(u) + 1 <= Len(x) /\ IndexOf(x, b) = Len(u) + 1
  BY FirstOf
<1>3. Begins(x, y, w, v)
  OBVIOUS
<1> HIDE DEF z
<1>4. w \in Seq(Byte) /\ Len(w) = Len(u) + 1
  <2>1. u \o z \in Seq(Byte) /\ Len(u \o z) = Len(u) + Len(z)
    BY <1>1, ConcatProperties
  <2> QED  BY <1>1, <2>1
<1>5. Len(x) \in Nat /\ Len(u) \in Nat
  BY LenProperties
<1>6. Len(w) + 1 = Len(u) + 2 /\ Len(w) <= Len(x) /\ Len(u) <= Len(x)
  BY <1>2, <1>4, <1>5
<1>7. w \o v = u \o (z \o v) /\ z \o v \in Seq(Byte)
  <2>1. InAnyOrder(u, z, v)
    BY <1>1, JoinOrder, Zenon
  <2>2. z \o v \in Seq(Byte)
    BY <1>1, JoinType, Zenon
  <2> QED  BY <2>1, <2>2, Zenon DEF InAnyOrder
<1> HIDE DEF w
<1>8. /\ SubSeq(x, Len(w) + 1, Len(x)) \in Seq(Byte)
      /\ SubSeq(x, Len(w) + 1, Len(x)) \o y = v
  <2>1. Len(w) <= Len(x) /\ w \in Seq(Byte)
    BY <1>4, <1>6
  <2> QED  BY <1>3, <2>1, FrontOf
<1>9. SubSeq(x, 1, Len(u)) = u
  <2> DEFINE r == z \o v
  <2>1. r \in Seq(Byte) /\ Begins(x, y, u, r)
    BY <1>3, <1>7 DEF Begins
  <2> HIDE DEF r
  <2> QED  BY <1>6, <2>1, FrontOf
<1> QED  BY <1>2, <1>6, <1>8, <1>9

\* a piece of a frame is read: what is left of it comes next
LEMMA PieceOf ==
  ASSUME NEW x \in Seq(Byte), NEW y \in Seq(Byte), NEW u \in Seq(Byte), NEW v \in Seq(Byte),
         NEW t \in Seq(Byte), Begins(x, y, u \o v, t), Len(u) <= Len(x)
  PROVE  /\ SubSeq(x, 1, Len(u)) = u
         /\ SubSeq(x, Len(u) + 1, Len(x)) \in Seq(Byte)
         /\ Begins(SubSeq(x, Len(u) + 1, Len(x)), y, v, t)
<1> DEFINE r == v \o t
<1>1. r \in Seq(Byte) /\ (u \o v) \o t = u \o r
  <2>1. InAnyOrder(u, v, t) /\ v \o t \in Seq(Byte)
    BY JoinOrder, JoinType, Zenon
  <2> QED  BY <2>1 DEF InAnyOrder
<1> HIDE DEF r
<1>2. Begins(x, y, u, r)
  BY <1>1 DEF Begins
<1>3. /\ SubSeq(x, 1, Len(u)) = u
      /\ SubSeq(x, Len(u) + 1, Len(x)) \in Seq(Byte)
      /\ SubSeq(x, Len(u) + 1, Len(x)) \o y = r
  BY <1>1, <1>2, FrontOf
<1> QED  BY <1>3 DEF Begins, r

\* ... and so it is with a string and the NUL that ends it
LEMMA StringOf ==
  ASSUME NEW x \in Seq(Byte), NEW y \in Seq(Byte), NEW u \in Seq(Byte), NEW v \in Seq(Byte),
         NEW t \in Seq(Byte), NEW b \in Byte,
         Begins(x, y, (u \o <<b>>) \o v, t), ~Contains(u, b), Contains(x, b)
  PROVE  /\ IndexOf(x, b) = Len(u) + 1
         /\ SubSeq(x, 1, Len(u)) = u
         /\ SubSeq(x, Len(u) + 2, Len(x)) \in Seq(Byte)
         /\ Begins(SubSeq(x, Len(u) + 2, Len(x)), y, v, t)
<1> DEFINE w == u \o <<b>>
           r == v \o t
<1>1. w \in Seq(Byte)
  <2>1. <<b>> \in Seq(Byte)
    OBVIOUS
  <2> QED  BY <2>1, JoinType, Zenon
<1>2. Begins(x, y, w \o v, t)
  OBVIOUS
<1> HIDE DEF w
<1>3. r \in Seq(Byte) /\ (w \o v) \o t = w \o r
  <2>1. InAnyOrder(w, v, t) /\ v \o t \in Seq(Byte)
    BY <1>1, JoinOrder, JoinType, Zenon
  <2> QED  BY <2>1 DEF InAnyOrder
<1> HIDE DEF r
<1>4. Begins(x, y, w, r)
  BY <1>2, <1>3 DEF Begins
<1>5. Begins(x, y, u \o <<b>>, r)
  BY <1>4 DEF w
<1>6. /\ IndexOf(x, b) = Len(u) + 1
      /\ SubSeq(x, 1, Len(u)) = u
      /\ SubSeq(x, Len(u) + 2, Len(x)) \in Seq(Byte)
      /\ SubSeq(x, Len(u) + 2, Len(x)) \o y = r
  BY <1>3, <1>5, FrameOf
<1> QED  BY <1>6 DEF Begins, r
=============================================================================
