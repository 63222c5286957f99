-------------------------- MODULE DocumentTextProofs --------------------------
(* The chunks of a document are its text, for any lines and any limits.     *)
(* Reading keeps what was gathered so far right (ReadInv), cutting what was *)
(* cut so far (CutInv): each step adds one line or one piece, so nothing is *)
(* proved about sequences by induction.                                     *)
EXTENDS DocumentText, SequenceTheorems, WellFoundedInduction, TLAPS

Char == [line : Nat, at : Nat, kind : Kinds \cup {"newline"}]
Blocks == [page : Nat, section : Nat, text : Seq(Char)]

-----------------------------------------------------------------------------
(* Texts.                                                                   *)
\* Some number of a set of numbers is the least.
LEMMA HasLeast ==
    ASSUME NEW T, T \subseteq Nat, T # {}
    PROVE  \E x \in T : \A y \in T : x <= y
<1> DEFINE R == OpToRel(<, Nat)
<1>1. IsWellFoundedOn(R, Nat)
  BY NatLessThanWellFounded
<1> HIDE DEF R
<1>2. PICK x \in T : \A y \in T : ~ (<<y, x>> \in R)
  BY <1>1, WFMin
<1>3. \A y \in T : y < x => <<y, x>> \in R
  <2> SUFFICES ASSUME NEW y \in T, y < x
               PROVE  <<y, x>> \in {ss \in Nat \X Nat : ss[1] < ss[2]}
    BY DEF R, OpToRel
  <2> QED
    OBVIOUS
<1>4. \A y \in T : ~ (y < x)
  BY <1>2, <1>3, Zenon
<1>5. \A y \in T : x <= y
  BY <1>4
<1> QED
  BY <1>5

\* A place of a text put together is one of its parts.
LEMMA PlacesOfConcat ==
    ASSUME NEW S, NEW t \in Seq(S), NEW u \in Seq(S)
    PROVE  /\ t \o u \in Seq(S) /\ Len(t \o u) = Len(t) + Len(u)
           /\ \A q \in DOMAIN t : q \in DOMAIN (t \o u) /\ (t \o u)[q] = t[q]
           /\ \A q \in DOMAIN u : /\ Len(t) + q \in DOMAIN (t \o u)
                                  /\ (t \o u)[Len(t) + q] = u[q]
           /\ \A q \in DOMAIN (t \o u) :
                 \/ q \in DOMAIN t /\ (t \o u)[q] = t[q]
                 \/ q > Len(t) /\ q - Len(t) \in DOMAIN u /\ (t \o u)[q] = u[q - Len(t)]
<1> DEFINE v == t \o u
<1>1. /\ v \in Seq(S) /\ Len(v) = Len(t) + Len(u)
      /\ \A i \in 1 .. Len(t) + Len(u) : v[i] = IF i <= Len(t) THEN t[i] ELSE u[i - Len(t)]
  BY ConcatProperties
<1>2. /\ Len(t) \in Nat /\ Len(u) \in Nat
      /\ DOMAIN t = 1 .. Len(t) /\ DOMAIN u = 1 .. Len(u) /\ DOMAIN v = 1 .. Len(v)
  BY <1>1, LenProperties
<1> HIDE DEF v
<1>3. \A q \in DOMAIN t : q \in DOMAIN v /\ v[q] = t[q]
  BY <1>1, <1>2
<1>4. \A q \in DOMAIN u : Len(t) + q \in DOMAIN v /\ v[Len(t) + q] = u[q]
  BY <1>1, <1>2
<1>5. \A q \in DOMAIN v : \/ q \in DOMAIN t /\ v[q] = t[q]
                          \/ q > Len(t) /\ q - Len(t) \in DOMAIN u /\ v[q] = u[q - Len(t)]
  BY <1>1, <1>2
<1> QED BY <1>1, <1>3, <1>4, <1>5 DEF v

LEMMA LettersOfConcat ==
    ASSUME NEW t \in Seq(Char), NEW u \in Seq(Char)
    PROVE  Letters(t \o u) = Letters(t) \cup Letters(u)
<1> DEFINE v == t \o u
<1>1. /\ \A q \in DOMAIN t : q \in DOMAIN v /\ v[q] = t[q]
      /\ \A q \in DOMAIN u : Len(t) + q \in DOMAIN v /\ v[Len(t) + q] = u[q]
      /\ \A q \in DOMAIN v : \/ q \in DOMAIN t /\ v[q] = t[q]
                             \/ q - Len(t) \in DOMAIN u /\ v[q] = u[q - Len(t)]
  BY PlacesOfConcat
<1> HIDE DEF v
<1>2. Letters(v) = Letters(t) \cup Letters(u)
  BY <1>1 DEF Letters
<1> QED BY <1>2 DEF v

LEMMA OrderOfConcat ==
    ASSUME NEW t \in Seq(Char), NEW u \in Seq(Char), Ordered(t), Ordered(u),
           \A x \in Letters(t), y \in Letters(u) : Before(x, y)
    PROVE  Ordered(t \o u)
<1> DEFINE v == t \o u
<1>1. \A q \in DOMAIN v :
         \/ q \in DOMAIN t /\ v[q] = t[q]
         \/ q > Len(t) /\ q - Len(t) \in DOMAIN u /\ v[q] = u[q - Len(t)]
  BY PlacesOfConcat
<1>2. /\ v \in Seq(Char) /\ Len(t) \in Nat
      /\ DOMAIN t = 1 .. Len(t) /\ DOMAIN u \subseteq Nat /\ DOMAIN v \subseteq Nat
  BY ConcatProperties, LenProperties
<1> HIDE DEF v
<1>3. SUFFICES ASSUME NEW q \in DOMAIN v, NEW r \in DOMAIN v,
                      q < r, ~IsBlank(v[q]), ~IsBlank(v[r])
               PROVE  Before(v[q], v[r])
  BY DEF Ordered, v
<1>4. CASE r \in DOMAIN t /\ v[r] = t[r]
  <2>1. q \in DOMAIN t /\ v[q] = t[q]
    BY <1>1, <1>2, <1>3, <1>4
  <2> QED BY <1>3, <1>4, <2>1 DEF Ordered
<1>5. CASE q > Len(t) /\ q - Len(t) \in DOMAIN u /\ v[q] = u[q - Len(t)]
  <2>1. /\ r - Len(t) \in DOMAIN u /\ v[r] = u[r - Len(t)]
        /\ q - Len(t) < r - Len(t)
    BY <1>1, <1>2, <1>3, <1>5
  <2> QED BY <1>3, <1>5, <2>1 DEF Ordered
<1>6. CASE /\ q \in DOMAIN t /\ v[q] = t[q]
           /\ r - Len(t) \in DOMAIN u /\ v[r] = u[r - Len(t)]
  BY <1>3, <1>6 DEF Letters
<1> QED BY <1>1, <1>4, <1>5, <1>6

\* A space more.
LEMMA BlankText ==
    ASSUME NEW s \in Char, IsBlank(s)
    PROVE  <<s>> \in Seq(Char) /\ Letters(<<s>>) = {} /\ Ordered(<<s>>)
<1>1. <<s>> \in Seq(Char) /\ DOMAIN <<s>> = {1} /\ <<s>>[1] = s
  OBVIOUS
<1> QED BY <1>1 DEF Letters, Ordered

\* Some of a text.
LEMMA PlacesOfSubSeq ==
    ASSUME NEW S, NEW t \in Seq(S), NEW s \in 1 .. Len(t), NEW e \in s .. Len(t)
    PROVE  /\ SubSeq(t, s, e) \in Seq(S) /\ Len(SubSeq(t, s, e)) = e - s + 1
           /\ DOMAIN SubSeq(t, s, e) = 1 .. e - s + 1
           /\ \A q \in DOMAIN SubSeq(t, s, e) :
                 s + q - 1 \in s .. e /\ SubSeq(t, s, e)[q] = t[s + q - 1]
           /\ \A q \in s .. e : /\ q - s + 1 \in DOMAIN SubSeq(t, s, e)
                                /\ SubSeq(t, s, e)[q - s + 1] = t[q]
<1> DEFINE w == SubSeq(t, s, e)
<1>1. Len(t) \in Nat /\ DOMAIN t = 1 .. Len(t)
  BY LenProperties
<1>2. \A q \in s .. e : t[q] \in S
  BY <1>1, ElementOfSeq
<1>3. /\ w \in Seq(S)
      /\ Len(w) = IF s <= e THEN e - s + 1 ELSE 0
      /\ \A q \in 1 .. e - s + 1 : w[q] = t[s + q - 1]
  BY <1>1, <1>2, SubSeqProperties
<1>4. DOMAIN w = 1 .. Len(w)
  BY <1>3, LenProperties
<1> HIDE DEF w
<1>5. Len(w) = e - s + 1 /\ DOMAIN w = 1 .. e - s + 1
  BY <1>1, <1>3, <1>4
<1>6. ASSUME NEW q \in DOMAIN w
      PROVE  s + q - 1 \in s .. e /\ w[q] = t[s + q - 1]
  <2>1. q \in 1 .. e - s + 1 /\ s \in Nat /\ e \in Nat
    BY <1>1, <1>5
  <2>2. s + q - 1 \in s .. e
    BY <2>1
  <2> QED BY <1>3, <2>1, <2>2
<1>7. ASSUME NEW q \in s .. e
      PROVE  q - s + 1 \in DOMAIN w /\ w[q - s + 1] = t[q]
  <2>1. q - s + 1 \in DOMAIN w /\ s + (q - s + 1) - 1 = q
    BY <1>1, <1>5
  <2> QED BY <1>6, <2>1
<1> QED BY <1>3, <1>5, <1>6, <1>7 DEF w

LEMMA OrderOfSubSeq ==
    ASSUME NEW t \in Seq(Char), NEW s \in 1 .. Len(t), NEW e \in s .. Len(t), Ordered(t)
    PROVE  /\ Ordered(SubSeq(t, s, e))
           /\ Letters(SubSeq(t, s, e)) = {t[q] : q \in {p \in s .. e : ~IsBlank(t[p])}}
<1> DEFINE w == SubSeq(t, s, e)
<1>1. /\ DOMAIN w = 1 .. e - s + 1
      /\ \A q \in DOMAIN w : s + q - 1 \in s .. e /\ w[q] = t[s + q - 1]
      /\ \A q \in s .. e : q - s + 1 \in DOMAIN w /\ w[q - s + 1] = t[q]
  BY PlacesOfSubSeq
<1>2. s \in Nat /\ e \in Nat /\ Len(t) \in Nat /\ DOMAIN t = 1 .. Len(t)
  BY LenProperties
<1> HIDE DEF w
<1>3. Letters(w) = {t[q] : q \in {p \in s .. e : ~IsBlank(t[p])}}
  <2>1. ASSUME NEW x \in Letters(w)
        PROVE  x \in {t[q] : q \in {p \in s .. e : ~IsBlank(t[p])}}
    <3>1. PICK q \in DOMAIN w : x = w[q] /\ ~IsBlank(w[q])
      BY DEF Letters
    <3> QED BY <1>1, <3>1
  <2>2. ASSUME NEW q \in s .. e, ~IsBlank(t[q])
        PROVE  t[q] \in Letters(w)
    BY <1>1, <2>2 DEF Letters
  <2> QED BY <2>1, <2>2
<1>4. ASSUME NEW q \in DOMAIN w, NEW r \in DOMAIN w,
             q < r, ~IsBlank(w[q]), ~IsBlank(w[r])
      PROVE  Before(w[q], w[r])
  <2>1. q \in Nat /\ r \in Nat /\ s + q - 1 \in s .. e /\ s + r - 1 \in s .. e
    <3>1. DOMAIN w \subseteq Nat
      BY <1>1, <1>2
    <3>2. \A k \in DOMAIN w : s + k - 1 \in s .. e
      BY <1>1
    <3> QED BY <3>1, <3>2
  <2>2. s + q - 1 \in DOMAIN t /\ s + r - 1 \in DOMAIN t /\ s + q - 1 < s + r - 1
    BY <1>2, <1>4, <2>1
  <2> QED BY <1>1, <1>4, <2>2 DEF Ordered
<1> QED BY <1>3, <1>4 DEF Ordered, w

\* Two texts joined by a space.
LEMMA JoinedTexts ==
    ASSUME NEW t \in Seq(Char), NEW u \in Seq(Char), NEW s \in Char, IsBlank(s)
    PROVE  LET j == Append(t, s) \o u
           IN  /\ j \in Seq(Char) /\ Len(j) = Len(t) + 1 + Len(u)
               /\ Letters(j) = Letters(t) \cup Letters(u)
               /\ /\ Ordered(t) /\ Ordered(u)
                  /\ \A x \in Letters(t), y \in Letters(u) : Before(x, y)
                  => Ordered(j)
<1>1. /\ <<s>> \in Seq(Char) /\ Len(<<s>>) = 1
      /\ Letters(<<s>>) = {} /\ Ordered(<<s>>)
  BY BlankText
<1>2. Append(t, s) = t \o <<s>>
  BY AppendIsConcat
<1> DEFINE v == t \o <<s>>
<1>3. v \in Seq(Char) /\ Len(v) = Len(t) + 1
  BY <1>1, ConcatProperties
<1>4. Letters(v) = Letters(t)
  <2>1. Letters(t \o <<s>>) = Letters(t) \cup Letters(<<s>>)
    BY <1>1, LettersOfConcat, Zenon
  <2> QED BY <1>1, <2>1
<1>5. ASSUME Ordered(t) PROVE Ordered(v)
  <2>1. \A x \in Letters(t), y \in Letters(<<s>>) : Before(x, y)
    BY <1>1
  <2> QED BY <1>1, <1>5, <2>1, OrderOfConcat, Zenon
<1> HIDE DEF v
<1>6. v \o u \in Seq(Char) /\ Len(v \o u) = Len(t) + 1 + Len(u)
  <2>1. v \o u \in Seq(Char) /\ Len(v \o u) = Len(v) + Len(u)
    BY <1>3, ConcatProperties
  <2> QED BY <1>3, <2>1
<1>7. Letters(v \o u) = Letters(t) \cup Letters(u)
  BY <1>3, <1>4, LettersOfConcat
<1>8. ASSUME Ordered(t), Ordered(u), \A x \in Letters(t), y \in Letters(u) : Before(x, y)
      PROVE  Ordered(v \o u)
  <2>1. Ordered(v) /\ \A x \in Letters(v), y \in Letters(u) : Before(x, y)
    BY <1>4, <1>5, <1>8
  <2> QED BY <1>3, <1>8, <2>1, OrderOfConcat
<1> QED BY <1>2, <1>6, <1>7, <1>8 DEF v

-----------------------------------------------------------------------------
(* Lists of texts.                                                          *)
LEMMA ListOfConcat ==
    ASSUME NEW L \in Seq(Blocks), NEW M \in Seq(Blocks)
    PROVE  /\ LettersIn(L \o M) = LettersIn(L) \cup LettersIn(M)
           /\ InOrder(L \o M) <=> /\ InOrder(L) /\ InOrder(M)
                                  /\ \A x \in LettersIn(L), y \in LettersIn(M) : Before(x, y)
<1> DEFINE N == L \o M
<1>1. /\ \A c \in DOMAIN L : c \in DOMAIN N /\ N[c] = L[c]
      /\ \A c \in DOMAIN M : Len(L) + c \in DOMAIN N /\ N[Len(L) + c] = M[c]
      /\ \A c \in DOMAIN N : \/ c \in DOMAIN L /\ N[c] = L[c]
                             \/ c > Len(L) /\ c - Len(L) \in DOMAIN M /\ N[c] = M[c - Len(L)]
  BY PlacesOfConcat
<1>2. /\ Len(L) \in Nat /\ DOMAIN L = 1 .. Len(L)
      /\ DOMAIN M \subseteq Nat /\ DOMAIN N \subseteq Nat
      /\ \A c \in DOMAIN L, d \in DOMAIN M : c < Len(L) + d
      /\ \A c, d \in DOMAIN M : c < d => Len(L) + c < Len(L) + d
  <2>1. /\ Len(L) \in Nat /\ DOMAIN L = 1 .. Len(L)
        /\ Len(M) \in Nat /\ DOMAIN M = 1 .. Len(M)
        /\ Len(N) \in Nat /\ DOMAIN N = 1 .. Len(N)
    BY ConcatProperties, LenProperties
  <2> QED BY <2>1
<1> HIDE DEF N
<1>3. LettersIn(N) = LettersIn(L) \cup LettersIn(M)
  <2>1. ASSUME NEW x \in LettersIn(N) PROVE x \in LettersIn(L) \cup LettersIn(M)
    BY <1>1 DEF LettersIn
  <2>2. ASSUME NEW x \in LettersIn(L) \cup LettersIn(M) PROVE x \in LettersIn(N)
    BY <1>1 DEF LettersIn
  <2> QED BY <2>1, <2>2
<1>4. ASSUME InOrder(N)
      PROVE  /\ InOrder(L) /\ InOrder(M)
             /\ \A x \in LettersIn(L), y \in LettersIn(M) : Before(x, y)
  <2>1. InOrder(L)
    BY <1>1, <1>4 DEF InOrder
  <2>2. InOrder(M)
    BY <1>1, <1>2, <1>4 DEF InOrder
  <2>3. ASSUME NEW x \in LettersIn(L), NEW y \in LettersIn(M)
        PROVE  Before(x, y)
    <3>1. PICK c \in DOMAIN L : x \in Letters(L[c].text)
      BY DEF LettersIn
    <3>2. PICK d \in DOMAIN M : y \in Letters(M[d].text)
      BY DEF LettersIn
    <3>3. /\ c \in DOMAIN N /\ Len(L) + d \in DOMAIN N /\ c < Len(L) + d
          /\ N[c] = L[c] /\ N[Len(L) + d] = M[d]
      BY <1>1, <1>2
    <3> QED BY <1>4, <3>1, <3>2, <3>3 DEF InOrder
  <2> QED BY <2>1, <2>2, <2>3
<1>5. ASSUME InOrder(L), InOrder(M),
             \A x \in LettersIn(L), y \in LettersIn(M) : Before(x, y)
      PROVE  InOrder(N)
  <2>1. ASSUME NEW c \in DOMAIN N PROVE Ordered(N[c].text)
    BY <1>1, <1>5 DEF InOrder
  <2>2. ASSUME NEW c \in DOMAIN N, NEW d \in DOMAIN N, c < d,
               NEW x \in Letters(N[c].text), NEW y \in Letters(N[d].text)
        PROVE  Before(x, y)
    <3>1. CASE d \in DOMAIN L /\ N[d] = L[d]
      <4>1. c \in DOMAIN L /\ N[c] = L[c]
        BY <1>1, <1>2, <2>2, <3>1
      <4> QED BY <1>5, <2>2, <3>1, <4>1 DEF InOrder
    <3>2. CASE c > Len(L) /\ c - Len(L) \in DOMAIN M /\ N[c] = M[c - Len(L)]
      <4>1. /\ d - Len(L) \in DOMAIN M /\ N[d] = M[d - Len(L)]
            /\ c - Len(L) < d - Len(L)
        BY <1>1, <1>2, <2>2, <3>2
      <4> QED BY <1>5, <2>2, <3>2, <4>1 DEF InOrder
    <3>3. CASE /\ c \in DOMAIN L /\ N[c] = L[c]
               /\ d - Len(L) \in DOMAIN M /\ N[d] = M[d - Len(L)]
      BY <1>5, <2>2, <3>3 DEF LettersIn
    <3> QED BY <1>1, <3>1, <3>2, <3>3
  <2> QED BY <2>1, <2>2 DEF InOrder
<1> QED BY <1>3, <1>4, <1>5 DEF N

LEMMA ListOfOne ==
    ASSUME NEW b \in Blocks
    PROVE  /\ <<b>> \in Seq(Blocks)
           /\ LettersIn(<<b>>) = Letters(b.text)
           /\ InOrder(<<b>>) <=> Ordered(b.text)
<1>1. <<b>> \in Seq(Blocks) /\ DOMAIN <<b>> = {1} /\ <<b>>[1] = b
  OBVIOUS
<1> QED BY <1>1 DEF LettersIn, InOrder

\* One more text.
LEMMA ListOfAppend ==
    ASSUME NEW L \in Seq(Blocks), NEW b \in Blocks
    PROVE  /\ Append(L, b) \in Seq(Blocks)
           /\ LettersIn(Append(L, b)) = LettersIn(L) \cup Letters(b.text)
           /\ InOrder(Append(L, b)) <=> /\ InOrder(L) /\ Ordered(b.text)
                                        /\ \A x \in LettersIn(L), y \in Letters(b.text) : Before(x, y)
<1>1. Append(L, b) = L \o <<b>>
  BY AppendIsConcat
<1>2. <<b>> \in Seq(Blocks) /\ L \o <<b>> \in Seq(Blocks)
  BY ListOfOne, ConcatProperties
<1>3. /\ LettersIn(<<b>>) = Letters(b.text)
      /\ InOrder(<<b>>) <=> Ordered(b.text)
  BY ListOfOne, Zenon
<1>4. /\ LettersIn(L \o <<b>>) = LettersIn(L) \cup LettersIn(<<b>>)
      /\ InOrder(L \o <<b>>) <=>
            /\ InOrder(L) /\ InOrder(<<b>>)
            /\ \A x \in LettersIn(L), y \in LettersIn(<<b>>) : Before(x, y)
  BY <1>2, ListOfConcat, Zenon
<1> QED BY <1>1, <1>2, <1>3, <1>4, Zenon

\* The places of a list with one text more.
LEMMA PlacesOfAppend ==
    ASSUME NEW L \in Seq(Blocks), NEW b \in Blocks
    PROVE  LET N == Append(L, b)
           IN  /\ Len(N) = Len(L) + 1 /\ N[Len(N)] = b
               /\ \A c \in DOMAIN N : (c \in DOMAIN L /\ N[c] = L[c]) \/ (c = Len(N) /\ N[c] = b)
               /\ \A c \in DOMAIN L : c \in DOMAIN N /\ N[c] = L[c] /\ c < Len(N)
               /\ Len(N) \in DOMAIN N
<1> DEFINE N == Append(L, b)
<1>1. /\ N \in Seq(Blocks) /\ Len(N) = Len(L) + 1 /\ N[Len(L) + 1] = b
      /\ \A i \in 1 .. Len(L) : N[i] = L[i]
  BY AppendProperties
<1>2. Len(L) \in Nat /\ DOMAIN L = 1 .. Len(L) /\ DOMAIN N = 1 .. Len(N)
  BY <1>1, LenProperties
<1> HIDE DEF N
<1>3. N[Len(N)] = b
  BY <1>1
<1>4. \A c \in DOMAIN N : (c \in DOMAIN L /\ N[c] = L[c]) \/ (c = Len(N) /\ N[c] = b)
  BY <1>1, <1>2
<1>5. \A c \in DOMAIN L : c \in DOMAIN N /\ N[c] = L[c] /\ c < Len(N)
  BY <1>1, <1>2
<1>6. Len(N) \in DOMAIN N
  BY <1>1, <1>2
<1> QED BY <1>1, <1>3, <1>4, <1>5, <1>6 DEF N

-----------------------------------------------------------------------------
(* Reading.                                                                 *)

\* A word of a text is of one line, and a line is told without a gap.
Runs(t) ==
    \A q, r \in DOMAIN t : q <= r /\ (\A m \in q .. r : ~IsBlank(t[m])) =>
        t[r].line = t[q].line /\ t[r].at = t[q].at + (r - q)
GoesOn(t, lines) ==
    \A q \in DOMAIN t :
        LET i == t[q].line
            p == t[q].at
        IN  ~IsBlank(t[q]) /\ p < Len(lines[i].text) =>
               /\ q + 1 \in DOMAIN t
               /\ t[q + 1] = [line |-> i, at |-> p + 1, kind |-> lines[i].text[p + 1]]

\* Blocks hold the text of the source, under its sections and on its pages.
Gathered(list) ==
    /\ InOrder(list) /\ LettersIn(list) = Written
    /\ \A b \in DOMAIN list :
          /\ Runs(list[b].text) /\ GoesOn(list[b].text, source)
          /\ \A x \in Letters(list[b].text) : StandsUnder(x.line, list[b].section)
    /\ \A b, d \in DOMAIN list :
          \A x \in Letters(list[b].text), y \in Letters(list[d].text) :
             x.line <= y.line => (list[b].page = list[d].page <=> ~Breaks(x.line, y.line))

\* No block is on a later page, and those on this one go on to its last line.
OnPages(list) ==
    \A b \in DOMAIN list :
        /\ list[b].page <= page /\ list[b].page <= list[Len(list)].page
        /\ \A x \in Letters(list[b].text) : list[b].page = page <=> ~Breaks(x.line, Len(source))

ReadInv ==
    /\ media \in {"markdown", "text"}
    /\ source \in Seq(Lines) /\ blocks \in Seq(Blocks)
    /\ page \in Nat /\ section \in Nat /\ paragraph \in Seq(Char)
    /\ Gathered(Flush) /\ OnPages(Flush)
    /\ StandsUnder(Len(source), section)

LEMMA LinesAre ==
    ASSUME Trimmed, NEW l \in Lines
    PROVE  /\ l.level \in 0 .. 3 /\ l.text \in Seq(Kinds)
           /\ l.level > 0 => l.text # <<>>
<1>1. CASE l \in [level : {0}, text : Texts \cup {<<>>}]
  <2>1. l.level = 0 /\ l.text \in Texts \cup {<<>>}
    BY <1>1
  <2>2. <<>> \in Seq(Kinds)
    OBVIOUS
  <2>3. Texts \subseteq Seq(Kinds)
    BY DEF Trimmed
  <2>4. l.text \in Seq(Kinds)
    BY <2>1, <2>2, <2>3
  <2> QED BY <2>1, <2>4
<1>2. CASE l \in [level : 1 .. 3, text : Titles]
  <2>1. l.level \in 1 .. 3 /\ l.text \in Titles
    BY <1>2
  <2> QED BY <2>1 DEF Trimmed
<1> QED BY <1>1, <1>2 DEF Lines

\* The characters of line i.
LEMMA CharsAre ==
    ASSUME Trimmed, NEW l \in Lines, NEW i \in Nat
    PROVE  /\ CharsOf(i, l) \in Seq(Char) /\ Len(CharsOf(i, l)) = Len(l.text)
           /\ \A q \in DOMAIN CharsOf(i, l) :
                 /\ q \in 1 .. Len(l.text)
                 /\ CharsOf(i, l)[q] = [line |-> i, at |-> q, kind |-> l.text[q]]
           /\ Ordered(CharsOf(i, l)) /\ Runs(CharsOf(i, l))
           /\ \A x \in Letters(CharsOf(i, l)) : /\ x.line = i /\ x.at \in 1 .. Len(l.text)
                                                /\ x.kind = l.text[x.at] /\ x.kind # "space"
<1> DEFINE t == CharsOf(i, l)
<1>1. /\ l.text \in Seq(Kinds) /\ Len(l.text) \in Nat /\ DOMAIN l.text = 1 .. Len(l.text)
      /\ \A q \in 1 .. Len(l.text) : l.text[q] \in Kinds
  BY LinesAre, LenProperties, ElementOfSeq
<1>2. t = [q \in 1 .. Len(l.text) |-> [line |-> i, at |-> q, kind |-> l.text[q]]]
  BY <1>1 DEF CharsOf
<1>3. \A q \in 1 .. Len(l.text) : [line |-> i, at |-> q, kind |-> l.text[q]] \in Char
  BY <1>1 DEF Char
<1>4. t \in Seq(Char) /\ Len(t) = Len(l.text) /\ DOMAIN t = 1 .. Len(l.text)
  <2>1. t \in [1 .. Len(l.text) -> Char]
    BY <1>2, <1>3
  <2> QED BY <1>1, <1>2, <2>1, IsASeq, LenProperties
<1>5. \A q \in DOMAIN t : /\ q \in 1 .. Len(l.text) /\ q \in Nat
                          /\ t[q] = [line |-> i, at |-> q, kind |-> l.text[q]]
  BY <1>1, <1>2, <1>4
<1> HIDE DEF t
<1>6. Ordered(t)
  BY <1>5 DEF Ordered, Before
<1>7. Runs(t)
  BY <1>5 DEF Runs
<1>8. ASSUME NEW x \in Letters(t)
      PROVE  /\ x.line = i /\ x.at \in 1 .. Len(l.text)
             /\ x.kind = l.text[x.at] /\ x.kind # "space"
  BY <1>5 DEF Letters, IsBlank
<1> QED BY <1>4, <1>5, <1>6, <1>7, <1>8 DEF t

\* The letters of the source.
LEMMA WrittenAre ==
    ASSUME Trimmed, source \in Seq(Lines), NEW x \in Written
    PROVE  /\ x.line \in 1 .. Len(source) /\ source[x.line] \in Lines
           /\ x.at \in 1 .. Len(source[x.line].text)
           /\ x.kind = source[x.line].text[x.at] /\ x.kind # "space"
<1>1. PICK i \in DOMAIN source : x \in Letters(CharsOf(i, source[i]))
  BY DEF Written
<1>2. i \in 1 .. Len(source) /\ i \in Nat /\ source[i] \in Lines
  BY LenProperties, ElementOfSeq
<1>3. /\ x.line = i /\ x.at \in 1 .. Len(source[i].text)
      /\ x.kind = source[i].text[x.at] /\ x.kind # "space"
  BY <1>1, <1>2, CharsAre
<1> QED BY <1>2, <1>3

\* Line n is read.
LEMMA SourceGrows ==
    ASSUME Trimmed, source \in Seq(Lines), NEW l \in Lines,
           source' = Append(source, l), media' = media,
           NEW n \in Nat, n = Len(source) + 1
    PROVE  /\ source' \in Seq(Lines) /\ Len(source') = n /\ Len(source) \in Nat
           /\ source'[n] = l /\ \A i \in 1 .. Len(source) : source'[i] = source[i]
           /\ Written' = Written \cup (IF l.level <= 1 THEN Letters(CharsOf(n, l)) ELSE {})
           /\ \A i \in 1 .. Len(source), s \in Nat : StandsUnder(i, s)' <=> StandsUnder(i, s)
           /\ \A i \in Nat, j \in 1 .. Len(source) : Breaks(i, j)' <=> Breaks(i, j)
           /\ \A i \in 1 .. Len(source) :
                 Breaks(i, n)' <=> \/ Breaks(i, Len(source))
                                   \/ IF media = "markdown" THEN l.level = 2 ELSE l.text = <<>>
           /\ ~Breaks(n, n)'
<1>1. /\ source' \in Seq(Lines) /\ Len(source') = n /\ Len(source) \in Nat
      /\ source'[n] = l /\ \A i \in 1 .. Len(source) : source'[i] = source[i]
      /\ DOMAIN source = 1 .. Len(source) /\ DOMAIN source' = 1 .. n
  BY AppendProperties, LenProperties
<1>2. n \in Nat /\ 1 .. n = 1 .. Len(source) \cup {n} /\ n \notin 1 .. Len(source)
  BY <1>1
<1>3. Written' = Written \cup (IF l.level <= 1 THEN Letters(CharsOf(n, l)) ELSE {})
  <2> DEFINE New == IF l.level <= 1 THEN Letters(CharsOf(n, l)) ELSE {}
  <2>1. ASSUME NEW x \in Written' PROVE x \in Written \cup New
    <3>1. PICK i \in DOMAIN source' : source'[i].level <= 1 /\ x \in Letters(CharsOf(i, source'[i]))
      BY DEF Written
    <3>2. CASE i \in 1 .. Len(source)
      <4>1. i \in DOMAIN source /\ source[i].level <= 1 /\ x \in Letters(CharsOf(i, source[i]))
        BY <1>1, <3>1, <3>2
      <4> QED BY <4>1 DEF Written
    <3>3. CASE i = n
      BY <1>1, <3>1, <3>3
    <3> QED BY <1>1, <1>2, <3>1, <3>2, <3>3
  <2>2. ASSUME NEW x \in Written PROVE x \in Written'
    <3>1. PICK i \in DOMAIN source : source[i].level <= 1 /\ x \in Letters(CharsOf(i, source[i]))
      BY DEF Written
    <3>2. i \in DOMAIN source' /\ source'[i].level <= 1 /\ x \in Letters(CharsOf(i, source'[i]))
      BY <1>1, <1>2, <3>1
    <3> QED BY <3>2 DEF Written
  <2>3. ASSUME NEW x \in New PROVE x \in Written'
    <3>1. n \in DOMAIN source' /\ source'[n].level <= 1 /\ x \in Letters(CharsOf(n, source'[n]))
      BY <1>1, <1>2, <2>3
    <3> QED BY <3>1 DEF Written
  <2> QED BY <2>1, <2>2, <2>3
<1>4. ASSUME NEW i \in 1 .. Len(source), NEW s \in Nat
      PROVE  StandsUnder(i, s)' <=> StandsUnder(i, s)
  <2>1. \A h \in 1 .. i : source'[h] = source[h]
    BY <1>1
  <2>2. \A h \in s + 1 .. i : h \in 1 .. i
    BY <1>1
  <2> QED BY <2>1, <2>2 DEF StandsUnder, None
<1>5. ASSUME NEW i \in Nat, NEW j \in 1 .. Len(source)
      PROVE  Breaks(i, j)' <=> Breaks(i, j)
  <2>1. \A h \in i + 1 .. j : source'[h] = source[h]
    BY <1>1
  <2> QED BY <2>1 DEF Breaks
<1>6. ASSUME NEW i \in 1 .. Len(source)
      PROVE  Breaks(i, n)' <=> \/ Breaks(i, Len(source))
                               \/ IF media = "markdown" THEN l.level = 2 ELSE l.text = <<>>
  <2>1. /\ \A h \in i + 1 .. Len(source) : source'[h] = source[h]
        /\ i + 1 .. n = (i + 1 .. Len(source)) \cup {n}
    BY <1>1
  <2> QED BY <1>1, <2>1 DEF Breaks
<1>7. ~Breaks(n, n)'
  <2>1. n + 1 .. n = {}
    BY <1>2
  <2> QED BY <2>1 DEF Breaks
<1> QED BY <1>1, <1>3, <1>4, <1>5, <1>6, <1>7

\* A line that adds no text: deeper headings and blank lines.
LEMMA NoText ==
    ASSUME Trimmed, ReadInv, NEW l \in Lines, source' = Append(source, l), media' = media,
           l.level > 1 \/ l.text = <<>>
    PROVE  Written' = Written
<1>1. Written' = Written \cup (IF l.level <= 1 THEN Letters(CharsOf(Len(source) + 1, l)) ELSE {})
  <2>1. Len(source) + 1 \in Nat
    BY LenProperties DEF ReadInv
  <2> QED BY <2>1, SourceGrows DEF ReadInv
<1>2. ASSUME l.level <= 1 PROVE Letters(CharsOf(Len(source) + 1, l)) = {}
  <2>1. l.text = <<>>
    BY <1>2, LinesAre
  <2>2. DOMAIN CharsOf(Len(source) + 1, l) = {}
    BY <2>1 DEF CharsOf
  <2> QED BY <2>2 DEF Letters
<1> QED BY <1>1, <1>2

LEMMA GoesOnStill ==
    ASSUME Trimmed, ReadInv, NEW l \in Lines, source' = Append(source, l), media' = media,
           NEW t \in Seq(Char), GoesOn(t, source), Letters(t) \subseteq Written
    PROVE  GoesOn(t, source')
<1>1. ASSUME NEW q \in DOMAIN t, ~IsBlank(t[q])
      PROVE  source'[t[q].line] = source[t[q].line]
  <2>1. t[q] \in Written
    BY <1>1 DEF Letters
  <2>2. t[q].line \in 1 .. Len(source)
    BY <2>1, WrittenAre DEF ReadInv
  <2>3. Len(source) + 1 \in Nat
    BY LenProperties DEF ReadInv
  <2> QED BY <2>2, <2>3, SourceGrows DEF ReadInv
<1> QED BY <1>1 DEF GoesOn

\* Words and lines of two texts joined by a space.
LEMMA PlacesOfJoined ==
    ASSUME NEW t \in Seq(Char), NEW u \in Seq(Char), NEW s \in Char, IsBlank(s),
           NEW j, j = Append(t, s) \o u, NEW m, m = Len(t) + 1
    PROVE  /\ Len(t) \in Nat /\ m \in Nat /\ DOMAIN j \subseteq Nat
           /\ \A q \in DOMAIN t : q < m /\ q \in DOMAIN j /\ j[q] = t[q]
           /\ m \in DOMAIN j /\ j[m] = s
           /\ \A q \in DOMAIN u : m + q \in DOMAIN j /\ j[m + q] = u[q]
           /\ \A q \in DOMAIN j : q \in DOMAIN t \/ q = m \/ (q > m /\ q - m \in DOMAIN u)
<1> DEFINE v == Append(t, s)
<1>1. /\ v \in Seq(Char) /\ Len(v) = m /\ v[m] = s
      /\ \A i \in 1 .. Len(t) : v[i] = t[i]
  BY AppendProperties
<1>2. /\ Len(t) \in Nat /\ m \in Nat /\ DOMAIN t = 1 .. Len(t) /\ DOMAIN v = 1 .. m
  BY <1>1, LenProperties
<1>3. j = v \o u
  OBVIOUS
<1> HIDE DEF v
<1>4. /\ j \in Seq(Char)
      /\ \A q \in DOMAIN v : q \in DOMAIN j /\ j[q] = v[q]
      /\ \A q \in DOMAIN u : m + q \in DOMAIN j /\ j[m + q] = u[q]
      /\ \A q \in DOMAIN j : q \in DOMAIN v \/ (q > m /\ q - m \in DOMAIN u)
  BY <1>1, <1>3, PlacesOfConcat
<1>5. DOMAIN j = 1 .. Len(j) /\ Len(j) \in Nat
  BY <1>4, LenProperties
<1>6. \A q \in DOMAIN t : q < m /\ q \in DOMAIN j /\ j[q] = t[q]
  BY <1>1, <1>2, <1>4
<1>7. m \in DOMAIN j /\ j[m] = s
  BY <1>1, <1>2, <1>4
<1>8. \A q \in DOMAIN v : q \in DOMAIN t \/ q = m
  BY <1>2
<1>9. \A q \in DOMAIN j : q \in DOMAIN t \/ q = m \/ (q > m /\ q - m \in DOMAIN u)
  BY <1>4, <1>8
<1>10. DOMAIN j \subseteq Nat
  BY <1>5
<1> QED BY <1>2, <1>4, <1>6, <1>7, <1>9, <1>10

LEMMA RunsOfJoined ==
    ASSUME NEW t \in Seq(Char), NEW u \in Seq(Char), NEW s \in Char, IsBlank(s),
           Runs(t), Runs(u)
    PROVE  Runs(Append(t, s) \o u)
<1> DEFINE j == Append(t, s) \o u
           m == Len(t) + 1
<1> HIDE DEF j, m
<1>1. /\ Len(t) \in Nat /\ DOMAIN j \subseteq Nat /\ m \in Nat
      /\ \A q \in DOMAIN t : q < m /\ j[q] = t[q]
      /\ j[m] = s
      /\ \A q \in DOMAIN u : j[m + q] = u[q]
      /\ \A q \in DOMAIN j : q \in DOMAIN t \/ q = m \/ (q > m /\ q - m \in DOMAIN u)
  BY PlacesOfJoined DEF j, m
<1>2. DOMAIN t = 1 .. Len(t) /\ DOMAIN u = 1 .. Len(u) /\ Len(u) \in Nat
  BY LenProperties
<1>3. SUFFICES ASSUME NEW q \in DOMAIN j, NEW r \in DOMAIN j, q <= r,
                      \A k \in q .. r : ~IsBlank(j[k])
               PROVE  j[r].line = j[q].line /\ j[r].at = j[q].at + (r - q)
  BY DEF Runs, j
<1>4. ~(m \in q .. r)
  BY <1>1, <1>3
<1>5. CASE r < m
  <2>1. r \in DOMAIN t /\ q \in DOMAIN t
    BY <1>1, <1>2, <1>3, <1>5
  <2>2. \A k \in q .. r : k \in DOMAIN t
    BY <1>2, <2>1
  <2>3. \A k \in q .. r : ~IsBlank(t[k])
    BY <1>1, <1>3, <2>2
  <2> QED BY <1>1, <1>3, <2>1, <2>3 DEF Runs
<1>6. CASE q > m
  <2>1. q - m \in DOMAIN u /\ r - m \in DOMAIN u /\ q - m <= r - m
    <3>1. m \in Nat /\ q \in Nat /\ r \in Nat /\ q > m /\ r > m
      BY <1>1, <1>3, <1>6
    <3>2. q \notin DOMAIN t /\ r \notin DOMAIN t
      BY <1>1, <3>1
    <3>3. q - m \in DOMAIN u /\ r - m \in DOMAIN u
      BY <1>1, <3>1, <3>2
    <3> QED BY <1>3, <3>1, <3>3
  <2>2. j[q] = u[q - m] /\ j[r] = u[r - m]
    <3>1. m + (q - m) = q /\ m + (r - m) = r
      BY <1>1
    <3> QED BY <1>1, <2>1, <3>1
  <2>3. ASSUME NEW k \in q - m .. r - m PROVE ~IsBlank(u[k])
    <3>1. m \in Nat /\ q \in Nat /\ r \in Nat
      BY <1>1
    <3>2. k \in DOMAIN u
      BY <1>2, <2>1, <3>1
    <3>3. m + k \in q .. r
      BY <3>1
    <3>4. j[m + k] = u[k]
      BY <1>1, <3>2
    <3> QED BY <1>3, <3>3, <3>4
  <2>4. u[r - m].line = u[q - m].line /\ u[r - m].at = u[q - m].at + ((r - m) - (q - m))
    BY <2>1, <2>3 DEF Runs
  <2>5. (r - m) - (q - m) = r - q
    BY <1>1
  <2> QED BY <2>2, <2>4, <2>5
<1> QED BY <1>1, <1>3, <1>4, <1>5, <1>6

LEMMA GoesOnOfJoined ==
    ASSUME NEW t \in Seq(Char), NEW u \in Seq(Char), NEW s \in Char, IsBlank(s),
           NEW lines, GoesOn(t, lines), GoesOn(u, lines)
    PROVE  GoesOn(Append(t, s) \o u, lines)
<1> DEFINE j == Append(t, s) \o u
           m == Len(t) + 1
<1> HIDE DEF j, m
<1>1. /\ Len(t) \in Nat /\ DOMAIN j \subseteq Nat /\ m \in Nat
      /\ \A q \in DOMAIN t : q \in DOMAIN j /\ j[q] = t[q]
      /\ j[m] = s
      /\ \A q \in DOMAIN u : m + q \in DOMAIN j /\ j[m + q] = u[q]
      /\ \A q \in DOMAIN j : q \in DOMAIN t \/ q = m \/ (q > m /\ q - m \in DOMAIN u)
  BY PlacesOfJoined DEF j, m
<1>2. DOMAIN u \subseteq Nat
  <2>1. DOMAIN u = 1 .. Len(u) /\ Len(u) \in Nat
    BY LenProperties
  <2> QED BY <2>1
<1>3. SUFFICES ASSUME NEW q \in DOMAIN j, ~IsBlank(j[q]),
                      j[q].at < Len(lines[j[q].line].text)
               PROVE  /\ q + 1 \in DOMAIN j
                      /\ j[q + 1] = [line |-> j[q].line, at |-> j[q].at + 1,
                                     kind |-> lines[j[q].line].text[j[q].at + 1]]
  BY DEF GoesOn, j
<1>4. CASE q \in DOMAIN t
  <2>1. j[q] = t[q]
    BY <1>1, <1>4
  <2>2. /\ q + 1 \in DOMAIN t
        /\ t[q + 1] = [line |-> t[q].line, at |-> t[q].at + 1,
                       kind |-> lines[t[q].line].text[t[q].at + 1]]
    BY <1>3, <1>4, <2>1 DEF GoesOn
  <2> QED BY <1>1, <2>1, <2>2
<1>5. CASE q > m /\ q - m \in DOMAIN u
  <2> DEFINE p == q - m
  <2>1. p \in DOMAIN u /\ m + p = q /\ m + (p + 1) = q + 1
    BY <1>1, <1>2, <1>5
  <2> HIDE DEF p
  <2>2. j[q] = u[p]
    BY <1>1, <2>1
  <2>3. /\ p + 1 \in DOMAIN u
        /\ u[p + 1] = [line |-> u[p].line, at |-> u[p].at + 1,
                       kind |-> lines[u[p].line].text[u[p].at + 1]]
    BY <1>3, <2>1, <2>2 DEF GoesOn
  <2>4. q + 1 \in DOMAIN j /\ j[q + 1] = u[p + 1]
    BY <1>1, <2>1, <2>3
  <2> QED BY <2>2, <2>3, <2>4
<1> QED BY <1>1, <1>3, <1>4, <1>5

\* A line of text ends the last text t, or is a text of its own (t empty).
LEMMA LineAdded ==
    ASSUME Trimmed, ReadInv, NEW l \in Lines, source' = Append(source, l),
           media' = media, page' = page,
           NEW n \in Nat, n = Len(source) + 1,
           l.level <= 1, l.text # <<>>,
           NEW base \in Seq(Blocks), NEW t \in Seq(Char), NEW under \in Nat,
           Flush = IF t = <<>> THEN base ELSE Append(base, Block(section, t)),
           t # <<>> => under = section,
           StandsUnder(n, under)',
           NEW j, j = (IF t = <<>> THEN <<>> ELSE Append(t, Separator)) \o CharsOf(n, l),
           NEW list, list = Append(base, Block(under, j))
    PROVE  list \in Seq(Blocks) /\ Gathered(list)' /\ OnPages(list)' /\ Len(list) \in DOMAIN list
<1> DEFINE u == CharsOf(n, l)
<1>1. /\ u \in Seq(Char) /\ Ordered(u) /\ Runs(u)
      /\ \A x \in Letters(u) : x.line = n
  BY CharsAre
<1>2. /\ source \in Seq(Lines) /\ Len(source) \in Nat /\ page \in Nat /\ section \in Nat
      /\ media \in {"markdown", "text"}
      /\ source'[n] = l /\ Written' = Written \cup Letters(u) /\ Len(source') = n
  BY SourceGrows, LenProperties DEF ReadInv
<1>3. \A x \in Written : x.line \in 1 .. Len(source) /\ x.line < n
  BY <1>2, WrittenAre
<1>4. GoesOn(u, source')
  <2>1. \A q \in DOMAIN u : q \in 1 .. Len(l.text) /\ u[q] = [line |-> n, at |-> q, kind |-> l.text[q]]
    BY CharsAre
  <2>2. /\ DOMAIN u = 1 .. Len(l.text) /\ Len(l.text) \in Nat
    <3>1. u \in Seq(Char) /\ Len(u) = Len(l.text)
      BY CharsAre
    <3> HIDE DEF u
    <3> QED BY <3>1, LenProperties
  <2> HIDE DEF u
  <2>3. ASSUME NEW q \in DOMAIN u, u[q].at < Len(source'[u[q].line].text)
        PROVE  /\ q + 1 \in DOMAIN u
               /\ u[q + 1] = [line |-> u[q].line, at |-> u[q].at + 1,
                              kind |-> source'[u[q].line].text[u[q].at + 1]]
    <3>1. u[q].line = n /\ u[q].at = q /\ source'[n] = l /\ q < Len(l.text)
      BY <1>2, <2>1, <2>3
    <3>2. q + 1 \in DOMAIN u
      <4>1. q \in 1 .. Len(l.text) /\ Len(l.text) \in Nat
        BY <2>2
      <4> QED BY <2>2, <3>1, <4>1
    <3> QED BY <2>1, <3>1, <3>2
  <2> QED BY <2>3 DEF GoesOn, u
<1> HIDE DEF u
\* What was gathered before.
<1>5. /\ Block(section, t) \in Blocks
      /\ Flush \in Seq(Blocks)
      /\ t # <<>> => Len(Flush) \in DOMAIN Flush /\ Flush[Len(Flush)] = Block(section, t)
      /\ \A c \in DOMAIN base : c \in DOMAIN Flush /\ Flush[c] = base[c]
      /\ LettersIn(base) \cup Letters(t) = Written
      /\ InOrder(base)
      /\ \A x \in LettersIn(base), y \in Letters(t) : Before(x, y)
  <2>1. Block(section, t) \in Blocks /\ Block(section, t).text = t
    BY <1>2 DEF Block, Blocks
  <2>2. CASE t = <<>>
    <3>1. Letters(t) = {} /\ Flush = base
      BY <2>2 DEF Letters
    <3> QED BY <2>1, <2>2, <3>1 DEF ReadInv, Gathered
  <2>3. CASE t # <<>>
    <3>1. Flush = Append(base, Block(section, t))
      BY <2>3
    <3>2. LettersIn(Flush) = Written /\ InOrder(Flush)
      BY DEF ReadInv, Gathered
    <3>3. /\ Flush \in Seq(Blocks) /\ LettersIn(base) \cup Letters(t) = Written
          /\ InOrder(base) /\ \A x \in LettersIn(base), y \in Letters(t) : Before(x, y)
      BY <2>1, <3>1, <3>2, ListOfAppend
    <3>4. /\ Len(Flush) \in DOMAIN Flush /\ Flush[Len(Flush)] = Block(section, t)
          /\ \A c \in DOMAIN base : c \in DOMAIN Flush /\ Flush[c] = base[c]
      BY <2>1, <3>1, PlacesOfAppend
    <3> QED BY <2>1, <3>3, <3>4
  <2> QED BY <2>2, <2>3
<1>6. /\ Ordered(t) /\ Runs(t) /\ GoesOn(t, source') /\ Letters(t) \subseteq Written
  <2>1. Letters(t) \subseteq Written
    BY <1>5
  <2>2. CASE t = <<>>
    BY <2>1, <2>2 DEF Ordered, Runs, GoesOn
  <2>3. CASE t # <<>>
    <3>1. Flush[Len(Flush)].text = t /\ Len(Flush) \in DOMAIN Flush
      BY <1>5, <2>3 DEF Block
    <3>2. Ordered(t) /\ Runs(t) /\ GoesOn(t, source)
      <4>1. Gathered(Flush)
        BY DEF ReadInv
      <4>2. \A c \in DOMAIN Flush :
               Ordered(Flush[c].text) /\ Runs(Flush[c].text) /\ GoesOn(Flush[c].text, source)
        BY <4>1 DEF Gathered, InOrder
      <4> QED BY <3>1, <4>2
    <3>3. GoesOn(t, source')
      BY <2>1, <3>2, GoesOnStill
    <3> QED BY <2>1, <3>2, <3>3
  <2> QED BY <2>2, <2>3
\* The text with the line.
<1>7. /\ j \in Seq(Char) /\ Letters(j) = Letters(t) \cup Letters(u)
      /\ Ordered(j) /\ Runs(j) /\ GoesOn(j, source')
  <2>1. CASE t = <<>>
    <3>1. j = u /\ Letters(t) = {}
      <4>1. <<>> \o u = u
        BY <1>1, ConcatEmptySeq
      <4> QED BY <2>1, <4>1 DEF Letters, u
    <3> QED BY <1>1, <1>4, <3>1
  <2>2. CASE t # <<>>
    <3>1. Separator \in Char /\ IsBlank(Separator)
      BY DEF Separator, Char, IsBlank, Kinds
    <3>2. \A x \in Letters(t), y \in Letters(u) : Before(x, y)
      BY <1>1, <1>3, <1>6 DEF Before
    <3>3. j = Append(t, Separator) \o u
      BY <2>2 DEF u
    <3>4. j \in Seq(Char) /\ Letters(j) = Letters(t) \cup Letters(u) /\ Ordered(j)
      <4> HIDE DEF u
      <4>1. LET k == Append(t, Separator) \o u
            IN  /\ k \in Seq(Char) /\ Letters(k) = Letters(t) \cup Letters(u)
                /\ /\ Ordered(t) /\ Ordered(u)
                   /\ \A x \in Letters(t), y \in Letters(u) : Before(x, y)
                   => Ordered(k)
        BY <1>1, <3>1, JoinedTexts
      <4> QED BY <1>1, <1>6, <3>2, <3>3, <4>1
    <3>5. Runs(j)
      BY <1>1, <1>6, <3>1, <3>3, RunsOfJoined
    <3>6. GoesOn(j, source')
      BY <1>1, <1>4, <1>6, <3>1, <3>3, GoesOnOfJoined
    <3> QED BY <3>4, <3>5, <3>6
  <2> QED BY <2>1, <2>2
<1>8. /\ Block(under, j) \in Blocks
      /\ Block(under, j).page = page /\ Block(under, j).section = under /\ Block(under, j).text = j
  BY <1>2, <1>7 DEF Block, Blocks
<1>9. /\ list \in Seq(Blocks) /\ LettersIn(list) = Written'
      /\ InOrder(list)
  <2>1. /\ list \in Seq(Blocks) /\ LettersIn(list) = LettersIn(base) \cup Letters(j)
        /\ InOrder(list) <=> /\ InOrder(base) /\ Ordered(j)
                             /\ \A x \in LettersIn(base), y \in Letters(j) : Before(x, y)
    <3> DEFINE b == Block(under, j)
    <3>1. b \in Blocks /\ list = Append(base, b)
      BY <1>8, Zenon
    <3>0. b.text = j
      BY DEF Block
    <3> HIDE DEF b
    <3>2. /\ list \in Seq(Blocks) /\ LettersIn(list) = LettersIn(base) \cup Letters(b.text)
          /\ InOrder(list) <=> /\ InOrder(base) /\ Ordered(b.text)
                               /\ \A x \in LettersIn(base), y \in Letters(b.text) : Before(x, y)
      BY <3>1, ListOfAppend
    <3> QED BY <3>0, <3>2
  <2>2. LettersIn(list) = Written'
    BY <1>2, <1>5, <1>7, <2>1
  <2>3. \A x \in LettersIn(base), y \in Letters(u) : Before(x, y)
    BY <1>1, <1>3, <1>5 DEF Before
  <2> QED BY <1>5, <1>7, <2>1, <2>2, <2>3
<1>10. /\ Len(list) \in DOMAIN list /\ list[Len(list)] = Block(under, j)
       /\ \A c \in DOMAIN list : \/ c \in DOMAIN base /\ list[c] = base[c]
                                 \/ c = Len(list) /\ list[c] = Block(under, j)
  BY <1>8, PlacesOfAppend
\* A letter is of the line or was there before, on the same page.
<1> DEFINE IsNew(c, x) == x.line = n /\ list[c].page = page /\ list[c].section = under
           WasIn(c, x, f) == /\ x \in Letters(Flush[f].text)
                             /\ Flush[f].page = list[c].page
                             /\ Flush[f].section = list[c].section
           WasThere(c, x) == x.line \in 1 .. Len(source) /\ \E f \in DOMAIN Flush : WasIn(c, x, f)
<1>11. \A c \in DOMAIN list : \A x \in Letters(list[c].text) : IsNew(c, x) \/ WasThere(c, x)
  <2>1. ASSUME NEW c \in DOMAIN list, NEW x \in Letters(list[c].text)
        PROVE  IsNew(c, x) \/ WasThere(c, x)
    <3>1. CASE c \in DOMAIN base /\ list[c] = base[c]
      <4>1. c \in DOMAIN Flush /\ Flush[c] = list[c]
        BY <1>5, <3>1
      <4>2. x \in Written
        BY <1>5, <2>1, <3>1 DEF LettersIn
      <4> QED BY <1>3, <2>1, <4>1, <4>2
    <3>2. CASE list[c] = Block(under, j) /\ x \in Letters(u)
      BY <1>1, <1>8, <3>2
    <3>3. CASE list[c] = Block(under, j) /\ x \in Letters(t)
      <4>1. t # <<>>
        BY <3>3 DEF Letters
      <4>2. Len(Flush) \in DOMAIN Flush /\ Flush[Len(Flush)] = Block(section, t) /\ under = section
        BY <1>5, <4>1
      <4>3. /\ Block(section, t).text = t /\ Block(section, t).page = page
            /\ Block(section, t).section = section
        BY DEF Block
      <4>4. x.line \in 1 .. Len(source)
        BY <1>3, <1>6, <3>3
      <4>5. /\ x \in Letters(Flush[Len(Flush)].text)
            /\ Flush[Len(Flush)].page = list[c].page /\ Flush[Len(Flush)].section = list[c].section
        BY <1>8, <3>3, <4>2, <4>3
      <4> QED BY <4>2, <4>4, <4>5
    <3>4. list[c] = Block(under, j) => x \in Letters(t) \cup Letters(u)
      <4>1. Block(under, j).text = j
        BY DEF Block
      <4> QED BY <1>7, <2>1, <4>1
    <3> QED BY <1>10, <3>1, <3>2, <3>3, <3>4
  <2> QED BY <2>1
<1> HIDE DEF IsNew, WasThere
<1>12. \A f \in DOMAIN Flush : /\ Flush[f].page \in Nat /\ Flush[f].section \in Nat
                               /\ Flush[f].text \in Seq(Char)
  <2>1. \A f \in DOMAIN Flush : Flush[f] \in Blocks
    <3>1. DOMAIN Flush = 1 .. Len(Flush)
      BY <1>5, LenProperties
    <3> QED BY <1>5, <3>1, ElementOfSeq
  <2> QED BY <2>1 DEF Blocks
<1>13. /\ \A i \in 1 .. Len(source), s \in Nat : StandsUnder(i, s)' <=> StandsUnder(i, s)
       /\ \A i, k \in 1 .. Len(source) : Breaks(i, k)' <=> Breaks(i, k)
       /\ \A i \in 1 .. Len(source) : Breaks(i, n)' <=> Breaks(i, Len(source))
       /\ ~Breaks(n, n)'
  <2>1. ~(IF media = "markdown" THEN l.level = 2 ELSE l.text = <<>>)
    <3>1. l.level # 2
      BY LinesAre
    <3> QED BY <3>1
  <2>2. /\ \A i \in 1 .. Len(source), s \in Nat : StandsUnder(i, s)' <=> StandsUnder(i, s)
        /\ \A i \in Nat, k \in 1 .. Len(source) : Breaks(i, k)' <=> Breaks(i, k)
        /\ \A i \in 1 .. Len(source) :
              Breaks(i, n)' <=> \/ Breaks(i, Len(source))
                                \/ IF media = "markdown" THEN l.level = 2 ELSE l.text = <<>>
        /\ ~Breaks(n, n)'
    BY <1>2, SourceGrows
  <2>3. \A i \in 1 .. Len(source) : i \in Nat
    OBVIOUS
  <2>4. \A i \in 1 .. Len(source) : Breaks(i, n)' <=> Breaks(i, Len(source))
    BY <2>1, <2>2
  <2> QED BY <2>2, <2>3, <2>4
<1>14. ASSUME NEW c \in DOMAIN list
       PROVE  Runs(list[c].text) /\ GoesOn(list[c].text, source')
  <2>1. CASE c \in DOMAIN base /\ list[c] = base[c]
    <3>1. c \in DOMAIN Flush /\ Flush[c] = list[c]
      BY <1>5, <2>1
    <3>2. Runs(list[c].text) /\ GoesOn(list[c].text, source)
      BY <3>1 DEF ReadInv, Gathered
    <3>3. Letters(list[c].text) \subseteq Written
      BY <1>5, <2>1 DEF LettersIn
    <3>4. list[c].text \in Seq(Char)
      BY <1>12, <3>1
    <3> QED BY <3>2, <3>3, <3>4, GoesOnStill
  <2>2. CASE list[c] = Block(under, j)
    BY <1>7, <1>8, <2>2
  <2> QED BY <1>10, <2>1, <2>2
<1>15. ASSUME NEW c \in DOMAIN list, NEW x \in Letters(list[c].text)
       PROVE  StandsUnder(x.line, list[c].section)'
  <2>1. CASE IsNew(c, x)
    BY <2>1 DEF IsNew
  <2>2. CASE WasThere(c, x)
    <3>1. x.line \in 1 .. Len(source)
      BY <2>2 DEF WasThere
    <3>2. PICK f \in DOMAIN Flush : x \in Letters(Flush[f].text) /\ Flush[f].section = list[c].section
      BY <2>2 DEF WasThere
    <3>3. StandsUnder(x.line, Flush[f].section)
      BY <3>2 DEF ReadInv, Gathered
    <3> QED BY <1>12, <1>13, <3>1, <3>2, <3>3
  <2> QED BY <1>11, <2>1, <2>2
<1>16. ASSUME NEW c \in DOMAIN list, NEW x \in Letters(list[c].text)
       PROVE  list[c].page = page <=> ~Breaks(x.line, n)'
  <2>1. CASE IsNew(c, x)
    BY <1>13, <2>1 DEF IsNew
  <2>2. CASE WasThere(c, x)
    <3>1. x.line \in 1 .. Len(source)
      BY <2>2 DEF WasThere
    <3>2. PICK f \in DOMAIN Flush : x \in Letters(Flush[f].text) /\ Flush[f].page = list[c].page
      BY <2>2 DEF WasThere
    <3>3. Flush[f].page = page <=> ~Breaks(x.line, Len(source))
      BY <3>2 DEF ReadInv, OnPages
    <3>4. Breaks(x.line, n)' <=> Breaks(x.line, Len(source))
      BY <1>13, <3>1
    <3> QED BY <3>2, <3>3, <3>4
  <2> QED BY <1>11, <2>1, <2>2
<1>18. ASSUME NEW c \in DOMAIN list, NEW d \in DOMAIN list,
              NEW x \in Letters(list[c].text), NEW y \in Letters(list[d].text),
              x.line <= y.line
       PROVE  list[c].page = list[d].page <=> ~Breaks(x.line, y.line)'
  <2>1. CASE IsNew(d, y)
    <3>1. y.line = n /\ list[d].page = page
      BY <2>1 DEF IsNew
    <3> QED BY <1>16, <3>1
  <2>2. CASE WasThere(d, y)
    <3>1. y.line \in 1 .. Len(source)
      BY <2>2 DEF WasThere
    <3>2. PICK g \in DOMAIN Flush : y \in Letters(Flush[g].text) /\ Flush[g].page = list[d].page
      BY <2>2 DEF WasThere
    <3>3. ~IsNew(c, x)
      <4>1. n > y.line
        BY <1>2, <3>1
      <4> QED BY <1>18, <3>1, <4>1 DEF IsNew
    <3>4. WasThere(c, x)
      BY <1>11, <3>3
    <3>5. x.line \in 1 .. Len(source)
      BY <3>4 DEF WasThere
    <3>6. PICK f \in DOMAIN Flush : x \in Letters(Flush[f].text) /\ Flush[f].page = list[c].page
      BY <3>4 DEF WasThere
    <3>7. Flush[f].page = Flush[g].page <=> ~Breaks(x.line, y.line)
      BY <1>18, <3>2, <3>6 DEF ReadInv, Gathered
    <3>8. Breaks(x.line, y.line)' <=> Breaks(x.line, y.line)
      BY <1>13, <3>1, <3>5
    <3> QED BY <3>2, <3>6, <3>7, <3>8
  <2> QED BY <1>11, <2>1, <2>2
<1>17. ASSUME NEW c \in DOMAIN list
       PROVE  list[c].page <= page /\ list[c].page <= list[Len(list)].page
  <2>1. list[Len(list)].page = page
    BY <1>8, <1>10
  <2>2. CASE c \in DOMAIN base /\ list[c] = base[c]
    <3>1. c \in DOMAIN Flush /\ Flush[c] = list[c]
      BY <1>5, <2>2
    <3> QED BY <2>1, <3>1 DEF ReadInv, OnPages
  <2>3. CASE list[c] = Block(under, j)
    BY <1>2, <1>8, <2>1, <2>3
  <2> QED BY <1>10, <2>2, <2>3
<1>19. Gathered(list)'
  <2>1. (InOrder(list) /\ LettersIn(list) = Written)'
    BY <1>9
  <2>2. (\A b \in DOMAIN list :
           /\ Runs(list[b].text) /\ GoesOn(list[b].text, source)
           /\ \A x \in Letters(list[b].text) : StandsUnder(x.line, list[b].section))'
    BY <1>14, <1>15
  <2>3. (\A b, d \in DOMAIN list :
           \A x \in Letters(list[b].text), y \in Letters(list[d].text) :
              x.line <= y.line => (list[b].page = list[d].page <=> ~Breaks(x.line, y.line)))'
    BY <1>18
  <2> QED BY <2>1, <2>2, <2>3 DEF Gathered
<1>20. OnPages(list)'
  <2>1. \A i : Breaks(i, Len(source))' <=> Breaks(i, n)'
    BY <1>2 DEF Breaks
  <2> QED BY <1>16, <1>17, <2>1 DEF OnPages
<1> QED BY <1>9, <1>10, <1>19, <1>20

\* A line without text ends the paragraph, and the page where it is a break.
LEMMA NothingAdded ==
    ASSUME Trimmed, ReadInv, NEW l \in Lines, source' = Append(source, l), media' = media,
           l.level > 1 \/ l.text = <<>>,
           page' = IF (IF media = "markdown" THEN l.level = 2 ELSE l.text = <<>>)
                   THEN NextPage(Flush) ELSE page,
           NEW n \in Nat, n = Len(source) + 1,
           NEW list \in Seq(Blocks), list = Flush
    PROVE  Gathered(list)' /\ OnPages(list)' /\ page' \in Nat
<1> DEFINE IsBreak == IF media = "markdown" THEN l.level = 2 ELSE l.text = <<>>
<1>1. Len(source) \in Nat /\ page \in Nat /\ source \in Seq(Lines)
  BY LenProperties DEF ReadInv
<1>2. page' = IF IsBreak THEN NextPage(list) ELSE page
  OBVIOUS
<1> HIDE DEF IsBreak
<1>3. Written' = Written
  BY NoText
<1>4. /\ Len(source') = n
      /\ \A i \in 1 .. Len(source), s \in Nat : StandsUnder(i, s)' <=> StandsUnder(i, s)
      /\ \A i \in Nat, k \in 1 .. Len(source) : Breaks(i, k)' <=> Breaks(i, k)
      /\ \A i \in 1 .. Len(source) : Breaks(i, n)' <=> (Breaks(i, Len(source)) \/ IsBreak)
  <2>1. /\ Len(source') = n
        /\ \A i \in 1 .. Len(source), s \in Nat : StandsUnder(i, s)' <=> StandsUnder(i, s)
        /\ \A i \in Nat, k \in 1 .. Len(source) : Breaks(i, k)' <=> Breaks(i, k)
        /\ \A i \in 1 .. Len(source) :
              Breaks(i, n)' <=> \/ Breaks(i, Len(source))
                                \/ IF media = "markdown" THEN l.level = 2 ELSE l.text = <<>>
    BY <1>1, SourceGrows
  <2> QED BY <2>1 DEF IsBreak
<1>5. Gathered(list) /\ OnPages(list)
  BY DEF ReadInv
<1>6. ASSUME NEW c \in DOMAIN list
      PROVE  /\ list[c].page \in Nat /\ list[c].section \in Nat /\ list[c].text \in Seq(Char)
             /\ Len(list) \in DOMAIN list /\ list # <<>>
             /\ \A x \in Letters(list[c].text) : x.line \in 1 .. Len(source) /\ x \in Written
  <2>1. Len(list) \in Nat /\ DOMAIN list = 1 .. Len(list) /\ list[c] \in Blocks
    BY LenProperties, ElementOfSeq
  <2>2. Len(list) \in DOMAIN list /\ list # <<>>
    BY <2>1
  <2>3. ASSUME NEW x \in Letters(list[c].text)
        PROVE  x.line \in 1 .. Len(source) /\ x \in Written
    <3>1. x \in LettersIn(list)
      BY DEF LettersIn
    <3>2. x \in Written
      BY <1>5, <3>1 DEF Gathered
    <3> QED BY <1>1, <3>2, WrittenAre
  <2> QED BY <2>1, <2>2, <2>3 DEF Blocks
<1>7. page' \in Nat /\ page' >= page /\ (page' # page => IsBreak)
  BY <1>1, <1>2 DEF NextPage
<1>8. ASSUME NEW c \in DOMAIN list, NEW x \in Letters(list[c].text)
      PROVE  list[c].page = page' <=> ~Breaks(x.line, n)'
  <2>1. /\ list[c].page = page <=> ~Breaks(x.line, Len(source))
        /\ list[c].page <= list[Len(list)].page
        /\ list[Len(list)].page \in Nat /\ list[Len(list)].page <= page
    BY <1>5, <1>6 DEF OnPages
  <2>2. Breaks(x.line, n)' <=> (Breaks(x.line, Len(source)) \/ IsBreak)
    BY <1>4, <1>6
  <2>3. CASE IsBreak
    <3>1. page' = IF list[Len(list)].page = page THEN page + 1 ELSE page
      BY <1>2, <1>6, <2>3 DEF NextPage
    <3>2. list[c].page # page'
      BY <1>1, <1>6, <2>1, <3>1
    <3> QED BY <2>2, <2>3, <3>2
  <2>4. CASE ~IsBreak
    BY <1>2, <2>1, <2>2, <2>4
  <2> QED BY <2>3, <2>4
<1>9. Gathered(list)'
  <2>1. (InOrder(list) /\ LettersIn(list) = Written)'
    BY <1>3, <1>5 DEF Gathered
  <2>2. ASSUME NEW b \in DOMAIN list
        PROVE  (/\ Runs(list[b].text) /\ GoesOn(list[b].text, source)
                /\ \A x \in Letters(list[b].text) : StandsUnder(x.line, list[b].section))'
    <3>1. Runs(list[b].text) /\ GoesOn(list[b].text, source)
      BY <1>5 DEF Gathered
    <3>2. Letters(list[b].text) \subseteq Written
      BY <1>6
    <3>3. GoesOn(list[b].text, source')
      BY <1>6, <3>1, <3>2, GoesOnStill
    <3>4. \A x \in Letters(list[b].text) : StandsUnder(x.line, list[b].section)'
      BY <1>4, <1>5, <1>6 DEF Gathered
    <3> QED BY <3>1, <3>3, <3>4
  <2>3. ASSUME NEW b \in DOMAIN list, NEW d \in DOMAIN list,
               NEW x \in Letters(list[b].text), NEW y \in Letters(list[d].text),
               x.line <= y.line
        PROVE  list[b].page = list[d].page <=> ~Breaks(x.line, y.line)'
    <3>1. x.line \in Nat /\ y.line \in 1 .. Len(source)
      BY <1>1, <1>6
    <3>2. Breaks(x.line, y.line)' <=> Breaks(x.line, y.line)
      BY <1>4, <3>1
    <3> QED BY <1>5, <2>3, <3>2 DEF Gathered
  <2> QED BY <2>1, <2>2, <2>3 DEF Gathered
<1>10. OnPages(list)'
  <2>1. ASSUME NEW c \in DOMAIN list
        PROVE  list[c].page <= page' /\ list[c].page <= list[Len(list)].page
    BY <1>1, <1>5, <1>6, <1>7 DEF OnPages
  <2>2. \A i : Breaks(i, Len(source))' <=> Breaks(i, n)'
    BY <1>4 DEF Breaks
  <2> QED BY <1>8, <2>1, <2>2 DEF OnPages
<1> QED BY <1>7, <1>9, <1>10

\* A line that is no heading stands under the section so far.
LEMMA SectionStays ==
    ASSUME Trimmed, ReadInv, NEW l \in Lines, source' = Append(source, l), media' = media,
           NEW n \in Nat, n = Len(source) + 1, l.level = 0,
           NEW s, s = section
    PROVE  StandsUnder(n, s)'
<1>1. /\ source \in Seq(Lines) /\ Len(source) \in Nat /\ s \in Nat
      /\ StandsUnder(Len(source), s)
  BY LenProperties DEF ReadInv
<1>2. source'[n] = l /\ \A i \in 1 .. Len(source) : source'[i] = source[i]
  BY <1>1, SourceGrows
<1>3. \A h \in s + 1 .. n : h = n \/ (h \in s + 1 .. Len(source) /\ h \in 1 .. Len(source))
  BY <1>1
<1>4. \A h \in s + 1 .. n : source'[h].level = 0
  BY <1>1, <1>2, <1>3 DEF StandsUnder
<1>5. s = None \/ (s \in 1 .. n /\ source'[s].level > 0)
  BY <1>1, <1>2 DEF StandsUnder
<1> QED BY <1>4, <1>5 DEF StandsUnder, None

\* What holds of a list holds of the blocks when they are this list.
LEMMA Renamed ==
    ASSUME NEW list, Flush' = list, Gathered(list)', OnPages(list)'
    PROVE  Gathered(Flush)' /\ OnPages(Flush)'
<1> QED BY DEF Gathered, OnPages

LEMMA ReadStep ==
    ASSUME Trimmed, ReadInv, ReadLine
    PROVE  ReadInv'
<1>1. PICK l \in Lines :
         /\ media = "text" => l.level = 0
         /\ source' = Append(source, l)
         /\ LET i == Len(source) + 1
            IN  \/ l.level > 0 /\ Heading(i, l)
                \/ l.level = 0 /\ l.text = <<>> /\ BlankLine
                \/ l.level = 0 /\ l.text # <<>> /\ TextLine(i, l)
  BY DEF ReadLine
<1>2. /\ media' = media /\ media \in {"markdown", "text"}
      /\ source \in Seq(Lines) /\ Len(source) \in Nat /\ blocks \in Seq(Blocks)
      /\ page \in Nat /\ section \in Nat /\ paragraph \in Seq(Char)
  BY LenProperties DEF ReadLine, ReadInv
<1>3. PICK n \in Nat : n = Len(source) + 1
  BY <1>2
<1>4. PICK base : base = Flush
  OBVIOUS
<1>5. base \in Seq(Blocks)
  <2>1. Block(section, paragraph) \in Blocks
    BY <1>2 DEF Block, Blocks
  <2> QED BY <1>2, <1>4, <2>1, AppendProperties DEF Flush
<1>6. /\ source' \in Seq(Lines) /\ Len(source') = n /\ source'[n] = l
  BY <1>1, <1>2, <1>3, SourceGrows
<1>7. CASE l.level > 0 /\ Heading(n, l)
  <2>1. /\ section' = n /\ paragraph' = <<>>
        /\ page' = IF l.level = 2 THEN NextPage(base) ELSE page
        /\ blocks' = IF l.level = 1 THEN Append(base, Block(n, CharsOf(n, l))) ELSE base
    BY <1>4, <1>7 DEF Heading
  <2>2. StandsUnder(n, n)'
    <3>1. n + 1 .. n = {} /\ n \in 1 .. n
      BY <1>2, <1>3
    <3> QED BY <1>6, <1>7, <3>1 DEF StandsUnder
  <2>3. Flush' = blocks'
    BY <2>1 DEF Flush
  <2>4. StandsUnder(Len(source), section)'
    BY <1>6, <2>1, <2>2 DEF StandsUnder
  <2>5. CASE l.level = 1
    <3>1. PICK list : list = Append(base, Block(n, CharsOf(n, l)))
      OBVIOUS
    <3>2. PICK j : j = <<>> \o CharsOf(n, l)
      OBVIOUS
    <3>3. j = CharsOf(n, l)
      BY <1>1, <3>2, CharsAre, ConcatEmptySeq
    <3>4. l.text # <<>> /\ page' = page /\ blocks' = list
      BY <1>1, <2>1, <2>5, <3>1, LinesAre
    <3>5. /\ list \in Seq(Blocks) /\ Gathered(list)' /\ OnPages(list)'
      <4> DEFINE t == <<>>
      <4>1. /\ t \in Seq(Char) /\ base \in Seq(Blocks)
            /\ Flush = IF t = <<>> THEN base ELSE Append(base, Block(section, t))
            /\ t # <<>> => n = section
            /\ j = (IF t = <<>> THEN <<>> ELSE Append(t, Separator)) \o CharsOf(n, l)
            /\ list = Append(base, Block(n, j))
        BY <1>4, <1>5, <3>1, <3>2, <3>3
      <4>2. source' = Append(source, l) /\ l.level <= 1
        BY <1>1, <2>5
      <4> HIDE DEF t
      <4> QED BY <1>2, <1>3, <2>2, <3>4, <4>1, <4>2, LineAdded
    <3>6. Gathered(Flush)' /\ OnPages(Flush)'
      BY <2>3, <3>4, <3>5, Renamed
    <3>7. section' \in Nat /\ paragraph' \in Seq(Char)
      BY <2>1
    <3> QED BY <1>2, <1>6, <2>4, <3>4, <3>5, <3>6, <3>7 DEF ReadInv
  <2>6. CASE l.level # 1
    <3>1. l.level > 1 /\ media = "markdown"
      BY <1>1, <1>2, <1>7, <2>6, LinesAre
    <3>2. page' = IF (IF media = "markdown" THEN l.level = 2 ELSE l.text = <<>>)
                  THEN NextPage(Flush) ELSE page
      BY <1>4, <2>1, <3>1
    <3>3. Gathered(base)' /\ OnPages(base)' /\ page' \in Nat
      BY <1>1, <1>2, <1>3, <1>4, <1>5, <3>1, <3>2, NothingAdded
    <3>4. blocks' = base
      BY <2>1, <2>6
    <3>5. Gathered(Flush)' /\ OnPages(Flush)'
      BY <2>3, <3>3, <3>4, Renamed
    <3>6. section' \in Nat /\ paragraph' \in Seq(Char)
      BY <2>1
    <3> QED BY <1>2, <1>5, <1>6, <2>4, <3>3, <3>4, <3>5, <3>6 DEF ReadInv
  <2> QED BY <2>5, <2>6
<1>8. CASE l.level = 0 /\ l.text = <<>> /\ BlankLine
  <2>1. /\ section' = section /\ paragraph' = <<>> /\ blocks' = base
        /\ page' = IF media = "text" THEN NextPage(base) ELSE page
    BY <1>4, <1>8 DEF BlankLine
  <2>2. page' = IF (IF media = "markdown" THEN l.level = 2 ELSE l.text = <<>>)
                THEN NextPage(Flush) ELSE page
    BY <1>2, <1>4, <1>8, <2>1
  <2>3. Gathered(base)' /\ OnPages(base)' /\ page' \in Nat
    BY <1>1, <1>2, <1>3, <1>4, <1>5, <1>8, <2>2, NothingAdded
  <2>4. Flush' = base
    BY <2>1 DEF Flush
  <2>5. Gathered(Flush)' /\ OnPages(Flush)'
    BY <2>3, <2>4, Renamed
  <2>6. StandsUnder(Len(source), section)'
    <3>1. PICK s : s = section
      OBVIOUS
    <3>2. StandsUnder(n, s)'
      BY <1>1, <1>2, <1>3, <1>8, <3>1, SectionStays
    <3> QED BY <1>6, <2>1, <3>1, <3>2 DEF StandsUnder
  <2>7. section' \in Nat /\ paragraph' \in Seq(Char)
    BY <1>2, <2>1
  <2> QED BY <1>2, <1>5, <1>6, <2>1, <2>3, <2>5, <2>6, <2>7 DEF ReadInv
<1>9. CASE l.level = 0 /\ l.text # <<>> /\ TextLine(n, l)
  <2>1. /\ section' = section /\ page' = page /\ blocks' = blocks
        /\ paragraph' = (IF paragraph = <<>> THEN <<>>
                         ELSE Append(paragraph, Separator)) \o CharsOf(n, l)
    BY <1>9 DEF TextLine
  <2>2. PICK s, t, j, b : s = section /\ t = paragraph /\ j = paragraph' /\ b = blocks
    OBVIOUS
  <2>3. PICK list : list = Append(b, Block(s, j))
    OBVIOUS
  <2>4. StandsUnder(n, s)'
    BY <1>1, <1>2, <1>3, <1>9, <2>2, SectionStays
  <2>5. list \in Seq(Blocks) /\ Gathered(list)' /\ OnPages(list)'
    <3>1. /\ t \in Seq(Char) /\ b \in Seq(Blocks) /\ s \in Nat
          /\ Flush = IF t = <<>> THEN b ELSE Append(b, Block(section, t))
          /\ t # <<>> => s = section
          /\ j = (IF t = <<>> THEN <<>> ELSE Append(t, Separator)) \o CharsOf(n, l)
      BY <1>2, <2>1, <2>2 DEF Flush
    <3>2. source' = Append(source, l) /\ l.level <= 1
      BY <1>1, <1>9
    <3> QED BY <1>2, <1>3, <1>9, <2>1, <2>3, <2>4, <3>1, <3>2, LineAdded
  <2>6. paragraph' # <<>> /\ paragraph' \in Seq(Char)
    <3>1. CharsOf(n, l) \in Seq(Char) /\ Len(CharsOf(n, l)) = Len(l.text) /\ Len(l.text) \in Nat \ {0}
      <4>1. l.text \in Seq(Kinds)
        BY LinesAre
      <4> QED BY <1>9, <4>1, CharsAre, LenProperties, EmptySeq
    <3>2. Separator \in Char
      BY DEF Separator, Char, Kinds
    <3> DEFINE start == IF paragraph = <<>> THEN <<>> ELSE Append(paragraph, Separator)
    <3>3. start \in Seq(Char)
      BY <1>2, <3>2, AppendProperties
    <3>4. Len(start) \in Nat /\ paragraph' = start \o CharsOf(n, l)
      BY <2>1, <3>3, LenProperties
    <3> HIDE DEF start
    <3>5. paragraph' \in Seq(Char) /\ Len(paragraph') = Len(start) + Len(CharsOf(n, l))
      BY <3>1, <3>3, <3>4, ConcatProperties
    <3> QED BY <3>1, <3>4, <3>5, EmptySeq
  <2>7. Flush' = list
    BY <2>1, <2>2, <2>3, <2>6 DEF Flush, Block
  <2>8. Gathered(Flush)' /\ OnPages(Flush)'
    BY <2>5, <2>7, Renamed
  <2>9. StandsUnder(Len(source), section)'
    BY <1>6, <2>1, <2>2, <2>4 DEF StandsUnder
  <2> QED BY <1>2, <1>6, <2>1, <2>6, <2>8, <2>9 DEF ReadInv
<1> QED BY <1>1, <1>3, <1>7, <1>8, <1>9

LEMMA ParseStep ==
    ASSUME ReadInv, Parse
    PROVE  ReadInv'
<1>1. /\ UNCHANGED <<media, source, page, section>>
      /\ blocks' = Flush /\ paragraph' = <<>> /\ paragraph' \in Seq(Char)
  BY DEF Parse
<1>2. /\ media \in {"markdown", "text"}
      /\ source \in Seq(Lines) /\ blocks \in Seq(Blocks)
      /\ page \in Nat /\ section \in Nat /\ paragraph \in Seq(Char)
      /\ Gathered(Flush) /\ OnPages(Flush) /\ StandsUnder(Len(source), section)
  BY DEF ReadInv
<1>3. PICK list : list = Flush
  OBVIOUS
<1>4. list \in Seq(Blocks)
  <2>1. Block(section, paragraph) \in Blocks
    BY <1>2 DEF Block, Blocks
  <2> QED BY <1>2, <1>3, <2>1, AppendProperties DEF Flush
<1>5. Gathered(list)' /\ OnPages(list)' /\ StandsUnder(Len(source), section)'
  BY <1>1, <1>2, <1>3 DEF Gathered, OnPages, Written, StandsUnder, Breaks
<1>6. Flush' = list
  BY <1>1, <1>3 DEF Flush
<1>7. Gathered(Flush)' /\ OnPages(Flush)'
  BY <1>5, <1>6, Renamed
<1> QED BY <1>1, <1>2, <1>3, <1>4, <1>5, <1>7 DEF ReadInv

\* The cutting of the text changes nothing that was read.
LEMMA ReadStays ==
    ASSUME ReadInv, UNCHANGED <<media, source, blocks, page, section, paragraph>>
    PROVE  ReadInv'
<1>1. /\ media \in {"markdown", "text"}
      /\ source \in Seq(Lines) /\ blocks \in Seq(Blocks)
      /\ page \in Nat /\ section \in Nat /\ paragraph \in Seq(Char)
      /\ Gathered(Flush) /\ OnPages(Flush) /\ StandsUnder(Len(source), section)
  BY DEF ReadInv
<1>2. PICK list : list = Flush
  OBVIOUS
<1>3. Flush' = list
  BY <1>2 DEF Flush, Block
<1>4. Gathered(list)' /\ OnPages(list)' /\ StandsUnder(Len(source), section)'
  BY <1>1, <1>2 DEF Gathered, OnPages, Written, StandsUnder, Breaks
<1>5. Gathered(Flush)' /\ OnPages(Flush)'
  BY <1>3, <1>4, Renamed
<1> QED BY <1>1, <1>4, <1>5 DEF ReadInv

-----------------------------------------------------------------------------
(* Cutting.                                                                 *)

\* The letters of block b from place n to before place m, and all before n.
Between(b, n, m) == {blocks[b].text[q] : q \in {p \in n .. m - 1 : ~IsBlank(blocks[b].text[p])}}
Up(b, n) == (UNION {Letters(blocks[d].text) : d \in 1 .. b - 1}) \cup Between(b, 1, n)

\* A text may be cut before its place n.
MayCut(b, n) == \/ n = 1 \/ n > Len(blocks[b].text)
                \/ IsBlank(blocks[b].text[n - 1]) \/ IsBlank(blocks[b].text[n])

FollowsOn(x, y) == x.line = y.line /\ y.at = x.at + 1

\* Chunks hold the letters D, each chunk some of a block.
SomeOfBlock(chunk) ==
    /\ Len(chunk.text) \in 1 .. MaxChars
    /\ \E b \in DOMAIN blocks : /\ chunk.page = blocks[b].page
                                /\ chunk.section = blocks[b].section
                                /\ Letters(chunk.text) \subseteq Letters(blocks[b].text)
Undivided(list) ==
    \A c, d \in DOMAIN list : c # d =>
       \A x \in Letters(list[c].text), y \in Letters(list[d].text) :
          FollowsOn(x, y) => LongWordAt(x.line, x.at)
HoldsAll(list, D) ==
    /\ list \in Seq(Blocks) /\ InOrder(list) /\ LettersIn(list) = D
    /\ \A c \in DOMAIN list : SomeOfBlock(list[c])
    /\ Undivided(list)

\* The list with a piece of block b as one more, when there is one.
PieceOf(b, text) == [blocks[b] EXCEPT !.text = text]
Pieces(b, texts) == [k \in DOMAIN texts |-> PieceOf(b, texts[k])]
WithPiece(list, b, piece) == IF piece = <<>> THEN list ELSE Append(list, PieceOf(b, piece))

\* Block b is cut from place n on, the sentence up to e word by word.
EndsAt(b, e) == LET t == blocks[b].text
                IN  e < Len(t) => \/ t[e + 1].kind = "newline"
                                  \/ t[e].kind = "stop" /\ IsBlank(t[e + 1])
Cutting(b, n, e, piece, list) ==
    /\ b \in DOMAIN blocks
    /\ n \in 1 .. Len(blocks[b].text) + 1 /\ e \in 0 .. Len(blocks[b].text)
    /\ e > 0 => n <= e + 1 /\ EndsAt(b, e)
    /\ e = 0 => piece = <<>>
    /\ MayCut(b, n) /\ Letters(piece) \subseteq Letters(blocks[b].text)
    /\ HoldsAll(WithPiece(list, b, piece), Up(b, n))

CutInv ==
    /\ chunks \in Seq(Blocks)
    /\ cut \in [block : Nat, next : Nat, end : Nat, current : Seq(Char)]
    /\ status = "reading" => /\ chunks = <<>>
                             /\ cut = [block |-> 1, next |-> 1, end |-> 0, current |-> <<>>]
    /\ status \in {"splitting", "chunked"} =>
          paragraph = <<>> /\ Cutting(cut.block, cut.next, cut.end, cut.current, chunks)
    /\ status = "chunked" => /\ cut.block = Len(blocks) /\ cut.end = 0
                             /\ NothingUntil(Len(Text))

LEMMA BlocksAre ==
    ASSUME Trimmed, ReadInv, paragraph = <<>>, NEW b \in DOMAIN blocks
    PROVE  /\ blocks \in Seq(Blocks) /\ Len(blocks) \in Nat /\ b \in 1 .. Len(blocks) /\ b \in Nat
           /\ blocks[b] \in Blocks /\ blocks[b].text \in Seq(Char)
           /\ Len(blocks[b].text) \in Nat /\ DOMAIN blocks[b].text = 1 .. Len(blocks[b].text)
           /\ \A q \in DOMAIN blocks[b].text : blocks[b].text[q] \in Char
           /\ Ordered(blocks[b].text) /\ Runs(blocks[b].text) /\ GoesOn(blocks[b].text, source)
           /\ Letters(blocks[b].text) \subseteq Written
<1>1. blocks \in Seq(Blocks) /\ Flush = blocks /\ Gathered(blocks)
  BY DEF ReadInv, Flush
<1>2. /\ Len(blocks) \in Nat /\ b \in 1 .. Len(blocks) /\ b \in Nat
      /\ blocks[b] \in Blocks
  BY <1>1, LenProperties, ElementOfSeq
<1>3. blocks[b].text \in Seq(Char)
  BY <1>2 DEF Blocks
<1>4. /\ Len(blocks[b].text) \in Nat /\ DOMAIN blocks[b].text = 1 .. Len(blocks[b].text)
      /\ \A q \in DOMAIN blocks[b].text : blocks[b].text[q] \in Char
  BY <1>3, LenProperties, ElementOfSeq
<1>5. /\ Ordered(blocks[b].text) /\ Runs(blocks[b].text) /\ GoesOn(blocks[b].text, source)
      /\ LettersIn(blocks) = Written
  BY <1>1 DEF Gathered, InOrder
<1>6. Letters(blocks[b].text) \subseteq Written
  BY <1>5 DEF LettersIn
<1> QED BY <1>1, <1>2, <1>3, <1>4, <1>5, <1>6

\* Two letters in order are two, and the second is not followed by the first.
LEMMA BeforeIs ==
    ASSUME NEW x \in Char, NEW y \in Char, Before(x, y)
    PROVE  x # y /\ ~Before(y, x) /\ ~FollowsOn(y, x)
<1> QED BY DEF Before, FollowsOn, Char

LEMMA UpIs ==
    ASSUME NEW b, NEW n, NEW x
    PROVE  x \in Up(b, n) <=> \/ \E d \in 1 .. b - 1 : x \in Letters(blocks[d].text)
                              \/ x \in Between(b, 1, n)
<1> DEFINE Texts1 == {Letters(blocks[d].text) : d \in 1 .. b - 1}
<1>1. x \in UNION Texts1 <=> \E d \in 1 .. b - 1 : x \in Letters(blocks[d].text)
  OBVIOUS
<1> QED BY <1>1 DEF Up

\* More of a block.
LEMMA UpGrows ==
    ASSUME NEW b, NEW n \in Nat \ {0}, NEW m \in Nat, n <= m
    PROVE  Up(b, m) = Up(b, n) \cup Between(b, n, m)
<1>1. 1 .. m - 1 = (1 .. n - 1) \cup (n .. m - 1)
  OBVIOUS
<1>2. Between(b, 1, m) = Between(b, 1, n) \cup Between(b, n, m)
  BY <1>1 DEF Between
<1>3. \A x : x \in Up(b, m) <=> x \in Up(b, n) \/ x \in Between(b, n, m)
  BY <1>2, UpIs
<1> QED BY <1>3

\* All of a block is all there is before the next one.
LEMMA UpNextBlock ==
    ASSUME Trimmed, ReadInv, paragraph = <<>>, NEW b \in DOMAIN blocks
    PROVE  Up(b + 1, 1) = Up(b, Len(blocks[b].text) + 1)
<1>1. b \in Nat \ {0} /\ DOMAIN blocks[b].text = 1 .. Len(blocks[b].text) /\ Len(blocks[b].text) \in Nat
  BY BlocksAre
<1>2. 1 .. (b + 1) - 1 = (1 .. b - 1) \cup {b} /\ 1 .. 1 - 1 = {}
  BY <1>1
<1>3. Between(b + 1, 1, 1) = {}
  BY <1>2 DEF Between
<1>4. Between(b, 1, Len(blocks[b].text) + 1) = Letters(blocks[b].text)
  <2>1. 1 .. (Len(blocks[b].text) + 1) - 1 = DOMAIN blocks[b].text
    BY <1>1
  <2> QED BY <2>1 DEF Between, Letters
<1>5. \A x : x \in Up(b + 1, 1) <=> x \in Up(b, Len(blocks[b].text) + 1)
  <2>1. ASSUME NEW x
        PROVE  x \in Up(b + 1, 1) <=> \E d \in (1 .. b - 1) \cup {b} : x \in Letters(blocks[d].text)
    BY <1>2, <1>3, UpIs
  <2>2. ASSUME NEW x
        PROVE  x \in Up(b, Len(blocks[b].text) + 1) <=>
                  \E d \in (1 .. b - 1) \cup {b} : x \in Letters(blocks[d].text)
    BY <1>4, UpIs
  <2> QED BY <2>1, <2>2
<1> QED BY <1>5

LEMMA UpToTheEnd ==
    ASSUME Trimmed, ReadInv, paragraph = <<>>, Len(blocks) \in DOMAIN blocks
    PROVE  Up(Len(blocks), Len(blocks[Len(blocks)].text) + 1) = LettersIn(blocks)
<1> DEFINE b == Len(blocks)
<1>1. /\ b \in Nat /\ blocks \in Seq(Blocks) /\ b \in DOMAIN blocks
      /\ Len(blocks[b].text) \in Nat /\ DOMAIN blocks[b].text = 1 .. Len(blocks[b].text)
  BY BlocksAre
<1>2. DOMAIN blocks = 1 .. b
  BY <1>1, LenProperties
<1> HIDE DEF b
<1>3. 1 .. b = (1 .. b - 1) \cup {b}
  BY <1>1, <1>2
<1>4. Between(b, 1, Len(blocks[b].text) + 1) = Letters(blocks[b].text)
  <2>1. 1 .. (Len(blocks[b].text) + 1) - 1 = DOMAIN blocks[b].text
    BY <1>1
  <2> QED BY <2>1 DEF Between, Letters
<1>5. ASSUME NEW x
      PROVE  x \in LettersIn(blocks) <=> \E d \in (1 .. b - 1) \cup {b} : x \in Letters(blocks[d].text)
  BY <1>2, <1>3 DEF LettersIn
<1>6. ASSUME NEW x
      PROVE  x \in Up(b, Len(blocks[b].text) + 1) <=>
                \E d \in (1 .. b - 1) \cup {b} : x \in Letters(blocks[d].text)
  BY <1>4, UpIs
<1> QED BY <1>5, <1>6 DEF b

\* What comes next comes after all before it, and no word is cut by a cut there.
LEMMA UpNext ==
    ASSUME Trimmed, ReadInv, paragraph = <<>>, NEW b \in DOMAIN blocks,
           NEW n \in 1 .. Len(blocks[b].text) + 1, NEW m \in n .. Len(blocks[b].text) + 1,
           NEW x \in Up(b, n), NEW y \in Between(b, n, m)
    PROVE  /\ x \in Char /\ y \in Char /\ Before(x, y)
           /\ MayCut(b, n) => ~FollowsOn(x, y)
<1> DEFINE t == blocks[b].text
<1>1. /\ b \in Nat /\ Len(t) \in Nat /\ DOMAIN t = 1 .. Len(t) /\ Len(blocks) \in Nat
      /\ b \in 1 .. Len(blocks) /\ DOMAIN blocks = 1 .. Len(blocks)
      /\ \A q \in DOMAIN t : t[q] \in Char
      /\ Ordered(t) /\ GoesOn(t, source)
  BY BlocksAre, LenProperties
<1>2. PICK q \in n .. m - 1 : y = t[q] /\ ~IsBlank(t[q])
  BY DEF Between
<1>3. q \in DOMAIN t /\ y \in Char /\ y \in Letters(t) /\ n \in Nat /\ q \in Nat /\ n <= q
  BY <1>1, <1>2 DEF Letters
<1>4. InOrder(blocks)
  BY DEF ReadInv, Flush, Gathered
<1>5. y \in Written
  BY <1>3, BlocksAre
<1> HIDE DEF t
<1>6. ASSUME NEW d \in DOMAIN blocks, x \in Letters(blocks[d].text), d < b
      PROVE  x \in Char /\ Before(x, y) /\ ~FollowsOn(x, y)
  <2> DEFINE u == blocks[d].text
  <2>1. /\ \A p \in DOMAIN u : u[p] \in Char
        /\ GoesOn(u, source) /\ Letters(u) \subseteq Written
    BY BlocksAre
  <2>2. PICK p \in DOMAIN u : x = u[p] /\ ~IsBlank(u[p])
    BY <1>6 DEF Letters
  <2>3. Before(x, y)
    BY <1>3, <1>4, <1>6 DEF InOrder, t
  <2> HIDE DEF u
  <2>4. ASSUME FollowsOn(x, y) PROVE FALSE
    <3>1. /\ y.at \in 1 .. Len(source[y.line].text) /\ y.kind = source[y.line].text[y.at]
          /\ source[y.line] \in Lines
      BY <1>5, WrittenAre DEF ReadInv
    <3>2. Len(source[y.line].text) \in Nat
      BY <3>1, LinesAre, LenProperties
    <3>3. x.at < Len(source[x.line].text) /\ x.at \in Nat
      BY <2>1, <2>2, <2>4, <3>1, <3>2 DEF FollowsOn, Char
    <3>4. p + 1 \in DOMAIN u /\ u[p + 1] = [line |-> x.line, at |-> x.at + 1,
                                            kind |-> source[x.line].text[x.at + 1]]
      BY <2>1, <2>2, <3>3 DEF GoesOn
    <3>5. y = [line |-> y.line, at |-> y.at, kind |-> y.kind]
      BY <1>3 DEF Char
    <3>6. u[p + 1] = y
      BY <2>4, <3>1, <3>4, <3>5 DEF FollowsOn
    <3>7. y \in Letters(u)
      BY <1>2, <3>4, <3>6 DEF Letters
    <3>8. Before(y, y)
      BY <1>3, <1>4, <1>6, <3>7 DEF InOrder, t, u
    <3> QED BY <1>3, <3>8, BeforeIs
  <2> QED BY <2>1, <2>2, <2>3, <2>4
<1>7. ASSUME NEW p \in 1 .. n - 1, x = t[p], ~IsBlank(t[p])
      PROVE  x \in Char /\ Before(x, y) /\ (MayCut(b, n) => ~FollowsOn(x, y))
  <2>1. p \in DOMAIN t /\ p \in Nat /\ p < n /\ x \in Char
    BY <1>1, <1>3, <1>7
  <2>2. Before(x, y)
    BY <1>1, <1>2, <1>3, <1>7, <2>1 DEF Ordered
  <2>3. ASSUME FollowsOn(x, y), MayCut(b, n) PROVE FALSE
    <3>1. /\ y.at \in 1 .. Len(source[y.line].text) /\ y.kind = source[y.line].text[y.at]
          /\ source[y.line] \in Lines
      BY <1>5, WrittenAre DEF ReadInv
    <3>2. Len(source[y.line].text) \in Nat
      BY <3>1, LinesAre, LenProperties
    <3>3. x.at < Len(source[x.line].text) /\ x.at \in Nat
      BY <2>1, <2>3, <3>1, <3>2 DEF FollowsOn, Char
    <3>4. p + 1 \in DOMAIN t /\ t[p + 1] = [line |-> x.line, at |-> x.at + 1,
                                            kind |-> source[x.line].text[x.at + 1]]
      BY <1>1, <1>7, <2>1, <3>3 DEF GoesOn
    <3>5. y = [line |-> y.line, at |-> y.at, kind |-> y.kind]
      BY <1>3 DEF Char
    <3>6. t[p + 1] = y
      BY <2>3, <3>1, <3>4, <3>5 DEF FollowsOn
    <3>7. p + 1 = q
      <4>1. ASSUME p + 1 < q PROVE FALSE
        <5>1. Before(y, y)
          BY <1>1, <1>2, <1>3, <3>4, <3>6, <4>1 DEF Ordered
        <5> QED BY <1>3, <5>1, BeforeIs
      <4> QED BY <1>3, <2>1, <4>1
    <3>8. n = q /\ p = n - 1 /\ n # 1 /\ ~(n > Len(t))
      BY <1>1, <1>3, <2>1, <3>7
    <3>9. IsBlank(t[n - 1]) \/ IsBlank(t[n])
      BY <2>3, <3>8 DEF MayCut, t
    <3> QED BY <1>2, <1>7, <3>8, <3>9
  <2> QED BY <2>1, <2>2, <2>3
<1>8. CASE x \in Between(b, 1, n)
  <2>1. PICK p \in 1 .. n - 1 : x = t[p] /\ ~IsBlank(t[p])
    BY <1>8 DEF Between, t
  <2> QED BY <1>3, <1>7, <2>1
<1>9. ASSUME NEW d \in 1 .. b - 1, x \in Letters(blocks[d].text)
      PROVE  x \in Char /\ Before(x, y) /\ ~FollowsOn(x, y)
  <2>1. d \in DOMAIN blocks /\ d < b
    BY <1>1
  <2> QED BY <1>6, <1>9, <2>1
<1> QED BY <1>3, <1>8, <1>9, UpIs

\* A piece of a block is one of its chunks.
LEMMA PieceIs ==
    ASSUME Trimmed, ReadInv, paragraph = <<>>, NEW b \in DOMAIN blocks, NEW w \in Seq(Char)
    PROVE  /\ PieceOf(b, w) \in Blocks /\ PieceOf(b, w).text = w
           /\ Len(w) \in 1 .. MaxChars /\ Letters(w) \subseteq Letters(blocks[b].text)
              => SomeOfBlock(PieceOf(b, w))
<1>1. blocks[b] \in Blocks
  BY BlocksAre
<1>2. /\ PieceOf(b, w) = [page |-> blocks[b].page, section |-> blocks[b].section, text |-> w]
  BY <1>1 DEF PieceOf, Blocks
<1>3. PieceOf(b, w) \in Blocks
  BY <1>1, <1>2 DEF Blocks
<1> QED BY <1>2, <1>3 DEF SomeOfBlock

LEMMA BetweenIs ==
    ASSUME Trimmed, ReadInv, paragraph = <<>>, NEW b \in DOMAIN blocks,
           NEW n \in 1 .. Len(blocks[b].text) + 1, NEW m \in n .. Len(blocks[b].text) + 1
    PROVE  /\ Between(b, n, m) \subseteq Letters(blocks[b].text)
           /\ Up(b, m) = Up(b, n) \cup Between(b, n, m)
<1>1. DOMAIN blocks[b].text = 1 .. Len(blocks[b].text) /\ Len(blocks[b].text) \in Nat
  BY BlocksAre
<1>2. \A q \in n .. m - 1 : q \in DOMAIN blocks[b].text
  BY <1>1
<1>3. Between(b, n, m) \subseteq Letters(blocks[b].text)
  BY <1>2 DEF Between, Letters
<1>4. n \in Nat \ {0} /\ m \in Nat /\ n <= m
  BY <1>1
<1> QED BY <1>3, <1>4, UpGrows

\* The next letters of a block are put into pieces of their own.
LEMMA PiecesAdded ==
    ASSUME Trimmed, ReadInv, paragraph = <<>>, NEW b \in DOMAIN blocks,
           NEW n \in 1 .. Len(blocks[b].text) + 1, NEW m \in n .. Len(blocks[b].text) + 1,
           MayCut(b, n), NEW L, HoldsAll(L, Up(b, n)), NEW M, HoldsAll(M, Between(b, n, m))
    PROVE  HoldsAll(L \o M, Up(b, m))
<1> DEFINE N == L \o M
<1>1. L \in Seq(Blocks) /\ M \in Seq(Blocks)
  BY DEF HoldsAll
<1>2. /\ N \in Seq(Blocks) /\ Len(L) \in Nat
      /\ \A c \in DOMAIN N : \/ c \in DOMAIN L /\ N[c] = L[c]
                             \/ c > Len(L) /\ c - Len(L) \in DOMAIN M /\ N[c] = M[c - Len(L)]
      /\ DOMAIN L \subseteq Nat /\ DOMAIN M \subseteq Nat /\ DOMAIN N \subseteq Nat
  <2>1. N \in Seq(Blocks)
    BY <1>1, ConcatProperties
  <2>2. \A c \in DOMAIN N : \/ c \in DOMAIN L /\ N[c] = L[c]
                            \/ c > Len(L) /\ c - Len(L) \in DOMAIN M /\ N[c] = M[c - Len(L)]
    BY <1>1, PlacesOfConcat
  <2> HIDE DEF N
  <2>3. /\ Len(L) \in Nat /\ DOMAIN L = 1 .. Len(L)
        /\ DOMAIN M = 1 .. Len(M) /\ DOMAIN N = 1 .. Len(N)
    BY <1>1, <2>1, LenProperties
  <2> QED BY <2>1, <2>2, <2>3
<1>3. /\ \A x \in LettersIn(L), y \in LettersIn(M) : Before(x, y) /\ ~FollowsOn(x, y) /\ ~FollowsOn(y, x)
  <2>1. LettersIn(L) = Up(b, n) /\ LettersIn(M) = Between(b, n, m)
    BY DEF HoldsAll
  <2>2. ASSUME NEW x \in Up(b, n), NEW y \in Between(b, n, m)
        PROVE  Before(x, y) /\ ~FollowsOn(x, y) /\ ~FollowsOn(y, x)
    <3>1. x \in Char /\ y \in Char /\ Before(x, y) /\ ~FollowsOn(x, y)
      BY UpNext
    <3> QED BY <3>1, BeforeIs
  <2> QED BY <2>1, <2>2
<1>4. InOrder(N) /\ LettersIn(N) = LettersIn(L) \cup LettersIn(M)
  <2>1. InOrder(L) /\ InOrder(M)
    BY DEF HoldsAll
  <2> QED BY <1>1, <1>3, <2>1, ListOfConcat
<1> HIDE DEF N
<1>5. LettersIn(N) = Up(b, m)
  BY <1>4, BetweenIs DEF HoldsAll
<1>6. \A c \in DOMAIN N : SomeOfBlock(N[c])
  BY <1>2 DEF HoldsAll
<1>7. ASSUME NEW c \in DOMAIN N, NEW d \in DOMAIN N, c # d,
             NEW x \in Letters(N[c].text), NEW y \in Letters(N[d].text), FollowsOn(x, y)
      PROVE  LongWordAt(x.line, x.at)
  <2>1. CASE c \in DOMAIN L /\ N[c] = L[c]
    <3>1. x \in LettersIn(L)
      BY <1>7, <2>1 DEF LettersIn
    <3>2. CASE d \in DOMAIN L /\ N[d] = L[d]
      BY <1>7, <2>1, <3>2 DEF HoldsAll, Undivided
    <3>3. CASE d - Len(L) \in DOMAIN M /\ N[d] = M[d - Len(L)]
      <4>1. y \in LettersIn(M)
        BY <1>7, <3>3 DEF LettersIn
      <4> QED BY <1>3, <1>7, <3>1, <4>1
    <3> QED BY <1>2, <3>2, <3>3
  <2>2. CASE c > Len(L) /\ c - Len(L) \in DOMAIN M /\ N[c] = M[c - Len(L)]
    <3>1. x \in LettersIn(M)
      BY <1>7, <2>2 DEF LettersIn
    <3>2. CASE d \in DOMAIN L /\ N[d] = L[d]
      <4>1. y \in LettersIn(L)
        BY <1>7, <3>2 DEF LettersIn
      <4> QED BY <1>3, <1>7, <3>1, <4>1
    <3>3. CASE d > Len(L) /\ d - Len(L) \in DOMAIN M /\ N[d] = M[d - Len(L)]
      <4>1. c - Len(L) # d - Len(L)
        BY <1>2, <1>7
      <4> QED BY <1>7, <2>2, <3>3, <4>1 DEF HoldsAll, Undivided
    <3> QED BY <1>2, <3>2, <3>3
  <2> QED BY <1>2, <2>1, <2>2
<1>8. Undivided(N)
  BY <1>7 DEF Undivided
<1> QED BY <1>2, <1>4, <1>5, <1>6, <1>8 DEF HoldsAll, N

\* One piece.
LEMMA PieceHolds ==
    ASSUME Trimmed, ReadInv, paragraph = <<>>, NEW b \in DOMAIN blocks,
           NEW w \in Seq(Char), Ordered(w), Len(w) \in 1 .. MaxChars,
           Letters(w) \subseteq Letters(blocks[b].text)
    PROVE  HoldsAll(<<PieceOf(b, w)>>, Letters(w))
<1> DEFINE p == PieceOf(b, w)
<1>1. p \in Blocks /\ p.text = w /\ SomeOfBlock(p)
  BY PieceIs
<1> HIDE DEF p
<1>2. DOMAIN <<p>> = {1} /\ <<p>>[1] = p
  OBVIOUS
<1>3. <<p>> \in Seq(Blocks) /\ LettersIn(<<p>>) = Letters(w) /\ InOrder(<<p>>)
  BY <1>1, ListOfOne
<1>4. Undivided(<<p>>)
  BY <1>2 DEF Undivided
<1> QED BY <1>1, <1>2, <1>3, <1>4 DEF HoldsAll, p

LEMMA PieceAdded ==
    ASSUME Trimmed, ReadInv, paragraph = <<>>, NEW b \in DOMAIN blocks,
           NEW n \in 1 .. Len(blocks[b].text) + 1, NEW m \in n .. Len(blocks[b].text) + 1,
           MayCut(b, n), NEW L, HoldsAll(L, Up(b, n)),
           NEW w \in Seq(Char), Ordered(w), Len(w) \in 1 .. MaxChars,
           Letters(w) = Between(b, n, m)
    PROVE  HoldsAll(Append(L, PieceOf(b, w)), Up(b, m))
<1>1. HoldsAll(<<PieceOf(b, w)>>, Between(b, n, m))
  BY PieceHolds, BetweenIs
<1>2. PICK M : M = <<PieceOf(b, w)>>
  OBVIOUS
<1>3. HoldsAll(L \o M, Up(b, m))
  BY <1>1, <1>2, PiecesAdded
<1>4. Append(L, PieceOf(b, w)) = L \o <<PieceOf(b, w)>>
  BY PieceIs, AppendIsConcat DEF HoldsAll
<1> QED BY <1>2, <1>3, <1>4

\* The current piece goes on with the next letters of its block.
LEMMA PieceExtended ==
    ASSUME Trimmed, ReadInv, paragraph = <<>>, NEW b \in DOMAIN blocks,
           NEW n \in 1 .. Len(blocks[b].text) + 1, NEW m \in n .. Len(blocks[b].text) + 1,
           MayCut(b, n), NEW K \in Seq(Blocks),
           NEW t \in Seq(Char), Letters(t) \subseteq Letters(blocks[b].text),
           HoldsAll(Append(K, PieceOf(b, t)), Up(b, n)),
           NEW w \in Seq(Char), Ordered(w), Letters(w) = Between(b, n, m),
           Len(t) + 1 + Len(w) \in 1 .. MaxChars
    PROVE  HoldsAll(Append(K, PieceOf(b, Append(t, Space) \o w)), Up(b, m))
<1> DEFINE j == Append(t, Space) \o w
           old == PieceOf(b, t)
           L == Append(K, old)
<1>1. old \in Blocks /\ old.text = t
  BY PieceIs
<1>2. Space \in Char /\ IsBlank(Space)
  BY DEF Space, Char, Kinds, IsBlank
<1>3. /\ j \in Seq(Char) /\ Len(j) = Len(t) + 1 + Len(w)
      /\ Letters(j) = Letters(t) \cup Letters(w)
      /\ /\ Ordered(t) /\ Ordered(w)
         /\ \A x \in Letters(t), y \in Letters(w) : Before(x, y)
         => Ordered(j)
  BY <1>2, JoinedTexts
<1> HIDE DEF j
<1> DEFINE new == PieceOf(b, j)
           N == Append(K, new)
<1>4. /\ Letters(w) \subseteq Letters(blocks[b].text)
      /\ Up(b, m) = Up(b, n) \cup Letters(w)
  BY BetweenIs
<1>5. new \in Blocks /\ new.text = j /\ SomeOfBlock(new)
  BY <1>3, <1>4, PieceIs
<1> HIDE DEF old, new
<1>6. /\ LettersIn(L) = LettersIn(K) \cup Letters(t)
      /\ InOrder(L) <=> /\ InOrder(K) /\ Ordered(t)
                        /\ \A x \in LettersIn(K), y \in Letters(t) : Before(x, y)
      /\ \A c \in DOMAIN K : c \in DOMAIN L /\ L[c] = K[c] /\ c < Len(L)
      /\ Len(L) \in DOMAIN L /\ L[Len(L)] = old /\ Len(L) = Len(K) + 1
  BY <1>1, ListOfAppend, PlacesOfAppend
<1>7. /\ N \in Seq(Blocks) /\ LettersIn(N) = LettersIn(K) \cup Letters(j)
      /\ InOrder(N) <=> /\ InOrder(K) /\ Ordered(j)
                        /\ \A x \in LettersIn(K), y \in Letters(j) : Before(x, y)
      /\ \A c \in DOMAIN N : (c \in DOMAIN K /\ N[c] = K[c]) \/ (c = Len(N) /\ N[c] = new)
      /\ Len(N) = Len(K) + 1
  BY <1>5, ListOfAppend, PlacesOfAppend
<1>8. /\ InOrder(L) /\ LettersIn(L) = Up(b, n)
      /\ \A c \in DOMAIN L : SomeOfBlock(L[c])
      /\ Undivided(L)
  BY DEF HoldsAll, old
<1> HIDE DEF L, N
<1>9. ASSUME NEW x \in LettersIn(L), NEW y \in Letters(w)
      PROVE  Before(x, y) /\ ~FollowsOn(x, y) /\ ~FollowsOn(y, x)
  <2>1. x \in Char /\ y \in Char /\ Before(x, y) /\ ~FollowsOn(x, y)
    BY <1>8, UpNext
  <2> QED BY <2>1, BeforeIs
<1>10. InOrder(N)
  <2>1. Ordered(j)
    BY <1>3, <1>6, <1>8, <1>9
  <2>2. \A x \in LettersIn(K), y \in Letters(j) : Before(x, y)
    BY <1>3, <1>6, <1>8, <1>9
  <2> QED BY <1>6, <1>7, <1>8, <2>1, <2>2
<1>11. LettersIn(N) = Up(b, m)
  BY <1>3, <1>4, <1>6, <1>7, <1>8
<1>12. \A c \in DOMAIN N : SomeOfBlock(N[c])
  BY <1>5, <1>6, <1>7, <1>8
\* A letter of the new list is of the word, or was there at the same place.
<1>13. ASSUME NEW c \in DOMAIN N, NEW x \in Letters(N[c].text)
       PROVE  \/ c \in DOMAIN L /\ x \in Letters(L[c].text)
              \/ c = Len(N) /\ x \in Letters(w)
  <2>1. CASE c \in DOMAIN K /\ N[c] = K[c]
    BY <1>6, <1>13, <2>1
  <2>2. CASE c = Len(N) /\ N[c] = new
    <3>1. x \in Letters(t) \cup Letters(w) /\ Len(N) = Len(L)
      BY <1>3, <1>5, <1>6, <1>7, <1>13, <2>2
    <3> QED BY <1>1, <1>6, <2>2, <3>1
  <2> QED BY <1>7, <2>1, <2>2
<1>14. ASSUME NEW c \in DOMAIN N, NEW d \in DOMAIN N, c # d,
              NEW x \in Letters(N[c].text), NEW y \in Letters(N[d].text), FollowsOn(x, y)
       PROVE  LongWordAt(x.line, x.at)
  <2>1. CASE c \in DOMAIN L /\ x \in Letters(L[c].text)
    <3>1. CASE d \in DOMAIN L /\ y \in Letters(L[d].text)
      BY <1>8, <1>14, <2>1, <3>1 DEF Undivided
    <3>2. CASE y \in Letters(w)
      <4>1. x \in LettersIn(L)
        BY <2>1 DEF LettersIn
      <4> QED BY <1>9, <1>14, <3>2, <4>1
    <3> QED BY <1>13, <3>1, <3>2
  <2>2. CASE c = Len(N) /\ x \in Letters(w)
    <3>1. d \in DOMAIN L /\ y \in Letters(L[d].text)
      BY <1>13, <1>14, <2>2
    <3>2. y \in LettersIn(L)
      BY <3>1 DEF LettersIn
    <3> QED BY <1>9, <1>14, <2>2, <3>2
  <2> QED BY <1>13, <2>1, <2>2
<1>15. Undivided(N)
  BY <1>14 DEF Undivided
<1> QED BY <1>7, <1>10, <1>11, <1>12, <1>15 DEF HoldsAll, N, new, j

\* Multiples of a number, and the least one that is not below another number.
LEMMA Multiples ==
    ASSUME NEW M \in Nat \ {0}
    PROVE  /\ \A k \in Nat : k * M \in Nat /\ (k + 1) * M = k * M + M
           /\ \A j, k \in Nat : j <= k => j * M <= k * M
           /\ \A x \in Nat \ {0} : /\ (x + M - 1) \div M \in Nat \ {0}
                                   /\ ((x + M - 1) \div M) * M >= x
                                   /\ ((x + M - 1) \div M - 1) * M < x
<1>1. ASSUME NEW k \in Nat PROVE k * M \in Nat /\ (k + 1) * M = k * M + M
  OBVIOUS
<1>2. ASSUME NEW j \in Nat, NEW k \in Nat, j <= k PROVE j * M <= k * M
  BY <1>2
<1>3. ASSUME NEW x \in Nat \ {0}, NEW q, q = (x + M - 1) \div M
      PROVE  q \in Nat \ {0} /\ q * M >= x /\ (q - 1) * M < x
  <2>1. q \in Nat /\ q * M >= x /\ (q - 1) * M < x
    BY <1>3
  <2>2. q # 0
    BY <2>1
  <2> QED BY <2>1, <2>2
<1> QED BY <1>1, <1>2, <1>3

\* The parts of a text, from First(k) to Last(k).
First(k) == (k - 1) * MaxChars + 1
Last(w, k) == IF k * MaxChars < Len(w) THEN k * MaxChars ELSE Len(w)

LEMMA PartsAre ==
    ASSUME Trimmed, NEW w \in Seq(Char), w # <<>>
    PROVE  /\ Parts(w) \in Seq(Seq(Char)) /\ DOMAIN Parts(w) \subseteq Nat
           /\ \A k \in DOMAIN Parts(w) : /\ First(k) \in 1 .. Len(w)
                                         /\ Last(w, k) \in First(k) .. Len(w)
                                         /\ Last(w, k) - First(k) + 1 <= MaxChars
                                         /\ Parts(w)[k] = SubSeq(w, First(k), Last(w, k))
           /\ \A k, j \in DOMAIN Parts(w) : k < j => Last(w, k) < First(j)
           /\ \A p \in 1 .. Len(w) : \E k \in DOMAIN Parts(w) : p \in First(k) .. Last(w, k)
<1> DEFINE K == (Len(w) + MaxChars - 1) \div MaxChars
<1>1. MaxChars \in Nat \ {0} /\ Len(w) \in Nat \ {0}
  BY EmptySeq DEF Trimmed
<1>2. K \in Nat \ {0} /\ K * MaxChars >= Len(w) /\ (K - 1) * MaxChars < Len(w)
  BY <1>1, Multiples
<1>3. Parts(w) = [k \in 1 .. K |-> SubSeq(w, First(k), Last(w, k))]
  BY DEF Parts, First, Last
<1> HIDE DEF K
<1>4. DOMAIN Parts(w) = 1 .. K
  BY <1>3
<1>5. ASSUME NEW k \in 1 .. K
      PROVE  /\ First(k) \in 1 .. Len(w) /\ Last(w, k) \in First(k) .. Len(w)
             /\ Last(w, k) - First(k) + 1 <= MaxChars
             /\ k * MaxChars \in Nat /\ Last(w, k) <= k * MaxChars
  <2>1. k \in Nat /\ k - 1 \in Nat /\ K - 1 \in Nat /\ k - 1 <= K - 1
    BY <1>2
  <2>2. /\ (k - 1) * MaxChars \in Nat /\ (k - 1) * MaxChars <= (K - 1) * MaxChars
        /\ (K - 1) * MaxChars \in Nat
    BY <1>1, <2>1, Multiples
  <2>3. k * MaxChars \in Nat /\ k * MaxChars = (k - 1) * MaxChars + MaxChars
    <3>1. ((k - 1) + 1) * MaxChars = (k - 1) * MaxChars + MaxChars
      BY <1>1, <2>1, Multiples
    <3>2. (k - 1) + 1 = k
      BY <2>1
    <3> QED BY <1>1, <2>2, <3>1, <3>2
  <2> QED BY <1>1, <1>2, <2>2, <2>3 DEF First, Last
<1>6. Parts(w) \in Seq(Seq(Char))
  <2>1. ASSUME NEW k \in 1 .. K PROVE SubSeq(w, First(k), Last(w, k)) \in Seq(Char)
    BY <1>5, PlacesOfSubSeq
  <2>2. Parts(w) \in [1 .. K -> Seq(Char)]
    BY <1>3, <2>1
  <2> QED BY <1>2, <2>2, IsASeq
<1>7. ASSUME NEW k \in 1 .. K, NEW j \in 1 .. K, k < j
      PROVE  Last(w, k) < First(j)
  <2>1. k \in Nat /\ j - 1 \in Nat /\ k <= j - 1
    BY <1>2, <1>7
  <2>2. k * MaxChars <= (j - 1) * MaxChars /\ (j - 1) * MaxChars \in Nat
    BY <1>1, <2>1, Multiples
  <2>3. Last(w, k) \in Nat
    BY <1>1, <1>5
  <2> QED BY <1>5, <2>2, <2>3 DEF First
<1>8. ASSUME NEW p \in 1 .. Len(w)
      PROVE  \E k \in 1 .. K : p \in First(k) .. Last(w, k)
  <2> DEFINE k == (p + MaxChars - 1) \div MaxChars
  <2>1. k \in Nat \ {0} /\ k * MaxChars >= p /\ (k - 1) * MaxChars < p
    <3>1. p \in Nat \ {0}
      BY <1>1
    <3> QED BY <1>1, <3>1, Multiples
  <2> HIDE DEF k
  <2>2. k <= K
    <3>1. SUFFICES ASSUME K <= k - 1 PROVE FALSE
      BY <1>2, <2>1
    <3>2. K * MaxChars <= (k - 1) * MaxChars
      BY <1>1, <1>2, <2>1, <3>1, Multiples
    <3>3. K * MaxChars \in Nat /\ (k - 1) * MaxChars \in Nat
      BY <1>1, <1>2, <2>1, Multiples
    <3> QED BY <1>1, <1>2, <2>1, <3>2, <3>3
  <2>3. k \in 1 .. K
    BY <1>2, <2>1, <2>2
  <2>4. k * MaxChars \in Nat /\ (k - 1) * MaxChars \in Nat
    BY <1>1, <2>1, Multiples
  <2>5. p \in First(k) .. Last(w, k)
    BY <1>1, <2>1, <2>4 DEF First, Last
  <2> QED BY <2>3, <2>5
<1>9. DOMAIN Parts(w) \subseteq Nat
  BY <1>2, <1>4
<1> QED BY <1>3, <1>4, <1>5, <1>6, <1>7, <1>8, <1>9

\* A word of a block longer than a chunk is one of the source.
LEMMA LongWord ==
    ASSUME Trimmed, ReadInv, paragraph = <<>>, NEW b \in DOMAIN blocks,
           NEW s \in 1 .. Len(blocks[b].text), NEW e \in s .. Len(blocks[b].text),
           \A q \in s .. e : ~IsBlank(blocks[b].text[q]), e - s + 1 > MaxChars,
           NEW x \in Between(b, s, e + 1), NEW y \in Between(b, s, e + 1), FollowsOn(x, y)
    PROVE  LongWordAt(x.line, x.at)
<1> DEFINE t == blocks[b].text
<1>1. /\ Len(t) \in Nat /\ DOMAIN t = 1 .. Len(t) /\ Runs(t) /\ Letters(t) \subseteq Written
      /\ \A q \in DOMAIN t : t[q] \in Char
  BY BlocksAre
<1>2. /\ s \in Nat \ {0} /\ e \in Nat /\ s <= e /\ e <= Len(t) /\ MaxChars \in Nat
  BY <1>1 DEF Trimmed
<1>3. s .. (e + 1) - 1 = s .. e
  BY <1>2
<1>4. PICK p \in s .. e : x = t[p]
  BY <1>3 DEF Between
<1>5. PICK r \in s .. e : y = t[r]
  BY <1>3 DEF Between
<1> HIDE DEF t
<1>6. ASSUME NEW q \in s .. e
      PROVE  /\ q \in DOMAIN t /\ ~IsBlank(t[q]) /\ t[q] \in Written
             /\ t[q].line = t[s].line /\ t[q].at = t[s].at + (q - s)
  <2>1. q \in DOMAIN t /\ s \in DOMAIN t /\ q \in Nat /\ s <= q
    BY <1>1, <1>2
  <2>2. \A m \in s .. q : m \in s .. e
    BY <1>2
  <2>3. \A m \in s .. q : ~IsBlank(t[m])
    BY <2>2 DEF t
  <2>4. t[q].line = t[s].line /\ t[q].at = t[s].at + (q - s)
    BY <1>1, <2>1, <2>3 DEF Runs
  <2>5. ~IsBlank(t[q]) /\ t[q] \in Written
    BY <1>1, <2>1 DEF Letters, t
  <2> QED BY <2>1, <2>4, <2>5
<1> DEFINE i == x.line
           l == source[i].text
           z == t[s].at
<1>7. ASSUME NEW q \in s .. e
      PROVE  /\ t[q].line = i /\ t[q].at = z + (q - s) /\ t[q].at \in 1 .. Len(l)
             /\ l[t[q].at] # "space"
  <2>1. t[q].line = i /\ t[q].at = z + (q - s)
    BY <1>4, <1>6
  <2>2. t[q].at \in 1 .. Len(source[t[q].line].text) /\ source[t[q].line].text[t[q].at] # "space"
    BY <1>6, WrittenAre DEF ReadInv
  <2> QED BY <2>1, <2>2
<1>8. z \in Nat /\ Len(l) \in Nat
  <2>1. s \in s .. e /\ s \in DOMAIN t
    BY <1>1, <1>2
  <2>2. z \in Nat
    BY <1>1, <2>1 DEF Char
  <2>3. source[t[s].line] \in Lines /\ t[s].line = i
    BY <1>6, <1>7, <2>1, WrittenAre DEF ReadInv
  <2> QED BY <2>2, <2>3, LinesAre, LenProperties
<1> HIDE DEF i, l, z
<1>9. x.at = z + (p - s) /\ y.at = z + (r - s) /\ y.at = x.at + 1
  BY <1>4, <1>5, <1>7 DEF FollowsOn
<1>10. z \in 1 .. x.at /\ z + (e - s) \in x.at + 1 .. Len(l)
  <2>1. s \in s .. e /\ e \in s .. e
    BY <1>2
  <2>2. z + (s - s) \in 1 .. Len(l) /\ z + (e - s) \in 1 .. Len(l)
    BY <1>7, <2>1
  <2> QED BY <1>2, <1>8, <1>9, <2>2
<1>11. (z + (e - s)) - z >= MaxChars
  BY <1>2, <1>8
<1>12. ASSUME NEW q \in z .. z + (e - s) PROVE l[q] # "space"
  <2>1. s + (q - z) \in s .. e /\ z + ((s + (q - z)) - s) = q
    BY <1>2, <1>8
  <2> QED BY <1>7, <2>1
<1> QED BY <1>10, <1>11, <1>12 DEF LongWordAt, i, l

LEMMA PartsHold ==
    ASSUME Trimmed, ReadInv, paragraph = <<>>, NEW b \in DOMAIN blocks,
           NEW s \in 1 .. Len(blocks[b].text), NEW e \in s .. Len(blocks[b].text),
           \A q \in s .. e : ~IsBlank(blocks[b].text[q]), e - s + 1 > MaxChars,
           NEW w, w = SubSeq(blocks[b].text, s, e),
           NEW M, M = Pieces(b, Parts(w))
    PROVE  HoldsAll(M, Between(b, s, e + 1))
<1> DEFINE t == blocks[b].text
<1>1. t \in Seq(Char) /\ Len(t) \in Nat /\ Ordered(t) /\ DOMAIN t = 1 .. Len(t)
  BY BlocksAre
<1>2. s \in Nat \ {0} /\ e \in Nat /\ s <= e /\ e <= Len(t) /\ s .. (e + 1) - 1 = s .. e
  BY <1>1
<1>3. /\ w \in Seq(Char) /\ Len(w) = e - s + 1 /\ Ordered(w)
      /\ Letters(w) = {t[q] : q \in {p \in s .. e : ~IsBlank(t[p])}}
  <2>1. w \in Seq(Char) /\ Len(w) = e - s + 1
    BY <1>1, PlacesOfSubSeq
  <2>2. /\ Ordered(SubSeq(t, s, e))
        /\ Letters(SubSeq(t, s, e)) = {t[q] : q \in {p \in s .. e : ~IsBlank(t[p])}}
    BY <1>1, OrderOfSubSeq
  <2> QED BY <2>1, <2>2
<1>4. Letters(w) = Between(b, s, e + 1)
  BY <1>2, <1>3 DEF Between
<1>5. Letters(w) \subseteq Letters(t)
  <2>1. e + 1 \in s .. Len(t) + 1 /\ s \in 1 .. Len(t) + 1
    BY <1>2
  <2> QED BY <1>4, <2>1, BetweenIs
<1>6. w # <<>> /\ DOMAIN w = 1 .. Len(w) /\ Len(w) \in Nat
  <2>1. Len(w) # 0
    BY <1>2, <1>3
  <2>2. w = <<>> => Len(w) = 0
    BY EmptySeq
  <2> QED BY <1>3, <2>1, <2>2, LenProperties
<1>7. /\ Parts(w) \in Seq(Seq(Char)) /\ DOMAIN Parts(w) \subseteq Nat
      /\ \A k \in DOMAIN Parts(w) : /\ First(k) \in 1 .. Len(w)
                                    /\ Last(w, k) \in First(k) .. Len(w)
                                    /\ Last(w, k) - First(k) + 1 <= MaxChars
                                    /\ Parts(w)[k] = SubSeq(w, First(k), Last(w, k))
      /\ \A k, j \in DOMAIN Parts(w) : k < j => Last(w, k) < First(j)
      /\ \A p \in 1 .. Len(w) : \E k \in DOMAIN Parts(w) : p \in First(k) .. Last(w, k)
  BY <1>3, <1>6, PartsAre
<1> DEFINE In(k) == {w[q] : q \in {p \in First(k) .. Last(w, k) : ~IsBlank(w[p])}}
<1>8. ASSUME NEW k \in DOMAIN Parts(w)
      PROVE  /\ Parts(w)[k] \in Seq(Char) /\ Ordered(Parts(w)[k])
             /\ Len(Parts(w)[k]) \in 1 .. MaxChars
             /\ Letters(Parts(w)[k]) = In(k) /\ In(k) \subseteq Letters(w)
  <2>1. PICK a, z : a = First(k) /\ z = Last(w, k)
    OBVIOUS
  <2>2. /\ a \in 1 .. Len(w) /\ z \in a .. Len(w) /\ z - a + 1 <= MaxChars
        /\ Parts(w)[k] = SubSeq(w, a, z)
    BY <1>7, <2>1
  <2>3. Parts(w)[k] \in Seq(Char) /\ Len(Parts(w)[k]) = z - a + 1
    BY <1>3, <2>2, PlacesOfSubSeq
  <2>4. /\ Ordered(Parts(w)[k])
        /\ Letters(Parts(w)[k]) = {w[q] : q \in {p \in a .. z : ~IsBlank(w[p])}}
    BY <1>3, <2>2, OrderOfSubSeq
  <2>5. z - a + 1 \in 1 .. MaxChars
    BY <1>6, <2>2 DEF Trimmed
  <2>6. In(k) \subseteq Letters(w)
    <3>1. a \in Nat /\ z \in Nat /\ 1 <= a /\ z <= Len(w)
      BY <1>6, <2>2
    <3>2. a .. z \subseteq DOMAIN w
      BY <1>6, <3>1
    <3> QED BY <2>1, <3>2 DEF Letters
  <2> QED BY <2>1, <2>3, <2>4, <2>5, <2>6
<1> HIDE DEF t, In
<1>9. DOMAIN M = DOMAIN Parts(w)
  BY DEF Pieces
<1>10. ASSUME NEW k \in DOMAIN M
       PROVE  /\ M[k] \in Blocks /\ M[k].text = Parts(w)[k]
              /\ SomeOfBlock(M[k])
  <2>1. k \in DOMAIN Parts(w) /\ M[k] = PieceOf(b, Parts(w)[k])
    BY <1>9 DEF Pieces
  <2>2. Letters(Parts(w)[k]) \subseteq Letters(blocks[b].text)
    BY <1>5, <1>8, <2>1 DEF t
  <2> QED BY <1>8, <2>1, <2>2, PieceIs
<1>11. M \in Seq(Blocks)
  <2>1. DOMAIN Parts(w) = 1 .. Len(Parts(w)) /\ Len(Parts(w)) \in Nat
    BY <1>7, LenProperties
  <2>2. M \in [1 .. Len(Parts(w)) -> Blocks]
    BY <1>9, <1>10, <2>1 DEF Pieces
  <2> QED BY <2>1, <2>2, IsASeq
<1>12. InOrder(M)
  <2>1. ASSUME NEW c \in DOMAIN M, NEW d \in DOMAIN M, c < d,
               NEW x \in Letters(M[c].text), NEW y \in Letters(M[d].text)
        PROVE  Before(x, y)
    <3>1. x \in In(c) /\ y \in In(d)
      BY <1>8, <1>9, <1>10
    <3>2. PICK q \in First(c) .. Last(w, c) : x = w[q] /\ ~IsBlank(w[q])
      BY <3>1 DEF In
    <3>3. PICK r \in First(d) .. Last(w, d) : y = w[r] /\ ~IsBlank(w[r])
      BY <3>1 DEF In
    <3>4. q \in DOMAIN w /\ r \in DOMAIN w /\ q < r
      <4>1. /\ First(c) \in 1 .. Len(w) /\ Last(w, c) \in First(c) .. Len(w)
            /\ First(d) \in 1 .. Len(w) /\ Last(w, d) \in First(d) .. Len(w)
            /\ Last(w, c) < First(d)
        BY <1>7, <1>9, <2>1
      <4> QED BY <1>6, <4>1
    <3> QED BY <1>3, <3>2, <3>3, <3>4 DEF Ordered
  <2>2. \A c \in DOMAIN M : Ordered(M[c].text)
    BY <1>8, <1>9, <1>10
  <2> QED BY <2>1, <2>2 DEF InOrder
<1>13. LettersIn(M) = Letters(w)
  <2>1. ASSUME NEW x \in LettersIn(M) PROVE x \in Letters(w)
    BY <1>8, <1>9, <1>10 DEF LettersIn
  <2>2. ASSUME NEW x \in Letters(w) PROVE x \in LettersIn(M)
    <3>1. PICK p \in 1 .. Len(w) : x = w[p] /\ ~IsBlank(w[p])
      BY <1>6 DEF Letters
    <3>2. PICK k \in DOMAIN Parts(w) : p \in First(k) .. Last(w, k)
      BY <1>7
    <3>3. x \in In(k)
      BY <3>1, <3>2 DEF In
    <3>4. x \in Letters(M[k].text) /\ k \in DOMAIN M
      BY <1>8, <1>9, <1>10, <3>3
    <3> QED BY <3>4 DEF LettersIn
  <2> QED BY <2>1, <2>2
<1>14. Undivided(M)
  <2>1. ASSUME NEW c \in DOMAIN M, NEW x \in Letters(M[c].text)
        PROVE  x \in Between(b, s, e + 1)
    BY <1>4, <1>8, <1>9, <1>10
  <2>2. ASSUME NEW c \in DOMAIN M, NEW d \in DOMAIN M,
               NEW x \in Letters(M[c].text), NEW y \in Letters(M[d].text), FollowsOn(x, y)
        PROVE  LongWordAt(x.line, x.at)
    BY <2>1, <2>2, LongWord
  <2> QED BY <2>2 DEF Undivided
<1> QED BY <1>4, <1>10, <1>11, <1>12, <1>13, <1>14 DEF HoldsAll

\* Nothing of what was cut depends on more than the blocks and the source.
LEMMA CuttingStays ==
    ASSUME UNCHANGED <<source, blocks>>, NEW b, NEW n, NEW e, NEW piece, NEW list,
           Cutting(b, n, e, piece, list)
    PROVE  Cutting(b, n, e, piece, list)'
<1>1. PICK L, D : L = WithPiece(list, b, piece) /\ D = Up(b, n)
  OBVIOUS
<1>2. WithPiece(list, b, piece)' = L /\ Up(b, n)' = D
  BY <1>1 DEF WithPiece, PieceOf, Up, Between
<1>3. HoldsAll(L, D)
  BY <1>1 DEF Cutting
<1>4. HoldsAll(L, D)'
  <2>1. ASSUME NEW c \in DOMAIN L PROVE SomeOfBlock(L[c])'
    <3>1. SomeOfBlock(L[c])
      BY <1>3 DEF HoldsAll
    <3> QED BY <3>1 DEF SomeOfBlock
  <2>2. Undivided(L)'
    <3>1. Undivided(L)
      BY <1>3 DEF HoldsAll
    <3>2. \A i, q : LongWordAt(i, q) => LongWordAt(i, q)'
      BY DEF LongWordAt
    <3> QED BY <3>1, <3>2 DEF Undivided
  <2> QED BY <1>3, <2>1, <2>2 DEF HoldsAll
<1>5. HoldsAll(WithPiece(list, b, piece), Up(b, n))'
  BY <1>2, <1>4 DEF HoldsAll
<1> QED BY <1>5 DEF Cutting, EndsAt, MayCut

LEMMA CutGoesOn ==
    ASSUME CutInv, UNCHANGED <<source, blocks, paragraph>>, paragraph = <<>>,
           NEW b, NEW n, NEW e, NEW piece \in Seq(Char), NEW list \in Seq(Blocks),
           cut' = [block |-> b, next |-> n, end |-> e, current |-> piece], chunks' = list,
           blocks \in Seq(Blocks), b \in DOMAIN blocks,
           n \in Nat, e \in Nat,
           status' \in {"splitting", "too_many_chunks"},
           status' = "splitting" => Cutting(b, n, e, piece, list)
    PROVE  CutInv'
<1>1. b \in Nat
  BY LenProperties
<1>2. cut' \in [block : Nat, next : Nat, end : Nat, current : Seq(Char)]
  BY <1>1
<1>3. cut'.block = b /\ cut'.next = n /\ cut'.end = e /\ cut'.current = piece
  OBVIOUS
<1>4. ASSUME status' = "splitting"
      PROVE  Cutting(cut.block, cut.next, cut.end, cut.current, chunks)'
  <2>1. Cutting(b, n, e, piece, list)'
    BY <1>4, CuttingStays
  <2> QED BY <1>3, <2>1 DEF Cutting, EndsAt, MayCut, WithPiece, PieceOf, Up, Between
<1> QED BY <1>2, <1>4 DEF CutInv

LEMMA FunctionIsSeq ==
    ASSUME NEW S, NEW n \in Nat, NEW f \in [1 .. n -> S]
    PROVE  f \in Seq(S)
<1> QED OBVIOUS

\* The pieces of two lists.
LEMMA PiecesOfConcat ==
    ASSUME NEW b, blocks[b] \in Blocks, NEW P \in Seq(Seq(Char)), NEW Q \in Seq(Seq(Char))
    PROVE  /\ Pieces(b, P) \in Seq(Blocks)
           /\ Pieces(b, P \o Q) = Pieces(b, P) \o Pieces(b, Q)
<1>1. ASSUME NEW t \in Seq(Char) PROVE PieceOf(b, t) \in Blocks
  BY DEF PieceOf, Blocks
<1>2. ASSUME NEW R \in Seq(Seq(Char)), NEW F, F = [k \in DOMAIN R |-> PieceOf(b, R[k])]
      PROVE  F \in Seq(Blocks) /\ Len(F) = Len(R) /\ DOMAIN F = 1 .. Len(R) /\ Len(R) \in Nat
  <2>1. DOMAIN R = 1 .. Len(R) /\ Len(R) \in Nat /\ \A k \in 1 .. Len(R) : R[k] \in Seq(Char)
    BY LenProperties, ElementOfSeq
  <2>2. F \in [1 .. Len(R) -> Blocks]
    BY <1>1, <1>2, <2>1
  <2>3. F \in Seq(Blocks)
    <3>1. PICK n \in Nat : n = Len(R)
      BY <2>1
    <3>2. F \in [1 .. n -> Blocks]
      BY <2>2, <3>1
    <3> QED BY <3>2, FunctionIsSeq
  <2>4. DOMAIN F = 1 .. Len(R)
    BY <2>2
  <2>5. Len(F) = Len(R)
    BY <2>1, <2>3, <2>4, LenProperties
  <2> QED BY <2>1, <2>3, <2>4, <2>5
<1> DEFINE F == [k \in DOMAIN P |-> PieceOf(b, P[k])]
           G == [k \in DOMAIN Q |-> PieceOf(b, Q[k])]
           R == P \o Q
           H == [k \in DOMAIN R |-> PieceOf(b, R[k])]
<1>3. /\ R \in Seq(Seq(Char)) /\ Len(R) = Len(P) + Len(Q)
      /\ \A q \in DOMAIN R : \/ q \in DOMAIN P /\ R[q] = P[q]
                             \/ q > Len(P) /\ q - Len(P) \in DOMAIN Q /\ R[q] = Q[q - Len(P)]
  BY PlacesOfConcat
<1> HIDE DEF R
<1>4. /\ F \in Seq(Blocks) /\ Len(F) = Len(P) /\ DOMAIN F = 1 .. Len(P) /\ Len(P) \in Nat
      /\ DOMAIN F = DOMAIN P /\ \A k \in DOMAIN P : F[k] = PieceOf(b, P[k])
  BY <1>2
<1>5. /\ G \in Seq(Blocks) /\ Len(G) = Len(Q) /\ DOMAIN G = 1 .. Len(Q) /\ Len(Q) \in Nat
      /\ DOMAIN G = DOMAIN Q /\ \A k \in DOMAIN Q : G[k] = PieceOf(b, Q[k])
  BY <1>2
<1>6. /\ H \in Seq(Blocks) /\ Len(H) = Len(R) /\ DOMAIN H = 1 .. Len(R)
      /\ DOMAIN H = DOMAIN R /\ \A k \in DOMAIN R : H[k] = PieceOf(b, R[k])
  BY <1>2, <1>3
<1> HIDE DEF F, G, H
<1>7. /\ F \o G \in Seq(Blocks) /\ Len(F \o G) = Len(F) + Len(G)
      /\ \A i \in 1 .. Len(F) + Len(G) : (F \o G)[i] = IF i <= Len(F) THEN F[i] ELSE G[i - Len(F)]
  <2>1. F \in Seq(Blocks) /\ G \in Seq(Blocks)
    BY <1>4, <1>5
  <2> QED BY <2>1, ConcatProperties
<1>8. ASSUME NEW i \in 1 .. Len(H) PROVE H[i] = (F \o G)[i]
  <2>1. H[i] = PieceOf(b, R[i]) /\ i \in DOMAIN R
    BY <1>6
  <2>2. CASE i \in DOMAIN P /\ R[i] = P[i]
    <3>1. i <= Len(F) /\ i \in 1 .. Len(F) + Len(G)
      BY <1>4, <1>5, <2>2
    <3>2. F[i] = PieceOf(b, P[i])
      BY <1>4, <2>2
    <3> QED BY <1>7, <2>1, <2>2, <3>1, <3>2
  <2>3. CASE i > Len(P) /\ i - Len(P) \in DOMAIN Q /\ R[i] = Q[i - Len(P)]
    <3>1. ~(i <= Len(F)) /\ i \in 1 .. Len(F) + Len(G)
      BY <1>3, <1>4, <1>5, <1>6, <2>3
    <3>2. G[i - Len(F)] = PieceOf(b, Q[i - Len(P)])
      BY <1>4, <1>5, <2>3
    <3> QED BY <1>7, <2>1, <2>3, <3>1, <3>2
  <2> QED BY <1>3, <2>1, <2>2, <2>3
<1>9. H = F \o G
  BY <1>3, <1>4, <1>5, <1>6, <1>7, <1>8, SeqEqual
<1> QED BY <1>4, <1>9 DEF F, G, H, R, Pieces

AllBlank(b, n, m) == \A q \in n .. m : IsBlank(blocks[b].text[q])

\* The next word or sentence of a block: what is skipped before it are spaces.
IsNext(w, b, n, s, e) ==
    /\ w \in Seq(Char) /\ Len(w) = e - s + 1 /\ w # <<>> /\ Ordered(w)
    /\ Letters(w) = Between(b, n, e + 1) /\ Letters(w) = Between(b, s, e + 1)
    /\ Letters(w) \subseteq Letters(blocks[b].text)
    /\ Up(b, s) = Up(b, n) /\ (MayCut(b, n) => MayCut(b, s))

LEMMA WordIs ==
    ASSUME Trimmed, ReadInv, paragraph = <<>>, NEW b \in DOMAIN blocks,
           NEW n \in 1 .. Len(blocks[b].text) + 1,
           NEW s \in n .. Len(blocks[b].text), NEW e \in s .. Len(blocks[b].text),
           AllBlank(b, n, s - 1), NEW w, w = SubSeq(blocks[b].text, s, e)
    PROVE  IsNext(w, b, n, s, e)
<1> DEFINE t == blocks[b].text
<1>1. t \in Seq(Char) /\ Len(t) \in Nat /\ Ordered(t) /\ DOMAIN t = 1 .. Len(t)
  BY BlocksAre
<1>2. /\ n \in Nat \ {0} /\ s \in Nat \ {0} /\ e \in Nat /\ n <= s /\ s <= e /\ e <= Len(t)
      /\ s \in 1 .. Len(t) /\ e \in s .. Len(t)
      /\ n .. (e + 1) - 1 = (n .. s - 1) \cup (s .. e) /\ s .. (e + 1) - 1 = s .. e
  BY <1>1
<1>3. w \in Seq(Char) /\ Len(w) = e - s + 1
  BY <1>1, <1>2, PlacesOfSubSeq
<1>4. Ordered(w) /\ Letters(w) = {t[q] : q \in {p \in s .. e : ~IsBlank(t[p])}}
  BY <1>1, <1>2, OrderOfSubSeq
<1>5. Letters(w) = Between(b, s, e + 1)
  BY <1>2, <1>4 DEF Between
<1>6. Letters(w) = Between(b, n, e + 1)
  BY <1>2, <1>4 DEF Between, AllBlank
<1>7. w # <<>>
  <2>1. Len(w) # 0
    BY <1>2, <1>3
  <2> QED BY <2>1, EmptySeq
<1>8. Between(b, n, s) = {}
  <2>1. \A q \in n .. s - 1 : IsBlank(t[q])
    BY DEF AllBlank
  <2> QED BY <2>1 DEF Between
<1>9. Up(b, s) = Up(b, n)
  <2>1. n \in Nat \ {0} /\ s \in Nat /\ n <= s
    BY <1>2
  <2>2. Up(b, s) = Up(b, n) \cup Between(b, n, s)
    BY <2>1, UpGrows
  <2> QED BY <1>8, <2>2
<1>10. Letters(w) \subseteq Letters(t)
  BY <1>2, <1>5, BetweenIs
<1>11. MayCut(b, n) => MayCut(b, s)
  <2>1. CASE s = n
    BY <2>1
  <2>2. CASE s > n
    <3>1. s - 1 \in n .. s - 1
      BY <1>2, <2>2
    <3>2. IsBlank(t[s - 1])
      BY <3>1 DEF AllBlank
    <3> QED BY <3>2 DEF MayCut
  <2> QED BY <1>2, <2>1, <2>2
<1> QED BY <1>3, <1>4, <1>5, <1>6, <1>7, <1>9, <1>10, <1>11 DEF IsNext

\* Pieces are yielded, or are too many.
LEMMA YieldIs ==
    ASSUME NEW P, Yield(P)
    PROVE  \/ status' = "too_many_chunks" /\ chunks' = chunks
           \/ status' = status /\ chunks' = chunks \o Pieces(cut.block, P)
<1> QED BY DEF Yield, Pieces, PieceOf

\* One piece, or none.
LEMMA YieldOfPiece ==
    ASSUME NEW b, b = cut.block, blocks[b] \in Blocks, NEW list \in Seq(Blocks), list = chunks,
           NEW w \in Seq(Char), Yield(IF w = <<>> THEN <<>> ELSE <<w>>)
    PROVE  \/ status' = "too_many_chunks" /\ chunks' = list
           \/ status' = status /\ chunks' = WithPiece(list, b, w)
<1>1. CASE w = <<>>
  <2>1. Yield(<<>>)
    BY <1>1
  <2>2. Pieces(b, <<>>) = <<>>
    BY DEF Pieces
  <2>3. list \o <<>> = list
    BY ConcatEmptySeq
  <2> QED BY <1>1, <2>1, <2>2, <2>3, YieldIs DEF WithPiece
<1>2. CASE w # <<>>
  <2>1. Yield(<<w>>)
    BY <1>2
  <2>2. Pieces(b, <<w>>) = <<PieceOf(b, w)>>
    BY DEF Pieces
  <2>3. PieceOf(b, w) \in Blocks
    BY DEF PieceOf, Blocks
  <2>4. Append(list, PieceOf(b, w)) = list \o <<PieceOf(b, w)>>
    BY <2>3, AppendIsConcat
  <2> QED BY <1>2, <2>1, <2>2, <2>4, YieldIs DEF WithPiece
<1> QED BY <1>1, <1>2

\* Where the text is being cut.
LEMMA CutIs ==
    ASSUME Trimmed, ReadInv, CutInv, status = "splitting",
           NEW b, b = cut.block, NEW n, n = cut.next, NEW e, e = cut.end, NEW u, u = cut.current
    PROVE  /\ chunks \in Seq(Blocks) /\ paragraph = <<>> /\ blocks \in Seq(Blocks)
           /\ cut = [block |-> b, next |-> n, end |-> e, current |-> u] /\ u \in Seq(Char)
           /\ b \in DOMAIN blocks /\ blocks[b] \in Blocks
           /\ blocks[b].text \in Seq(Char) /\ Len(blocks[b].text) \in Nat
           /\ n \in 1 .. Len(blocks[b].text) + 1 /\ e \in 0 .. Len(blocks[b].text)
           /\ n \in Nat /\ e \in Nat /\ MaxChars \in Nat \ {0}
           /\ Cutting(b, n, e, u, chunks) /\ MayCut(b, n) /\ (e = 0 => u = <<>>)
           /\ HoldsAll(WithPiece(chunks, b, u), Up(b, n))
<1>1. /\ chunks \in Seq(Blocks) /\ paragraph = <<>>
      /\ cut \in [block : Nat, next : Nat, end : Nat, current : Seq(Char)]
      /\ Cutting(b, n, e, u, chunks)
  BY DEF CutInv
<1>2. cut = [block |-> b, next |-> n, end |-> e, current |-> u] /\ u \in Seq(Char)
  BY <1>1
<1>3. b \in DOMAIN blocks
  BY <1>1 DEF Cutting
<1>4. blocks \in Seq(Blocks) /\ blocks[b] \in Blocks /\ blocks[b].text \in Seq(Char) /\ Len(blocks[b].text) \in Nat
  BY <1>1, <1>3, BlocksAre
<1>5. n \in Nat /\ e \in Nat /\ MaxChars \in Nat \ {0}
  BY <1>1 DEF Trimmed
<1> QED BY <1>1, <1>2, <1>3, <1>4, <1>5 DEF Cutting

LEMMA SentenceStep ==
    ASSUME Trimmed, ReadInv, CutInv, Sentence
    PROVE  CutInv'
<1>1. PICK b, n, e, u, list : /\ b = cut.block /\ n = cut.next /\ e = cut.end /\ u = cut.current
                              /\ list = chunks
  OBVIOUS
<1>2. PICK t : t = blocks[b].text
  OBVIOUS
<1>3. status = "splitting" /\ e = 0 /\ UNCHANGED <<source, blocks, paragraph>>
  BY <1>1 DEF Sentence
<1>4. /\ list \in Seq(Blocks) /\ paragraph = <<>> /\ blocks \in Seq(Blocks)
      /\ cut = [block |-> b, next |-> n, end |-> e, current |-> u] /\ u = <<>>
      /\ b \in DOMAIN blocks /\ blocks[b] \in Blocks
      /\ n \in 1 .. Len(blocks[b].text) + 1 /\ n \in Nat /\ MaxChars \in Nat \ {0}
      /\ MayCut(b, n) /\ HoldsAll(list, Up(b, n))
      /\ Len(t) \in Nat
  BY <1>1, <1>2, <1>3, CutIs DEF WithPiece
<1>5. PICK s \in n .. Len(t) : \E z \in s .. Len(t) :
         /\ \A q \in n .. s - 1 : IsBlank(t[q])
         /\ EndsAt(b, z)
         /\ IF z - s + 1 <= MaxChars
            THEN Yield(<<SubSeq(t, s, z)>>) /\ cut' = [cut EXCEPT !.next = z + 1]
            ELSE /\ cut' = [cut EXCEPT !.next = s, !.end = z]
                 /\ UNCHANGED <<chunks, status>>
  BY <1>1, <1>2 DEF Sentence, Text, Starts, EndsSentence, EndsAt
<1>6. PICK z \in s .. Len(t) :
         /\ \A q \in n .. s - 1 : IsBlank(t[q])
         /\ EndsAt(b, z)
         /\ IF z - s + 1 <= MaxChars
            THEN Yield(<<SubSeq(t, s, z)>>) /\ cut' = [cut EXCEPT !.next = z + 1]
            ELSE /\ cut' = [cut EXCEPT !.next = s, !.end = z]
                 /\ UNCHANGED <<chunks, status>>
  BY <1>5
<1>7. PICK w : w = SubSeq(t, s, z)
  OBVIOUS
<1>8. /\ w \in Seq(Char) /\ Len(w) = z - s + 1 /\ w # <<>> /\ Ordered(w)
      /\ Letters(w) = Between(b, n, z + 1)
      /\ Up(b, s) = Up(b, n) /\ MayCut(b, s)
  <2>1. /\ s \in n .. Len(blocks[b].text) /\ z \in s .. Len(blocks[b].text)
        /\ AllBlank(b, n, s - 1) /\ w = SubSeq(blocks[b].text, s, z)
    BY <1>2, <1>6, <1>7 DEF AllBlank
  <2>2. IsNext(w, b, n, s, z)
    BY <1>4, <2>1, WordIs
  <2> QED BY <1>4, <2>2 DEF IsNext
<1>9. /\ s \in Nat \ {0} /\ z \in Nat \ {0} /\ n <= s /\ s <= z /\ z <= Len(t)
      /\ z + 1 \in n .. Len(t) + 1 /\ z + 1 \in 1 .. Len(t) + 1
  BY <1>2, <1>4
<1>10. CASE z - s + 1 <= MaxChars
  <2>1. Yield(IF w = <<>> THEN <<>> ELSE <<w>>)
    BY <1>6, <1>7, <1>8, <1>10
  <2>2. cut' = [block |-> b, next |-> z + 1, end |-> 0, current |-> <<>>]
    BY <1>3, <1>4, <1>6, <1>10
  <2>3. \/ status' = "too_many_chunks" /\ chunks' = list
        \/ status' = "splitting" /\ chunks' = Append(list, PieceOf(b, w))
    <3>1. \/ status' = "too_many_chunks" /\ chunks' = list
          \/ status' = status /\ chunks' = WithPiece(list, b, w)
      BY <1>1, <1>4, <1>8, <2>1, YieldOfPiece
    <3> QED BY <1>3, <1>8, <3>1 DEF WithPiece
  <2>4. PICK new : new = chunks'
    OBVIOUS
  <2>5. new \in Seq(Blocks)
    <3>1. PieceOf(b, w) \in Blocks
      BY <1>4, <1>8, PieceIs
    <3>2. Append(list, PieceOf(b, w)) \in Seq(Blocks)
      BY <1>4, <3>1, AppendProperties
    <3> QED BY <1>4, <2>3, <2>4, <3>2
  <2>6. ASSUME status' = "splitting" PROVE Cutting(b, z + 1, 0, <<>>, new)
    <3>1. new = Append(list, PieceOf(b, w))
      BY <2>3, <2>4, <2>6
    <3>2. Len(w) \in 1 .. MaxChars
      BY <1>4, <1>8, <1>9, <1>10
    <3>3. HoldsAll(new, Up(b, z + 1))
      <4>1. z + 1 \in n .. Len(blocks[b].text) + 1
        BY <1>2, <1>9
      <4> QED BY <1>4, <1>8, <3>1, <3>2, <4>1, PieceAdded
    <3>4. MayCut(b, z + 1)
      <4>1. z \in Nat /\ (z + 1) - 1 = z /\ (z + 1 > Len(blocks[b].text) \/ z < Len(blocks[b].text))
        BY <1>2, <1>4, <1>9
      <4>2. z < Len(blocks[b].text) => IsBlank(blocks[b].text[z + 1])
        BY <1>6 DEF EndsAt, IsBlank
      <4> QED BY <4>1, <4>2 DEF MayCut
    <3>5. Letters(<<>>) = {}
      BY DEF Letters
    <3> QED BY <1>2, <1>4, <1>9, <3>3, <3>4, <3>5 DEF Cutting, WithPiece
  <2>7. z + 1 \in Nat /\ 0 \in Nat /\ <<>> \in Seq(Char) /\ status' \in {"splitting", "too_many_chunks"}
    BY <1>9, <2>3
  <2> QED BY <1>3, <1>4, <2>2, <2>4, <2>5, <2>6, <2>7, CutGoesOn
<1>11. CASE ~(z - s + 1 <= MaxChars)
  <2>1. /\ cut' = [block |-> b, next |-> s, end |-> z, current |-> <<>>]
        /\ chunks' = list /\ status' = "splitting"
    BY <1>1, <1>3, <1>4, <1>6, <1>11
  <2>2. Cutting(b, s, z, <<>>, list)
    <3>1. Letters(<<>>) = {}
      BY DEF Letters
    <3>2. s \in 1 .. Len(t) + 1 /\ z \in 0 .. Len(t) /\ s <= z + 1
      BY <1>4, <1>9
    <3> QED BY <1>2, <1>4, <1>6, <1>8, <3>1, <3>2 DEF Cutting, WithPiece
  <2>3. s \in Nat /\ z \in Nat /\ <<>> \in Seq(Char) /\ status' \in {"splitting", "too_many_chunks"}
    BY <1>9, <2>1
  <2> QED BY <1>3, <1>4, <2>1, <2>2, <2>3, CutGoesOn
<1> QED BY <1>10, <1>11

LEMMA EndOfSentenceStep ==
    ASSUME Trimmed, ReadInv, CutInv, EndOfSentence
    PROVE  CutInv'
<1>1. PICK b, n, e, u, list : /\ b = cut.block /\ n = cut.next /\ e = cut.end /\ u = cut.current
                              /\ list = chunks
  OBVIOUS
<1>2. PICK t : t = blocks[b].text
  OBVIOUS
<1>3. status = "splitting" /\ e > 0 /\ UNCHANGED <<source, blocks, paragraph>>
  BY <1>1 DEF EndOfSentence
<1>4. /\ list \in Seq(Blocks) /\ paragraph = <<>> /\ blocks \in Seq(Blocks)
      /\ cut = [block |-> b, next |-> n, end |-> e, current |-> u] /\ u \in Seq(Char)
      /\ b \in DOMAIN blocks /\ blocks[b] \in Blocks
      /\ n \in 1 .. Len(t) + 1 /\ n \in Nat /\ e \in 0 .. Len(t) /\ e \in Nat
      /\ Cutting(b, n, e, u, list) /\ HoldsAll(WithPiece(list, b, u), Up(b, n))
      /\ Len(t) \in Nat
  BY <1>1, <1>2, <1>3, CutIs
<1>5. EndsAt(b, e) /\ n <= e + 1
  BY <1>3, <1>4 DEF Cutting
<1>6. /\ \A q \in n .. e : IsBlank(t[q])
      /\ Yield(IF u = <<>> THEN <<>> ELSE <<u>>)
      /\ cut' = [block |-> b, next |-> e + 1, end |-> 0, current |-> <<>>]
  BY <1>1, <1>2, <1>4 DEF EndOfSentence, NothingUntil, Text, Pending
<1>7. \/ status' = "too_many_chunks" /\ chunks' = list
      \/ status' = "splitting" /\ chunks' = WithPiece(list, b, u)
  BY <1>1, <1>3, <1>4, <1>6, YieldOfPiece
<1>8. PICK new : new = chunks'
  OBVIOUS
<1>9. new \in Seq(Blocks)
  BY <1>4, <1>7, <1>8 DEF HoldsAll
<1>10. ASSUME status' = "splitting" PROVE Cutting(b, e + 1, 0, <<>>, new)
  <2>1. new = WithPiece(list, b, u)
    BY <1>7, <1>8, <1>10
  <2>2. Up(b, e + 1) = Up(b, n)
    <3>1. (e + 1) - 1 = e /\ n \in Nat \ {0} /\ e + 1 \in Nat
      BY <1>4
    <3>2. Between(b, n, e + 1) = {}
      BY <1>2, <1>6, <3>1 DEF Between
    <3> QED BY <1>5, <3>1, <3>2, UpGrows
  <2>3. MayCut(b, e + 1)
    BY <1>2, <1>3, <1>4, <1>5 DEF MayCut, EndsAt, IsBlank
  <2>4. Letters(<<>>) = {}
    BY DEF Letters
  <2>5. e + 1 \in 1 .. Len(t) + 1
    BY <1>4
  <2> QED BY <1>2, <1>4, <2>1, <2>2, <2>3, <2>4, <2>5 DEF Cutting, WithPiece
<1>11. e + 1 \in Nat /\ 0 \in Nat /\ <<>> \in Seq(Char) /\ status' \in {"splitting", "too_many_chunks"}
  BY <1>4, <1>7
<1> QED BY <1>3, <1>4, <1>6, <1>8, <1>9, <1>10, <1>11, CutGoesOn

LEMMA EndOfBlockStep ==
    ASSUME Trimmed, ReadInv, CutInv, EndOfBlock
    PROVE  CutInv'
<1>1. PICK b, n, u, list : /\ b = cut.block /\ n = cut.next /\ u = cut.current /\ list = chunks
  OBVIOUS
<1>2. PICK t : t = blocks[b].text
  OBVIOUS
<1>3. status = "splitting" /\ 0 = cut.end /\ UNCHANGED <<source, blocks, paragraph, chunks>>
  BY <1>1 DEF EndOfBlock
<1>4. /\ list \in Seq(Blocks) /\ paragraph = <<>> /\ blocks \in Seq(Blocks)
      /\ cut = [block |-> b, next |-> n, end |-> 0, current |-> u] /\ u = <<>>
      /\ b \in DOMAIN blocks
      /\ n \in 1 .. Len(t) + 1 /\ n \in Nat
      /\ HoldsAll(list, Up(b, n)) /\ Cutting(b, n, 0, u, list)
      /\ Len(t) \in Nat
  BY <1>1, <1>2, <1>3, CutIs DEF WithPiece
<1>5. b \in 1 .. Len(blocks) /\ DOMAIN blocks = 1 .. Len(blocks) /\ Len(blocks) \in Nat
  BY <1>4, LenProperties
<1>6. CASE b < Len(blocks)
  <2>1. cut' = [block |-> b + 1, next |-> 1, end |-> 0, current |-> <<>>] /\ status' = status
    BY <1>1, <1>4, <1>6 DEF EndOfBlock
  <2>2. \A q \in n .. Len(t) : IsBlank(t[q])
    BY <1>1, <1>2 DEF EndOfBlock, NothingUntil, Text
  <2>3. Up(b + 1, 1) = Up(b, n)
    <3>1. n \in Nat \ {0} /\ Len(t) + 1 \in Nat /\ n <= Len(t) + 1 /\ (Len(t) + 1) - 1 = Len(t)
      BY <1>4
    <3>2. Between(b, n, Len(t) + 1) = {}
      BY <1>2, <2>2, <3>1 DEF Between
    <3>3. Up(b, Len(t) + 1) = Up(b, n)
      <4>1. Up(b, Len(t) + 1) = Up(b, n) \cup Between(b, n, Len(t) + 1)
        BY <3>1, UpGrows
      <4> QED BY <3>2, <4>1
    <3> QED BY <1>2, <1>4, <3>3, UpNextBlock
  <2>4. b + 1 \in DOMAIN blocks
    BY <1>5, <1>6
  <2>5. Cutting(b + 1, 1, 0, <<>>, list)
    <3>1. Letters(<<>>) = {}
      BY DEF Letters
    <3>2. Len(blocks[b + 1].text) \in Nat
      BY <1>4, <2>4, BlocksAre
    <3>3. 1 \in 1 .. Len(blocks[b + 1].text) + 1 /\ 0 \in 0 .. Len(blocks[b + 1].text)
      BY <3>2
    <3>4. MayCut(b + 1, 1)
      BY DEF MayCut
    <3> QED BY <1>4, <2>3, <2>4, <3>1, <3>3, <3>4 DEF Cutting, WithPiece
  <2>6. 1 \in Nat /\ 0 \in Nat /\ <<>> \in Seq(Char) /\ status' \in {"splitting", "too_many_chunks"}
    BY <1>3, <2>1
  <2>7. chunks' = list
    BY <1>1, <1>3
  <2> QED BY <1>3, <1>4, <2>1, <2>4, <2>5, <2>6, <2>7, CutGoesOn
<1>7. CASE ~(b < Len(blocks))
  <2>1. cut' = cut /\ status' = "chunked" /\ chunks' = chunks
    BY <1>1, <1>3, <1>7 DEF EndOfBlock
  <2>2. b = Len(blocks)
    <3>1. b \in Nat /\ Len(blocks) \in Nat /\ b <= Len(blocks)
      BY <1>5
    <3> QED BY <1>7, <3>1
  <2>3. Cutting(b, n, 0, u, list)'
    BY <1>3, <1>4, CuttingStays
  <2>4. Cutting(cut.block, cut.next, cut.end, cut.current, chunks)'
    BY <1>1, <1>3, <2>1, <2>3 DEF Cutting, EndsAt, MayCut, WithPiece, PieceOf, Up, Between
  <2>5. (cut.block = Len(blocks) /\ cut.end = 0 /\ NothingUntil(Len(Text)))'
    BY <1>1, <1>3, <2>1, <2>2 DEF EndOfBlock, NothingUntil, Text
  <2>6. /\ chunks' \in Seq(Blocks) /\ paragraph' = <<>>
        /\ cut' \in [block : Nat, next : Nat, end : Nat, current : Seq(Char)]
    BY <1>3, <1>4, <2>1 DEF CutInv
  <2> QED BY <2>1, <2>4, <2>5, <2>6 DEF CutInv
<1> QED BY <1>6, <1>7

LEMMA Regrouped ==
    ASSUME NEW K \in Seq(Blocks), NEW L \in Seq(Blocks), NEW M \in Seq(Blocks)
    PROVE  (K \o L) \o M = K \o (L \o M)
<1>1. PICK S : S = Blocks
  OBVIOUS
<1>2. K \in Seq(S) /\ L \in Seq(S) /\ M \in Seq(S)
  BY <1>1
<1> QED BY <1>2, ConcatAssociative, SMTT(20)

LEMMA YieldOfPieces ==
    ASSUME NEW b, b = cut.block, blocks[b] \in Blocks, NEW list \in Seq(Blocks), list = chunks,
           NEW u \in Seq(Char), NEW Q \in Seq(Seq(Char)),
           Yield((IF u = <<>> THEN <<>> ELSE <<u>>) \o Q)
    PROVE  \/ status' = "too_many_chunks" /\ chunks' = list
           \/ status' = status /\ chunks' = WithPiece(list, b, u) \o Pieces(b, Q)
<1>1. PICK P, F, M : /\ P = IF u = <<>> THEN <<>> ELSE <<u>>
                     /\ F = Pieces(b, P) /\ M = Pieces(b, Q)
  OBVIOUS
<1>2. P \in Seq(Seq(Char)) /\ (u = <<>> => P = <<>>) /\ (u # <<>> => P = <<u>>)
  BY <1>1
<1>3. F \in Seq(Blocks) /\ M \in Seq(Blocks) /\ Pieces(b, P \o Q) = F \o M
  BY <1>1, <1>2, PiecesOfConcat
<1>4. Yield(P \o Q)
  BY <1>1
<1>5. \/ status' = "too_many_chunks" /\ chunks' = list
      \/ status' = status /\ chunks' = list \o (F \o M)
  BY <1>3, <1>4, YieldIs
<1>6. list \o F = WithPiece(list, b, u)
  <2>1. CASE u = <<>>
    <3>1. F = <<>>
      BY <1>1, <1>2, <2>1 DEF Pieces
    <3> QED BY <2>1, <3>1, ConcatEmptySeq DEF WithPiece
  <2>2. CASE u # <<>>
    <3>1. F = <<PieceOf(b, u)>>
      BY <1>1, <1>2, <2>2 DEF Pieces
    <3>2. PieceOf(b, u) \in Blocks
      BY DEF PieceOf, Blocks
    <3>3. Append(list, PieceOf(b, u)) = list \o <<PieceOf(b, u)>>
      BY <3>2, AppendIsConcat
    <3> QED BY <2>2, <3>1, <3>3 DEF WithPiece
  <2> QED BY <2>1, <2>2
<1>7. list \o (F \o M) = (list \o F) \o M
  <2>1. F \in Seq(Blocks) /\ M \in Seq(Blocks)
    BY <1>3
  <2>2. (list \o F) \o M = list \o (F \o M)
    BY <2>1, Regrouped
  <2> QED BY <2>2
<1> QED BY <1>1, <1>5, <1>6, <1>7

\* A letter that is looked for in a sentence ends a word or goes on with it.
LEMMA WordLetters ==
    ASSUME NEW b, b = cut.block, NEW e \in Nat, e = cut.end,
           NEW s \in Nat, NEW z \in s .. e, Starts(s),
           \A q \in s .. z - 1 : ~EndsWord(q)
    PROVE  \A q \in s .. z : ~IsBlank(blocks[b].text[q])
<1>1. SUFFICES ASSUME NEW q \in s .. z PROVE ~IsBlank(blocks[b].text[q])
  OBVIOUS
<1>2. CASE q = s
  BY <1>2 DEF Starts, Text
<1>3. CASE q # s
  <2>1. q - 1 \in s .. z - 1 /\ (q - 1) + 1 = q
    BY <1>3
  <2>2. ~EndsWord(q - 1)
    BY <2>1
  <2> QED BY <2>1, <2>2 DEF EndsWord, Text
<1> QED BY <1>2, <1>3

LEMMA WordStep ==
    ASSUME Trimmed, ReadInv, CutInv, Word
    PROVE  CutInv'
<1>1. PICK b, n, e, u, list : /\ b = cut.block /\ n = cut.next /\ e = cut.end /\ u = cut.current
                              /\ list = chunks
  OBVIOUS
<1>2. PICK t : t = blocks[b].text
  OBVIOUS
<1>3. status = "splitting" /\ e > 0 /\ UNCHANGED <<source, blocks, paragraph>>
  BY <1>1 DEF Word
<1>4. /\ list \in Seq(Blocks) /\ paragraph = <<>> /\ blocks \in Seq(Blocks)
      /\ cut = [block |-> b, next |-> n, end |-> e, current |-> u] /\ u \in Seq(Char)
      /\ b \in DOMAIN blocks /\ blocks[b] \in Blocks
      /\ n \in 1 .. Len(blocks[b].text) + 1 /\ n \in Nat /\ e \in 0 .. Len(t) /\ e \in Nat
      /\ MaxChars \in Nat \ {0} /\ Len(t) \in Nat
      /\ MayCut(b, n)
  BY <1>1, <1>2, <1>3, CutIs
<1>5. /\ Cutting(b, n, e, u, list) /\ HoldsAll(WithPiece(list, b, u), Up(b, n))
      /\ EndsAt(b, e) /\ Letters(u) \subseteq Letters(blocks[b].text)
  <2>1. Cutting(b, n, e, u, list)
    BY <1>1, <1>3, CutIs
  <2> QED BY <1>3, <2>1 DEF Cutting
<1>6. PICK s \in n .. e : \E z \in s .. e :
         /\ Starts(s) /\ EndsWord(z) /\ \A q \in s .. z - 1 : ~EndsWord(q)
         /\ AddWord(SubSeq(t, s, z), z + 1)
  BY <1>1, <1>2 DEF Word, Text
<1>7. PICK z \in s .. e :
         /\ Starts(s) /\ EndsWord(z) /\ \A q \in s .. z - 1 : ~EndsWord(q)
         /\ AddWord(SubSeq(t, s, z), z + 1)
  BY <1>6
<1>8. PICK w, m : w = SubSeq(t, s, z) /\ m = z + 1
  OBVIOUS
<1>9. /\ s \in Nat \ {0} /\ z \in Nat \ {0} /\ n <= s /\ s <= z /\ z <= Len(t) /\ z <= e
      /\ m \in n .. Len(blocks[b].text) + 1 /\ m \in 1 .. Len(blocks[b].text) + 1
      /\ m \in Nat /\ m <= e + 1 /\ m - 1 = z
      /\ s \in 1 .. Len(blocks[b].text) /\ z \in s .. Len(blocks[b].text)
  BY <1>2, <1>4, <1>8
<1>10. /\ w \in Seq(Char) /\ Len(w) = z - s + 1 /\ w # <<>> /\ Ordered(w)
       /\ Letters(w) = Between(b, n, m) /\ Letters(w) = Between(b, s, m)
       /\ Letters(w) \subseteq Letters(blocks[b].text)
       /\ Len(w) \in Nat /\ Len(w) > 0
  <2>1. AllBlank(b, n, s - 1)
    BY <1>1, <1>7 DEF Starts, Text, AllBlank
  <2>2. s \in n .. Len(blocks[b].text) /\ w = SubSeq(blocks[b].text, s, z)
    BY <1>2, <1>4, <1>8, <1>9
  <2>3. IsNext(w, b, n, s, z)
    BY <1>4, <1>9, <2>1, <2>2, WordIs
  <2>4. Len(w) = z - s + 1
    BY <2>3 DEF IsNext
  <2>5. Len(w) \in Nat /\ Len(w) > 0
    BY <1>9, <2>4
  <2> QED BY <1>8, <2>3, <2>5 DEF IsNext
<1>11. \A q \in s .. z : ~IsBlank(blocks[b].text[q])
  BY <1>1, <1>4, <1>7, <1>9, WordLetters
<1>12. MayCut(b, m)
  <2>1. CASE z < e
    BY <1>1, <1>7, <1>8, <2>1 DEF EndsWord, Text, MayCut
  <2>2. CASE z = e
    <3>1. e < Len(blocks[b].text) => IsBlank(blocks[b].text[e + 1])
      BY <1>5 DEF EndsAt, IsBlank
    <3>2. e < Len(blocks[b].text) \/ m > Len(blocks[b].text)
      BY <1>2, <1>4, <1>8, <2>2
    <3> QED BY <1>8, <2>2, <3>1, <3>2 DEF MayCut
  <2> QED BY <1>4, <1>9, <2>1, <2>2
<1>13. PICK new : new = chunks'
  OBVIOUS
\* What is left to show of each way to add the word.
<1>14. ASSUME NEW v \in Seq(Char), Letters(v) \subseteq Letters(blocks[b].text),
              cut' = [block |-> b, next |-> m, end |-> e, current |-> v],
              \/ status' = "too_many_chunks" /\ chunks' = list
              \/ /\ status' = "splitting" /\ new \in Seq(Blocks)
                 /\ HoldsAll(WithPiece(new, b, v), Up(b, m))
       PROVE  CutInv'
  <2>1. new \in Seq(Blocks) /\ status' \in {"splitting", "too_many_chunks"}
    BY <1>4, <1>13, <1>14
  <2>2. ASSUME status' = "splitting" PROVE Cutting(b, m, e, v, new)
    <3>1. HoldsAll(WithPiece(new, b, v), Up(b, m))
      BY <1>14, <2>2
    <3>2. e \in 0 .. Len(blocks[b].text) /\ ~(e = 0)
      BY <1>2, <1>3, <1>4
    <3> QED BY <1>4, <1>5, <1>9, <1>12, <1>14, <3>1, <3>2 DEF Cutting
  <2> QED BY <1>3, <1>4, <1>9, <1>13, <1>14, <2>1, <2>2, CutGoesOn
<1>15. CASE /\ Longer(w)
            /\ Yield(Pending \o Parts(w))
            /\ cut' = [cut EXCEPT !.next = m, !.current = <<>>]
  <2>1. PICK M : M = Pieces(b, Parts(w))
    OBVIOUS
  <2>2. Parts(w) \in Seq(Seq(Char))
    BY <1>10, PartsAre
  <2>3. Yield((IF u = <<>> THEN <<>> ELSE <<u>>) \o Parts(w))
    BY <1>1, <1>15 DEF Pending
  <2>4. \/ status' = "too_many_chunks" /\ chunks' = list
        \/ status' = "splitting" /\ chunks' = WithPiece(list, b, u) \o M
    BY <1>1, <1>3, <1>4, <2>1, <2>2, <2>3, YieldOfPieces
  <2>5. HoldsAll(M, Between(b, n, m))
    <3>1. w = SubSeq(blocks[b].text, s, z) /\ z - s + 1 > MaxChars
      BY <1>2, <1>8, <1>10, <1>15 DEF Longer
    <3>2. HoldsAll(M, Between(b, s, z + 1))
      BY <1>4, <1>9, <1>11, <2>1, <3>1, PartsHold
    <3> QED BY <1>8, <1>10, <3>2
  <2>6. HoldsAll(WithPiece(list, b, u) \o M, Up(b, m))
    BY <1>4, <1>5, <1>9, <2>5, PiecesAdded
  <2>7. WithPiece(list, b, u) \o M \in Seq(Blocks)
    BY <2>6 DEF HoldsAll
  <2>8. cut' = [block |-> b, next |-> m, end |-> e, current |-> <<>>]
    BY <1>4, <1>15
  <2>9. Letters(<<>>) = {} /\ <<>> \in Seq(Char)
    BY DEF Letters
  <2>10. WithPiece(new, b, <<>>) = new
    BY DEF WithPiece
  <2> QED BY <1>13, <1>14, <2>4, <2>6, <2>7, <2>8, <2>9, <2>10
<1>16. CASE /\ ~Longer(w) /\ ~Fits(w)
            /\ Yield(Pending)
            /\ cut' = [cut EXCEPT !.next = m, !.current = w]
  <2>1. Yield(IF u = <<>> THEN <<>> ELSE <<u>>)
    BY <1>1, <1>16 DEF Pending
  <2>2. \/ status' = "too_many_chunks" /\ chunks' = list
        \/ status' = "splitting" /\ chunks' = WithPiece(list, b, u)
    BY <1>1, <1>3, <1>4, <2>1, YieldOfPiece
  <2>3. Len(w) \in 1 .. MaxChars
    BY <1>4, <1>10, <1>16 DEF Longer
  <2>4. PICK L : L = WithPiece(list, b, u)
    OBVIOUS
  <2>5. HoldsAll(Append(L, PieceOf(b, w)), Up(b, m))
    BY <1>4, <1>5, <1>9, <1>10, <2>3, <2>4, PieceAdded
  <2>6. L \in Seq(Blocks)
    BY <1>5, <2>4 DEF HoldsAll
  <2>7. HoldsAll(WithPiece(L, b, w), Up(b, m))
    BY <1>10, <2>5 DEF WithPiece
  <2>8. cut' = [block |-> b, next |-> m, end |-> e, current |-> w]
    BY <1>4, <1>16
  <2> QED BY <1>10, <1>13, <1>14, <2>2, <2>4, <2>6, <2>7, <2>8
<1>17. CASE /\ ~Longer(w) /\ Fits(w)
            /\ cut' = [cut EXCEPT !.next = m,
                                  !.current = IF @ = <<>> THEN w ELSE Append(@, Space) \o w]
            /\ UNCHANGED <<chunks, status>>
  <2>1. status' = "splitting" /\ new = list
    BY <1>1, <1>3, <1>13, <1>17
  <2>2. CASE u = <<>>
    <3>1. cut' = [block |-> b, next |-> m, end |-> e, current |-> w]
      BY <1>4, <1>17, <2>2
    <3>2. Len(w) \in 1 .. MaxChars
      BY <1>4, <1>10, <1>17 DEF Longer
    <3>3. HoldsAll(list, Up(b, n))
      BY <1>5, <2>2 DEF WithPiece
    <3>4. HoldsAll(Append(list, PieceOf(b, w)), Up(b, m))
      BY <1>4, <1>9, <1>10, <3>2, <3>3, PieceAdded
    <3>5. HoldsAll(WithPiece(list, b, w), Up(b, m))
      BY <1>10, <3>4 DEF WithPiece
    <3> QED BY <1>4, <1>10, <1>14, <2>1, <3>1, <3>5
  <2>3. CASE u # <<>>
    <3>1. PICK v : v = Append(u, Space) \o w
      OBVIOUS
    <3>2. cut' = [block |-> b, next |-> m, end |-> e, current |-> v]
      BY <1>4, <1>17, <2>3, <3>1
    <3>3. Space \in Char /\ IsBlank(Space)
      BY DEF Space, Char, Kinds, IsBlank
    <3>4. v \in Seq(Char) /\ Len(v) = Len(u) + 1 + Len(w) /\ Letters(v) = Letters(u) \cup Letters(w)
      BY <1>4, <1>10, <3>1, <3>3, JoinedTexts
    <3>5. Len(u) \in Nat
      BY <1>4, LenProperties
    <3>6. Len(u) + 1 + Len(w) \in 1 .. MaxChars
      <4>1. Len(u) + 1 + Len(w) <= MaxChars
        BY <1>1, <1>17, <2>3 DEF Fits
      <4>2. Len(w) \in Nat /\ MaxChars \in Nat
        BY <1>4, <1>10
      <4> QED BY <3>5, <4>1, <4>2
    <3>7. HoldsAll(Append(list, PieceOf(b, u)), Up(b, n))
      BY <1>5, <2>3 DEF WithPiece
    <3>8. HoldsAll(Append(list, PieceOf(b, Append(u, Space) \o w)), Up(b, m))
      BY <1>4, <1>5, <1>9, <1>10, <3>6, <3>7, PieceExtended
    <3>9. v # <<>>
      <4>1. Len(v) # 0
        BY <1>10, <3>4, <3>5
      <4> QED BY <4>1, EmptySeq
    <3>10. HoldsAll(WithPiece(list, b, v), Up(b, m))
      BY <3>1, <3>8, <3>9 DEF WithPiece
    <3>11. Letters(v) \subseteq Letters(blocks[b].text)
      BY <1>5, <1>10, <3>4
    <3> QED BY <1>4, <1>14, <2>1, <3>2, <3>4, <3>10, <3>11
  <2> QED BY <2>2, <2>3
<1> QED BY <1>7, <1>8, <1>15, <1>16, <1>17 DEF AddWord

LEMMA ReadCut ==
    ASSUME CutInv, ReadLine
    PROVE  CutInv'
<1>1. status = "reading" /\ UNCHANGED <<chunks, cut, status>>
  BY DEF ReadLine
<1> QED BY <1>1 DEF CutInv

\* The cutting begins with nothing cut.
LEMMA ParseCut ==
    ASSUME Trimmed, ReadInv, CutInv, Parse
    PROVE  CutInv'
<1>1. /\ chunks = <<>> /\ chunks' = <<>> /\ paragraph' = <<>> /\ blocks' = Flush
      /\ cut' = [block |-> 1, next |-> 1, end |-> 0, current |-> <<>>]
      /\ status' \in {"no_extractable_text", "too_many_pages", "splitting"}
      /\ status' = "splitting" => Flush # <<>>
  BY DEF Parse, CutInv
<1>2. ReadInv'
  BY ParseStep
<1>3. PICK B : B = blocks'
  OBVIOUS
<1>4. B \in Seq(Blocks)
  BY <1>2, <1>3 DEF ReadInv
<1>5. <<>> \in Seq(Blocks) /\ <<>> \in Seq(Char)
  OBVIOUS
<1>6. cut' \in [block : Nat, next : Nat, end : Nat, current : Seq(Char)]
  BY <1>1, <1>5
<1>7. ASSUME status' = "splitting"
      PROVE  Cutting(cut.block, cut.next, cut.end, cut.current, chunks)'
  <2>1. B # <<>>
    BY <1>1, <1>3, <1>7
  <2>2. Len(B) \in Nat /\ Len(B) # 0 /\ DOMAIN B = 1 .. Len(B)
    BY <1>4, <2>1, LenProperties, EmptySeq
  <2>3. 1 \in DOMAIN B
    BY <2>2
  <2>4. B[1] \in Blocks
    BY <1>4, <2>2, <2>3, ElementOfSeq
  <2>5. B[1].text \in Seq(Char)
    BY <2>4 DEF Blocks
  <2>6. Len(B[1].text) \in Nat
    BY <2>5, LenProperties
  <2>7. 1 \in 1 .. Len(B[1].text) + 1 /\ 0 \in 0 .. Len(B[1].text)
    BY <2>6
  <2>8. Letters(<<>>) = {}
    BY DEF Letters
  <2>9. Up(1, 1)' = {}
    BY DEF Up, Between
  <2>10. HoldsAll(<<>>, {})'
    BY <1>5 DEF HoldsAll, InOrder, LettersIn, Undivided
  <2>11. Cutting(1, 1, 0, <<>>, <<>>)'
    <3>1. HoldsAll(WithPiece(<<>>, 1, <<>>), Up(1, 1))'
      BY <2>9, <2>10 DEF WithPiece, HoldsAll
    <3>2. MayCut(1, 1)'
      BY DEF MayCut
    <3> QED BY <1>3, <2>3, <2>7, <2>8, <3>1, <3>2 DEF Cutting
  <2>12. /\ cut'.block = 1 /\ cut'.next = 1 /\ cut'.end = 0 /\ cut'.current = <<>>
    BY <1>1
  <2> QED BY <1>1, <2>11, <2>12 DEF Cutting, EndsAt, MayCut, WithPiece, PieceOf, Up, Between
<1> QED BY <1>1, <1>5, <1>6, <1>7 DEF CutInv

-----------------------------------------------------------------------------
(* Pages.                                                                   *)

\* Blocks with text, on pages counted from one to page p or to the one before.
Numbered(list, p) ==
    /\ p \in Nat \ {0}
    /\ \A b \in DOMAIN list : list[b].page \in 1 .. p /\ Letters(list[b].text) # {}
    /\ \A k \in 1 .. p - 1 : \E b \in DOMAIN list : list[b].page = k

PagesInv ==
    /\ Numbered(blocks, page)
    /\ paragraph # <<>> => Letters(paragraph) # {}
    /\ status \in {"splitting", "chunked"} => \A b \in DOMAIN blocks : blocks[b].page <= MaxPages

LEMMA NumberedGrows ==
    ASSUME NEW L \in Seq(Blocks), NEW p, Numbered(L, p),
           NEW b \in Blocks, b.page = p, Letters(b.text) # {}
    PROVE  Numbered(Append(L, b), p)
<1> DEFINE N == Append(L, b)
<1>1. /\ \A c \in DOMAIN N : (c \in DOMAIN L /\ N[c] = L[c]) \/ N[c] = b
      /\ \A c \in DOMAIN L : c \in DOMAIN N /\ N[c] = L[c]
  BY PlacesOfAppend
<1>2. p \in Nat \ {0} /\ b.page \in 1 .. p
  BY DEF Numbered
<1> HIDE DEF N
<1>3. \A c \in DOMAIN N : N[c].page \in 1 .. p /\ Letters(N[c].text) # {}
  BY <1>1, <1>2 DEF Numbered
<1>4. \A k \in 1 .. p - 1 : \E c \in DOMAIN N : N[c].page = k
  BY <1>1 DEF Numbered
<1> QED BY <1>2, <1>3, <1>4 DEF Numbered, N

LEMMA NextPageIs ==
    ASSUME NEW L \in Seq(Blocks), Numbered(L, page)
    PROVE  Numbered(L, NextPage(L))
<1>1. page \in Nat \ {0}
  BY DEF Numbered
<1>2. CASE L # <<>> /\ L[Len(L)].page = page
  <2>1. Len(L) \in DOMAIN L
    <3>1. Len(L) \in Nat /\ Len(L) # 0 /\ DOMAIN L = 1 .. Len(L)
      BY <1>2, LenProperties, EmptySeq
    <3> QED BY <3>1
  <2>2. NextPage(L) = page + 1
    BY <1>2 DEF NextPage
  <2>3. \A k \in 1 .. (page + 1) - 1 : k = page \/ k \in 1 .. page - 1
    BY <1>1
  <2>4. \A k \in 1 .. (page + 1) - 1 : \E b \in DOMAIN L : L[b].page = k
    BY <1>2, <2>1, <2>3 DEF Numbered
  <2>5. 1 .. page \subseteq 1 .. page + 1
    BY <1>1
  <2>6. \A b \in DOMAIN L : L[b].page \in 1 .. page + 1 /\ Letters(L[b].text) # {}
    BY <2>5 DEF Numbered
  <2>7. page + 1 \in Nat \ {0}
    BY <1>1
  <2> QED BY <2>2, <2>4, <2>6, <2>7 DEF Numbered
<1>3. CASE ~(L # <<>> /\ L[Len(L)].page = page)
  BY <1>3 DEF NextPage
<1> QED BY <1>2, <1>3

LEMMA FlushNumbered ==
    ASSUME ReadInv, PagesInv
    PROVE  Flush \in Seq(Blocks) /\ Numbered(Flush, page)
<1>1. blocks \in Seq(Blocks) /\ Numbered(blocks, page)
  BY DEF ReadInv, PagesInv
<1>2. CASE paragraph = <<>>
  BY <1>1, <1>2 DEF Flush
<1>3. CASE paragraph # <<>>
  <2>1. /\ Block(section, paragraph) \in Blocks /\ Block(section, paragraph).page = page
        /\ Block(section, paragraph).text = paragraph /\ Letters(paragraph) # {}
    BY <1>3 DEF ReadInv, PagesInv, Block, Blocks
  <2>2. Append(blocks, Block(section, paragraph)) \in Seq(Blocks)
    BY <1>1, <2>1, AppendProperties
  <2>3. Numbered(Append(blocks, Block(section, paragraph)), page)
    BY <1>1, <2>1, NumberedGrows
  <2> QED BY <1>3, <2>2, <2>3 DEF Flush
<1> QED BY <1>2, <1>3

LEMMA LineHasLetter ==
    ASSUME Trimmed, NEW l \in Lines, l.text # <<>>, NEW i \in Nat
    PROVE  Letters(CharsOf(i, l)) # {}
<1>1. l.text \in Texts \cup Titles
  BY DEF Lines
<1>2. l.text \in Seq(Kinds) /\ l.text[1] # "space"
  BY <1>1 DEF Trimmed
<1>3. 1 \in DOMAIN l.text
  <2>1. Len(l.text) \in Nat /\ Len(l.text) # 0 /\ DOMAIN l.text = 1 .. Len(l.text)
    BY <1>2, LenProperties, EmptySeq
  <2> QED BY <2>1
<1>4. l.text[1] \in Kinds
  BY <1>2, <1>3, ElementOfSeq
<1>5. 1 \in DOMAIN CharsOf(i, l) /\ CharsOf(i, l)[1].kind = l.text[1]
  BY <1>3 DEF CharsOf
<1>6. ~IsBlank(CharsOf(i, l)[1])
  BY <1>2, <1>4, <1>5 DEF IsBlank, Kinds
<1> QED BY <1>5, <1>6 DEF Letters

LEMMA PagesRead ==
    ASSUME Trimmed, ReadInv, PagesInv, ReadLine
    PROVE  PagesInv'
<1>1. PICK l \in Lines :
         LET i == Len(source) + 1
         IN  \/ l.level > 0 /\ Heading(i, l)
             \/ l.level = 0 /\ l.text = <<>> /\ BlankLine
             \/ l.level = 0 /\ l.text # <<>> /\ TextLine(i, l)
  BY DEF ReadLine
<1>2. status' = "reading"
  BY DEF ReadLine
<1>3. PICK base, p : base = Flush /\ p = page
  OBVIOUS
<1>4. base \in Seq(Blocks) /\ Numbered(base, p) /\ p \in Nat \ {0} /\ paragraph \in Seq(Char)
  BY <1>3, FlushNumbered DEF Numbered, ReadInv
<1>5. PICK n : n = Len(source) + 1
  OBVIOUS
<1>6. n \in Nat
  BY <1>5, LenProperties DEF ReadInv
<1>7. Numbered(base, NextPage(base))
  BY <1>3, <1>4, NextPageIs
<1>8. CASE l.level > 0 /\ Heading(n, l)
  <2>1. /\ paragraph' = <<>>
        /\ page' = IF l.level = 2 THEN NextPage(base) ELSE p
        /\ blocks' = IF l.level = 1 THEN Append(base, Block(n, CharsOf(n, l))) ELSE base
    BY <1>3, <1>8 DEF Heading
  <2>2. CASE l.level = 1
    <3>1. CharsOf(n, l) \in Seq(Char) /\ Letters(CharsOf(n, l)) # {}
      BY <1>6, <1>8, CharsAre, LinesAre, LineHasLetter
    <3>2. PICK b : b = Block(n, CharsOf(n, l))
      OBVIOUS
    <3>3. b \in Blocks /\ b.page = p /\ b.text = CharsOf(n, l)
      BY <1>3, <1>4, <1>6, <3>1, <3>2 DEF Block, Blocks
    <3>4. Numbered(Append(base, b), p)
      BY <1>4, <3>1, <3>3, NumberedGrows
    <3>5. blocks' = Append(base, b) /\ page' = p
      BY <2>1, <2>2, <3>2
    <3> QED BY <1>2, <2>1, <3>4, <3>5 DEF PagesInv, Numbered
  <2>3. CASE l.level # 1
    <3>1. blocks' = base /\ page' \in {p, NextPage(base)}
      BY <2>1, <2>3
    <3>2. Numbered(base, page')
      BY <1>4, <1>7, <3>1
    <3> QED BY <1>2, <2>1, <3>1, <3>2 DEF PagesInv, Numbered
  <2> QED BY <2>2, <2>3
<1>9. CASE l.level = 0 /\ l.text = <<>> /\ BlankLine
  <2>1. paragraph' = <<>> /\ blocks' = base /\ page' \in {p, NextPage(base)}
    BY <1>3, <1>9 DEF BlankLine
  <2>2. Numbered(base, page')
    BY <1>4, <1>7, <2>1
  <2> QED BY <1>2, <2>1, <2>2 DEF PagesInv, Numbered
<1>10. CASE l.level = 0 /\ l.text # <<>> /\ TextLine(n, l)
  <2>1. /\ page' = page /\ blocks' = blocks
        /\ paragraph' = (IF paragraph = <<>> THEN <<>>
                         ELSE Append(paragraph, Separator)) \o CharsOf(n, l)
    BY <1>10 DEF TextLine
  <2>2. CharsOf(n, l) \in Seq(Char) /\ Letters(CharsOf(n, l)) # {}
    BY <1>6, <1>10, CharsAre, LineHasLetter
  <2>3. Separator \in Char
    BY DEF Separator, Char, Kinds
  <2>4. PICK start : start = IF paragraph = <<>> THEN <<>> ELSE Append(paragraph, Separator)
    OBVIOUS
  <2>5. start \in Seq(Char)
    BY <1>4, <2>3, <2>4, AppendProperties
  <2>6. Letters(start \o CharsOf(n, l)) = Letters(start) \cup Letters(CharsOf(n, l))
    BY <2>2, <2>5, LettersOfConcat
  <2>7. PICK j : j = paragraph'
    OBVIOUS
  <2>8. Letters(j) # {}
    BY <2>1, <2>2, <2>4, <2>6, <2>7
  <2>9. Letters(paragraph)' # {}
    BY <2>7, <2>8 DEF Letters
  <2> QED BY <1>2, <2>1, <2>9 DEF PagesInv, Numbered
<1> QED BY <1>1, <1>5, <1>8, <1>9, <1>10

LEMMA PagesParse ==
    ASSUME Trimmed, ReadInv, PagesInv, Parse
    PROVE  PagesInv'
<1>1. PICK list, p : list = Flush /\ p = page
  OBVIOUS
<1>2. /\ blocks' = list /\ paragraph' = <<>> /\ page' = p
      /\ status' \in {"splitting", "chunked"} => ~(list[Len(list)].page > MaxPages) /\ list # <<>>
  BY <1>1 DEF Parse
<1>3. list \in Seq(Blocks) /\ Numbered(list, p)
  BY <1>1, FlushNumbered
<1>4. \A b \in DOMAIN list : list[b].page <= list[Len(list)].page /\ list[b].page \in Nat
  <2>1. OnPages(list)
    BY <1>1 DEF ReadInv
  <2> QED BY <1>3, <2>1 DEF OnPages, Numbered
<1>5. ASSUME status' \in {"splitting", "chunked"}, NEW b \in DOMAIN list
      PROVE  list[b].page <= MaxPages
  <2>1. Len(list) \in DOMAIN list
    <3>1. Len(list) \in Nat /\ Len(list) # 0 /\ DOMAIN list = 1 .. Len(list)
      BY <1>2, <1>3, <1>5, LenProperties, EmptySeq
    <3> QED BY <3>1
  <2>2. list[Len(list)].page \in Nat /\ MaxPages \in Nat
    BY <1>4, <2>1 DEF Trimmed
  <2> QED BY <1>2, <1>4, <1>5, <2>2
<1>6. Numbered(blocks, page)'
  BY <1>2, <1>3 DEF Numbered
<1>7. (status \in {"splitting", "chunked"} => \A b \in DOMAIN blocks : blocks[b].page <= MaxPages)'
  BY <1>2, <1>5
<1>8. (paragraph # <<>> => Letters(paragraph) # {})'
  BY <1>2
<1> QED BY <1>6, <1>7, <1>8, Zenon DEF PagesInv

LEMMA PagesStay ==
    ASSUME PagesInv, UNCHANGED <<blocks, page, paragraph>>,
           status' \in {"splitting", "chunked"} => status \in {"splitting", "chunked"}
    PROVE  PagesInv'
<1>1. PICK list, p, t : list = blocks /\ p = page /\ t = paragraph
  OBVIOUS
<1>2. Numbered(list, p) /\ (t # <<>> => Letters(t) # {})
  BY <1>1 DEF PagesInv
<1>3. blocks' = list /\ page' = p /\ paragraph' = t
  BY <1>1
<1>4. Numbered(blocks, page)'
  BY <1>2, <1>3 DEF Numbered
<1>5. (paragraph # <<>> => Letters(paragraph) # {})'
  BY <1>2, <1>3 DEF Letters
<1>6. (status \in {"splitting", "chunked"} => \A b \in DOMAIN blocks : blocks[b].page <= MaxPages)'
  <2>1. status \in {"splitting", "chunked"} => \A b \in DOMAIN list : list[b].page <= MaxPages
    BY <1>1 DEF PagesInv
  <2> QED BY <1>3, <2>1
<1> QED BY <1>4, <1>5, <1>6, Zenon DEF PagesInv

\* A block has letters, and they are in chunks of its page.
LEMMA PagesKept ==
    ASSUME Trimmed, ReadInv, PagesInv, paragraph = <<>>, status = "chunked",
           LettersIn(chunks) = Written, \A c \in DOMAIN chunks : SomeOfBlock(chunks[c]),
           NEW c \in DOMAIN chunks
    PROVE  /\ chunks[c].page \in 1 .. MaxPages
           /\ \A n \in 1 .. chunks[c].page : \E d \in DOMAIN chunks : chunks[d].page = n
<1>1. PICK b \in DOMAIN blocks : chunks[c].page = blocks[b].page
  BY DEF SomeOfBlock
<1>2. /\ blocks[b].page \in 1 .. page /\ blocks[b].page <= MaxPages
      /\ page \in Nat \ {0} /\ MaxPages \in Nat
  BY DEF PagesInv, Numbered, Trimmed
<1>3. Gathered(blocks)
  BY DEF ReadInv, Flush
<1>4. ASSUME NEW n \in 1 .. chunks[c].page
      PROVE  \E d \in DOMAIN chunks : chunks[d].page = n
  <2>1. PICK i \in DOMAIN blocks : blocks[i].page = n
    <3>1. n = blocks[b].page \/ n \in 1 .. page - 1
      BY <1>1, <1>2
    <3> QED BY <3>1 DEF PagesInv, Numbered
  <2>2. PICK x : x \in Letters(blocks[i].text)
    BY DEF PagesInv, Numbered
  <2>3. x \in Written /\ x.line \in Nat
    <3>1. x \in Written
      BY <2>2, BlocksAre
    <3>2. x.line \in 1 .. Len(source) /\ Len(source) \in Nat
      BY <3>1, WrittenAre, LenProperties DEF ReadInv
    <3> QED BY <3>1, <3>2
  <2>4. PICK d \in DOMAIN chunks : x \in Letters(chunks[d].text)
    BY <2>3 DEF LettersIn
  <2>5. PICK j \in DOMAIN blocks : chunks[d].page = blocks[j].page /\ x \in Letters(blocks[j].text)
    BY <2>4 DEF SomeOfBlock
  <2>6. ~Breaks(x.line, x.line)
    <3>1. x.line + 1 .. x.line = {}
      BY <2>3
    <3> QED BY <3>1 DEF Breaks
  <2>7. blocks[i].page = blocks[j].page
    <3>1. x.line <= x.line
      BY <2>3
    <3> QED BY <1>3, <2>2, <2>5, <2>6, <3>1 DEF Gathered
  <2> QED BY <2>1, <2>5, <2>7
<1>5. chunks[c].page \in 1 .. MaxPages
  BY <1>1, <1>2
<1> QED BY <1>4, <1>5

-----------------------------------------------------------------------------
(* The whole.                                                               *)
TextInv == ReadInv /\ CutInv /\ PagesInv

LEMMA TextInit ==
    ASSUME Trimmed, Init
    PROVE  TextInv
<1>1. /\ media \in {"markdown", "text"}
      /\ source = <<>> /\ blocks = <<>> /\ paragraph = <<>> /\ chunks = <<>>
      /\ page = 1 /\ section = 0
      /\ cut = [block |-> 1, next |-> 1, end |-> 0, current |-> <<>>]
      /\ status = "reading"
  BY DEF Init, None
<1>2. /\ source \in Seq(Lines) /\ blocks \in Seq(Blocks) /\ paragraph \in Seq(Char)
      /\ chunks \in Seq(Blocks) /\ page \in Nat /\ section \in Nat /\ Len(source) = 0
      /\ DOMAIN source = {} /\ <<>> \in Seq(Char)
  BY <1>1
<1>3. Written = {}
  BY <1>2 DEF Written
<1>4. Flush = <<>> /\ DOMAIN Flush = {}
  BY <1>1 DEF Flush
<1>5. Gathered(Flush) /\ OnPages(Flush)
  BY <1>3, <1>4 DEF Gathered, OnPages, InOrder, LettersIn
<1>6. StandsUnder(Len(source), section)
  BY <1>1, <1>2 DEF StandsUnder, None
<1>7. cut \in [block : Nat, next : Nat, end : Nat, current : Seq(Char)]
  BY <1>1, <1>2
<1>8. Numbered(blocks, page)
  <2>1. 1 .. page - 1 = {}
    BY <1>1
  <2> QED BY <1>1, <2>1 DEF Numbered
<1> QED BY <1>1, <1>2, <1>5, <1>6, <1>7, <1>8 DEF TextInv, ReadInv, CutInv, PagesInv

LEMMA TextStep ==
    ASSUME Trimmed, TextInv, [Next]_vars
    PROVE  TextInv'
<1>1. ReadInv /\ CutInv /\ PagesInv
  BY DEF TextInv
<1>2. CASE ReadLine
  BY <1>1, <1>2, ReadStep, ReadCut, PagesRead DEF TextInv
<1>3. CASE Parse
  BY <1>1, <1>3, ParseStep, ParseCut, PagesParse DEF TextInv
<1>4. ASSUME Sentence \/ Word \/ EndOfSentence \/ EndOfBlock
      PROVE  ReadInv' /\ PagesInv'
  <2>1. UNCHANGED <<media, source, blocks, page, section, paragraph>> /\ status = "splitting"
    BY <1>4 DEF Sentence, Word, EndOfSentence, EndOfBlock
  <2> QED BY <1>1, <2>1, ReadStays, PagesStay
<1>5. CASE Sentence
  BY <1>1, <1>4, <1>5, SentenceStep DEF TextInv
<1>6. CASE Word
  BY <1>1, <1>4, <1>6, WordStep DEF TextInv
<1>7. CASE EndOfSentence
  BY <1>1, <1>4, <1>7, EndOfSentenceStep DEF TextInv
<1>8. CASE EndOfBlock
  BY <1>1, <1>4, <1>8, EndOfBlockStep DEF TextInv
<1>9. CASE UNCHANGED vars
  <2>1. UNCHANGED <<media, source, blocks, page, section, paragraph, chunks, cut, status>>
    BY <1>9 DEF vars
  <2>2. ReadInv' /\ PagesInv'
    BY <1>1, <2>1, ReadStays, PagesStay
  <2>3. PICK b, n, e, u, list : /\ b = cut.block /\ n = cut.next /\ e = cut.end /\ u = cut.current
                                /\ list = chunks
    OBVIOUS
  <2>4. ASSUME status \in {"splitting", "chunked"}
        PROVE  Cutting(cut.block, cut.next, cut.end, cut.current, chunks)'
    <3>1. Cutting(b, n, e, u, list)
      BY <1>1, <2>3, <2>4 DEF CutInv
    <3>2. Cutting(b, n, e, u, list)'
      BY <2>1, <3>1, CuttingStays
    <3> QED BY <2>1, <2>3, <3>2 DEF Cutting, EndsAt, MayCut, WithPiece, PieceOf, Up, Between
  <2>5. ASSUME status = "chunked" PROVE NothingUntil(Len(Text))'
    <3>1. NothingUntil(Len(Text))
      BY <1>1, <2>5 DEF CutInv
    <3> QED BY <2>1, <3>1 DEF NothingUntil, Text
  <2>6. CutInv'
    BY <1>1, <2>1, <2>4, <2>5 DEF CutInv
  <2> QED BY <2>2, <2>6 DEF TextInv
<1> QED BY <1>2, <1>3, <1>5, <1>6, <1>7, <1>8, <1>9 DEF Next

\* When all is cut, the chunks are the text.
LEMMA TextKept ==
    ASSUME Trimmed, TextInv
    PROVE  SourceIsKept
<1> SUFFICES ASSUME status = "chunked"
             PROVE  /\ InOrder(chunks) /\ LettersIn(chunks) = Written
                    /\ \A c \in DOMAIN chunks :
                          /\ Len(chunks[c].text) \in 1 .. MaxChars
                          /\ \A x \in Letters(chunks[c].text) : StandsUnder(x.line, chunks[c].section)
                          /\ chunks[c].page \in 1 .. MaxPages
                          /\ \A n \in 1 .. chunks[c].page :
                                \E d \in DOMAIN chunks : chunks[d].page = n
                    /\ \A c, d \in DOMAIN chunks :
                          \A x \in Letters(chunks[c].text), y \in Letters(chunks[d].text) :
                             /\ x.line <= y.line =>
                                   (chunks[c].page = chunks[d].page <=> ~Breaks(x.line, y.line))
                             /\ x.line = y.line /\ y.at = x.at + 1 /\ c # d =>
                                   LongWordAt(x.line, x.at)
  BY DEF SourceIsKept
<1>1. PICK b, n, u, t : b = cut.block /\ n = cut.next /\ u = cut.current /\ t = blocks[b].text
  OBVIOUS
<1>2. /\ ReadInv /\ paragraph = <<>> /\ cut.end = 0 /\ b = Len(blocks)
      /\ Cutting(b, n, 0, u, chunks) /\ \A q \in n .. Len(t) : IsBlank(t[q])
  <2>1. CutInv /\ ReadInv
    BY DEF TextInv
  <2>2. /\ paragraph = <<>> /\ cut.end = 0 /\ b = Len(blocks)
        /\ Cutting(cut.block, cut.next, cut.end, cut.current, chunks) /\ NothingUntil(Len(Text))
    BY <1>1, <2>1 DEF CutInv
  <2>3. Cutting(b, n, 0, u, chunks)
    BY <1>1, <2>2
  <2> QED BY <1>1, <2>1, <2>2, <2>3 DEF NothingUntil, Text
<1>3. Flush = blocks /\ Gathered(blocks)
  BY <1>2 DEF ReadInv, Flush
<1>4. b \in DOMAIN blocks /\ n \in 1 .. Len(t) + 1 /\ HoldsAll(chunks, Up(b, n))
  <2>1. u = <<>>
    BY <1>2 DEF Cutting
  <2> QED BY <1>1, <1>2, <2>1 DEF Cutting, WithPiece
<1>5. Up(b, n) = Written
  <2>1. Len(t) \in Nat
    BY <1>1, <1>2, <1>4, BlocksAre
  <2>2. n \in Nat \ {0} /\ Len(t) + 1 \in Nat /\ n <= Len(t) + 1 /\ (Len(t) + 1) - 1 = Len(t)
    BY <1>4, <2>1
  <2>3. Between(b, n, Len(t) + 1) = {}
    BY <1>1, <1>2, <2>2 DEF Between
  <2>4. Up(b, Len(t) + 1) = Up(b, n) \cup Between(b, n, Len(t) + 1)
    BY <2>2, UpGrows
  <2>5. Up(b, Len(t) + 1) = LettersIn(blocks)
    BY <1>1, <1>2, <1>4, UpToTheEnd
  <2> QED BY <1>3, <2>3, <2>4, <2>5 DEF Gathered
<1>6. /\ InOrder(chunks) /\ LettersIn(chunks) = Written /\ Undivided(chunks)
      /\ \A c \in DOMAIN chunks : SomeOfBlock(chunks[c])
  BY <1>4, <1>5 DEF HoldsAll
<1>7. ASSUME NEW c \in DOMAIN chunks
      PROVE  /\ Len(chunks[c].text) \in 1 .. MaxChars
             /\ \A x \in Letters(chunks[c].text) : StandsUnder(x.line, chunks[c].section)
             /\ chunks[c].page \in 1 .. MaxPages
             /\ \A k \in 1 .. chunks[c].page : \E d \in DOMAIN chunks : chunks[d].page = k
  <2>1. PagesInv
    BY DEF TextInv
  <2> QED BY <1>2, <1>3, <1>6, <2>1, PagesKept DEF SomeOfBlock, Gathered
<1>8. ASSUME NEW c \in DOMAIN chunks, NEW d \in DOMAIN chunks,
             NEW x \in Letters(chunks[c].text), NEW y \in Letters(chunks[d].text)
      PROVE  /\ x.line <= y.line =>
                   (chunks[c].page = chunks[d].page <=> ~Breaks(x.line, y.line))
             /\ x.line = y.line /\ y.at = x.at + 1 /\ c # d => LongWordAt(x.line, x.at)
  <2>1. PICK i \in DOMAIN blocks : chunks[c].page = blocks[i].page /\ x \in Letters(blocks[i].text)
    BY <1>6 DEF SomeOfBlock
  <2>2. PICK j \in DOMAIN blocks : chunks[d].page = blocks[j].page /\ y \in Letters(blocks[j].text)
    BY <1>6 DEF SomeOfBlock
  <2>3. x.line <= y.line => (blocks[i].page = blocks[j].page <=> ~Breaks(x.line, y.line))
    BY <1>3, <2>1, <2>2 DEF Gathered
  <2>4. c # d /\ FollowsOn(x, y) => LongWordAt(x.line, x.at)
    BY <1>6 DEF Undivided
  <2> QED BY <2>1, <2>2, <2>3, <2>4 DEF FollowsOn
<1> QED BY <1>6, <1>7, <1>8

(* Any document whose cutting ends is kept whole: every character of it is  *)
(* in one chunk, in order, under its section and on its page.               *)
THEOREM SourceIsAlwaysKept ==
    ASSUME Trimmed
    PROVE  Spec => []SourceIsKept
<1>1. Init => TextInv
  BY TextInit
<1>2. TextInv /\ [Next]_vars => TextInv'
  BY TextStep
<1>3. TextInv => SourceIsKept
  BY TextKept
<1> QED BY <1>1, <1>2, <1>3, PTL DEF Spec
=============================================================================
