---------------------------- MODULE PagesProofs ----------------------------
(***************************************************************************)
(* The parsers of Pages, for every page the site can produce: whatever its *)
(* texts are and however long they are.  A parser that loops is a          *)
(* recursive function in the model; RecursionExists shows that there is a  *)
(* function that takes the steps its definition asks for, StrongInduction  *)
(* goes through them.                                                      *)
(***************************************************************************)
EXTENDS Pages, SequenceTheorems, FiniteSetTheorems, WellFoundedInduction, TLAPS

\* The least of a set.
LEMMA MinIs ==
    ASSUME NEW S \in SUBSET Int, NEW x \in S, \A y \in S : x <= y
    PROVE  Min(S) = x
<1>1. \A z \in S : (\A y \in S : z <= y) => z = x
  OBVIOUS
<1> QED BY <1>1 DEF Min

\* The greatest of a set.
LEMMA MaxIs ==
    ASSUME NEW S \in SUBSET Int, NEW x \in S, \A y \in S : x >= y
    PROVE  Max(S) = x
<1>1. \A z \in S : (\A y \in S : z >= y) => z = x
  OBVIOUS
<1> QED BY <1>1 DEF Max

\* A part of a text, read at its place.
LEMMA SliceIs ==
    ASSUME NEW S, NEW text \in Seq(S), NEW part \in Seq(S), NEW p \in Nat,
           p + Len(part) <= Len(text), \A k \in 1..Len(part) : text[p + k] = part[k],
           NEW from, NEW to, from = p + 1, to = p + Len(part)
    PROVE  SubSeq(text, from, to) = part
<1> DEFINE n == Len(part)
           slice == SubSeq(text, from, to)
<1>1. n \in Nat /\ Len(text) \in Nat /\ from \in Int /\ to \in Int
  OBVIOUS
<1>2. \A k \in from..to : text[k] \in S
  BY <1>1
<1>3. slice \in Seq(S) /\ Len(slice) = n
  BY <1>1, <1>2, SubSeqProperties
<1>4. \A k \in 1..n : slice[k] = text[p + k]
  <2> TAKE k \in 1..n
  <2>1. k \in 1..(to - from + 1) /\ from + k - 1 = p + k
    BY <1>1
  <2> QED BY <2>1
<1> HIDE DEF slice
<1>5. slice = part
  <2>1. \A k \in 1..n : slice[k] = part[k]
    BY <1>4
  <2> QED BY <1>3, <2>1, SeqEqual
<1> QED BY <1>5 DEF slice

(***************************************************************************)
(* Trimming                                                                *)
(***************************************************************************)
\* A text from its first character that is not cut.
LEMMA TrimLeftIs ==
    ASSUME NEW S, NEW text \in Seq(S), NEW cut, NEW k \in 1..Len(text),
           text[k] \notin cut, \A j \in 1..(k - 1) : text[j] \in cut
    PROVE  TrimLeft(text, cut) = SubSeq(text, k, Len(text))
<1> DEFINE kept == {j \in DOMAIN text : text[j] \notin cut}
<1>1. DOMAIN text = 1..Len(text) /\ Len(text) \in Nat
  OBVIOUS
<1>2. k \in kept /\ kept \in SUBSET Int /\ \A j \in kept : k <= j
  BY <1>1
<1>3. Min(kept) = k
  BY <1>2, MinIs
<1> QED BY <1>2, <1>3 DEF TrimLeft

\* A text up to its last character that is not cut.
LEMMA TrimRightIs ==
    ASSUME NEW S, NEW text \in Seq(S), NEW cut, NEW k \in 1..Len(text),
           text[k] \notin cut, \A j \in (k + 1)..Len(text) : text[j] \in cut
    PROVE  TrimRight(text, cut) = SubSeq(text, 1, k)
<1> DEFINE kept == {j \in DOMAIN text : text[j] \notin cut}
<1>1. DOMAIN text = 1..Len(text) /\ Len(text) \in Nat
  OBVIOUS
<1>2. k \in kept /\ kept \in SUBSET Int /\ \A j \in kept : k >= j
  BY <1>1
<1>3. Max(kept) = k
  BY <1>2, MaxIs
<1> QED BY <1>2, <1>3 DEF TrimRight

\* A text from its first character to its last that is no space.
LEMMA TrimSpaceIs ==
    ASSUME NEW S, NEW text \in Seq(S), NEW from \in 1..Len(text), NEW to \in from..Len(text),
           text[from] # Space, text[to] # Space,
           \A j \in 1..(from - 1) : text[j] = Space,
           \A j \in (to + 1)..Len(text) : text[j] = Space
    PROVE  TrimSpace(text) = SubSeq(text, from, to)
<1>1. TrimLeft(text, {Space}) = SubSeq(text, from, Len(text))
  <2>1. text[from] \notin {Space} /\ \A j \in 1..(from - 1) : text[j] \in {Space}
    OBVIOUS
  <2> QED BY <2>1, TrimLeftIs
<1> DEFINE rest == SubSeq(text, from, Len(text))
<1>2. /\ rest \in Seq(S) /\ Len(rest) = Len(text) - from + 1
      /\ \A j \in 1..Len(rest) : rest[j] = text[from + j - 1]
  BY SubSeqProperties
<1>3. to - from + 1 \in 1..Len(rest) /\ rest[to - from + 1] = text[to]
  <2>1. to - from + 1 \in 1..Len(rest) /\ from + (to - from + 1) - 1 = to
    BY <1>2
  <2> QED BY <1>2, <2>1
<1>4. \A j \in ((to - from + 1) + 1)..Len(rest) : rest[j] = Space
  <2> TAKE j \in ((to - from + 1) + 1)..Len(rest)
  <2>1. j \in 1..Len(rest) /\ from + j - 1 \in (to + 1)..Len(text)
    BY <1>2
  <2> QED BY <1>2, <2>1
<1>5. TrimRight(rest, {Space}) = SubSeq(rest, 1, to - from + 1)
  <2> HIDE DEF rest
  <2>1. rest[to - from + 1] \notin {Space}
    BY <1>3
  <2>2. \A j \in ((to - from + 1) + 1)..Len(rest) : rest[j] \in {Space}
    BY <1>4
  <2> QED BY <1>2, <1>3, <2>1, <2>2, TrimRightIs
<1>6. SubSeq(rest, 1, to - from + 1) = SubSeq(text, from, to)
  <2> DEFINE n == to - from + 1
             a == SubSeq(rest, 1, n)
             b == SubSeq(text, from, to)
  <2>1. n \in 1..Len(rest) /\ \A j \in 1..n : rest[j] = text[from + j - 1]
    BY <1>2, <1>3
  <2>2. b \in Seq(S) /\ Len(b) = n /\ \A j \in 1..n : b[j] = text[from + j - 1]
    BY SubSeqProperties
  <2> HIDE DEF rest, n
  <2>3. \A j \in 1..Len(b) : rest[0 + j] = b[j]
    BY <2>1, <2>2
  <2>4. rest \in Seq(S) /\ 0 + Len(b) <= Len(rest) /\ 1 = 0 + 1 /\ n = 0 + Len(b)
    BY <1>2, <2>1, <2>2
  <2> HIDE DEF b
  <2>5. a = b
    BY <2>2, <2>3, <2>4, SliceIs
  <2> QED BY <2>5 DEF b, n
<1> QED BY <1>1, <1>5, <1>6 DEF TrimSpace

\* Nothing is trimmed from a text that neither starts nor ends with a space.
LEMMA TrimmedStays ==
    ASSUME NEW S, NEW text \in Seq(S), Trimmed(text)
    PROVE  TrimSpace(text) = text
<1>1. Len(text) \in Nat \ {0} /\ text[1] # Space /\ text[Len(text)] # Space
  BY DEF Trimmed
<1>2. TrimSpace(text) = SubSeq(text, 1, Len(text))
  BY <1>1, TrimSpaceIs
<1> QED BY <1>2, SubSeqFull

(***************************************************************************)
(* Suffixes                                                                *)
(***************************************************************************)
\* What a suffix is, place by place.
LEMMA SuffixIs ==
    ASSUME NEW S, NEW s \in Seq(S), NEW t \in Seq(S)
    PROVE  IsSuffix(s, t) <=>
             Len(s) <= Len(t) /\ \A k \in 1..Len(s) : s[k] = t[Len(t) - Len(s) + k]
<1> DEFINE r == Reverse(s)
           q == Reverse(t)
           m == Len(s)
<1>1. m \in Nat /\ Len(t) \in Nat
  OBVIOUS
<1>2. r \in Seq(S) /\ Len(r) = m /\ \A k \in 1..m : r[k] = s[m - k + 1]
  BY DEF Reverse
<1>3. q \in Seq(S) /\ Len(q) = Len(t) /\ \A k \in 1..Len(t) : q[k] = t[Len(t) - k + 1]
  BY DEF Reverse
<1> HIDE DEF r, q
<1>4. ASSUME m <= Len(t)
      PROVE  SubSeq(r, 1, m) = SubSeq(q, 1, m) <=> \A k \in 1..m : r[k] = q[k]
  BY <1>1, <1>2, <1>3, <1>4, SubSeqProperties, SeqEqual
<1>5. ASSUME m <= Len(t)
      PROVE  (\A k \in 1..m : r[k] = q[k]) <=> \A k \in 1..m : s[k] = t[Len(t) - m + k]
  <2>1. ASSUME \A k \in 1..m : r[k] = q[k], NEW k \in 1..m PROVE s[k] = t[Len(t) - m + k]
    <3>1. m - k + 1 \in 1..m /\ r[m - k + 1] = q[m - k + 1]
      BY <1>1, <2>1
    <3>2. r[m - k + 1] = s[k] /\ q[m - k + 1] = t[Len(t) - m + k]
      BY <1>1, <1>2, <1>3, <1>5, <3>1, SMTT(30)
    <3> QED BY <3>1, <3>2
  <2>2. ASSUME \A k \in 1..m : s[k] = t[Len(t) - m + k], NEW k \in 1..m PROVE r[k] = q[k]
    <3>1. m - k + 1 \in 1..m /\ s[m - k + 1] = t[Len(t) - m + (m - k + 1)]
      BY <1>1, <2>2
    <3>2. k \in 1..Len(t) /\ Len(t) - m + (m - k + 1) = Len(t) - k + 1
      BY <1>1, <1>5, <2>2
    <3> QED BY <1>2, <1>3, <3>1, <3>2
  <2> QED BY <2>1, <2>2
<1> QED BY <1>2, <1>3, <1>4, <1>5 DEF IsSuffix, IsPrefix, r, q

(***************************************************************************)
(* Parts of a text                                                         *)
(***************************************************************************)
\* What a part of a text has at each place.
LEMMA SliceReads ==
    ASSUME NEW S, NEW text \in Seq(S), NEW from \in 1..Len(text), NEW to \in from..Len(text),
           NEW n, n = to - from + 1
    PROVE  /\ SubSeq(text, from, to) \in Seq(S) /\ Len(SubSeq(text, from, to)) = n
           /\ \A k \in 1..n : SubSeq(text, from, to)[k] = text[from - 1 + k]
<1>1. from \in Int /\ to \in Int /\ from <= to /\ \A k \in from..to : text[k] \in S
  OBVIOUS
<1>2. /\ SubSeq(text, from, to) \in Seq(S) /\ Len(SubSeq(text, from, to)) = n
      /\ \A k \in 1..n : SubSeq(text, from, to)[k] = text[from + k - 1]
  BY <1>1, SubSeqProperties
<1>3. \A k \in 1..n : from + k - 1 = from - 1 + k
  BY <1>1
<1> QED BY <1>2, <1>3

\* What two texts put together have at each place.
LEMMA PairIs ==
    ASSUME NEW S, NEW a \in Seq(S), NEW b \in Seq(S), NEW n, n = Len(a)
    PROVE  /\ n \in Nat /\ Len(b) \in Nat
           /\ a \o b \in Seq(S) /\ Len(a \o b) = n + Len(b)
           /\ \A k \in 1..n : (a \o b)[k] = a[k]
           /\ \A k \in 1..Len(b) : (a \o b)[n + k] = b[k]
<1>1. n \in Nat /\ Len(b) \in Nat
  OBVIOUS
<1>2. /\ a \o b \in Seq(S) /\ Len(a \o b) = n + Len(b)
      /\ \A k \in 1..n + Len(b) : (a \o b)[k] = IF k <= n THEN a[k] ELSE b[k - n]
  BY ConcatProperties
<1>3. ASSUME NEW k \in 1..n PROVE (a \o b)[k] = a[k]
  <2>1. k \in 1..n + Len(b) /\ k <= n
    BY <1>1
  <2> QED BY <1>2, <2>1
<1>4. ASSUME NEW k \in 1..Len(b) PROVE (a \o b)[n + k] = b[k]
  <2>1. n + k \in 1..n + Len(b) /\ ~(n + k <= n) /\ (n + k) - n = k
    BY <1>1
  <2> QED BY <1>2, <2>1
<1> QED BY <1>1, <1>2, <1>3, <1>4

\* Three texts put together are found at their places.
LEMMA PartsAre ==
    ASSUME NEW S, NEW a \in Seq(S), NEW b \in Seq(S), NEW c \in Seq(S),
           NEW n, NEW m, n = Len(a), m = n + Len(b), NEW text, text = (a \o b) \o c
    PROVE  /\ n \in Nat /\ m \in Nat /\ n <= m /\ m <= Len(text)
           /\ text \in Seq(S) /\ Len(text) = m + Len(c)
           /\ \A k \in 1..n : text[k] = a[k]
           /\ \A k \in 1..Len(b) : text[n + k] = b[k]
           /\ \A k \in 1..Len(c) : text[m + k] = c[k]
           /\ SubSeq(text, 1, n) = a
           /\ SubSeq(text, n + 1, m) = b
           /\ SubSeq(text, m + 1, Len(text)) = c
<1> DEFINE ab == a \o b
<1>1. /\ n \in Nat /\ Len(b) \in Nat /\ ab \in Seq(S) /\ Len(ab) = n + Len(b)
      /\ \A k \in 1..n : ab[k] = a[k]
      /\ \A k \in 1..Len(b) : ab[n + k] = b[k]
  BY PairIs
<1> HIDE DEF ab
<1>2. text = ab \o c
  BY DEF ab
<1>3. m = Len(ab) /\ ab \in Seq(S) /\ m \in Nat /\ n <= m
  BY <1>1
<1>4. /\ Len(c) \in Nat /\ ab \o c \in Seq(S) /\ Len(ab \o c) = m + Len(c)
      /\ \A k \in 1..m : (ab \o c)[k] = ab[k]
      /\ \A k \in 1..Len(c) : (ab \o c)[m + k] = c[k]
  BY ONLY <1>3, c \in Seq(S), PairIs
<1>5. /\ text \in Seq(S) /\ Len(text) = m + Len(c)
      /\ \A k \in 1..m : text[k] = ab[k]
      /\ \A k \in 1..Len(c) : text[m + k] = c[k]
  BY <1>2, <1>4
<1>6. \A k \in 1..n : text[k] = a[k]
  BY <1>1, <1>3, <1>5
<1>7. \A k \in 1..Len(b) : text[n + k] = b[k]
  <2> TAKE k \in 1..Len(b)
  <2>1. n + k \in 1..m
    BY <1>1
  <2> QED BY <1>1, <1>5, <2>1
<1>8. SubSeq(text, 1, n) = a
  <2>1. 0 \in Nat /\ 0 + Len(a) <= Len(text) /\ 1 = 0 + 1 /\ n = 0 + Len(a)
    BY <1>1, <1>3, <1>4, <1>5
  <2>2. \A k \in 1..Len(a) : text[0 + k] = a[k]
    <3> TAKE k \in 1..Len(a)
    <3>1. 0 + k = k
      OBVIOUS
    <3> QED BY <1>6, <3>1
  <2> QED BY <1>5, <2>1, <2>2, SliceIs
<1>9. SubSeq(text, n + 1, m) = b
  <2>1. n + Len(b) <= Len(text) /\ n + 1 = n + 1
    BY <1>1, <1>4, <1>5
  <2> QED BY <1>1, <1>5, <1>7, <2>1, SliceIs
<1>10. SubSeq(text, m + 1, Len(text)) = c
  <2>1. m + Len(c) <= Len(text) /\ m + 1 = m + 1
    BY <1>3, <1>4, <1>5
  <2> QED BY <1>3, <1>5, <2>1, SliceIs
<1>11. m <= Len(text)
  BY <1>3, <1>4, <1>5
<1> QED BY <1>1, <1>3, <1>5, <1>6, <1>7, <1>8, <1>9, <1>10, <1>11, Zenon

(***************************************************************************)
(* Induction and recursion                                                 *)
(***************************************************************************)
\* A set of natural numbers has a least one.
LEMMA LeastNatural ==
    ASSUME NEW T, T \subseteq Nat, T # {}
    PROVE  \E m \in T : \A k \in T : ~ (k < m)
<1> DEFINE R == {ss \in Nat \X Nat : ss[1] < ss[2]}
<1>1. OpToRel(<, Nat) = R
  BY DEF OpToRel
<1>2. IsWellFoundedOn(R, Nat)
  BY <1>1, NatLessThanWellFounded
<1> HIDE DEF R
<1>3. \E x \in T : \A y \in T : ~ (<<y, x>> \in R)
  BY <1>2, WFMin
<1>4. PICK m \in T : \A y \in T : ~ (<<y, m>> \in R)
  BY <1>3
<1>5. \A k \in T : ~ (k < m)
  BY <1>4 DEF R
<1> QED BY <1>4, <1>5

\* What holds of a number when it holds of all smaller ones holds of every one.
LEMMA StrongInduction ==
    ASSUME NEW T, \A n \in Nat : (\A k \in Nat : k < n => k \in T) => n \in T
    PROVE  Nat \subseteq T
<1> SUFFICES ASSUME Nat \ T # {} PROVE FALSE
  OBVIOUS
<1>1. PICK m \in Nat \ T : \A k \in Nat \ T : ~ (k < m)
  BY LeastNatural
<1> QED BY <1>1

\* A function on 0..n that is defined from its values at smaller arguments.
Stepwise(S, n, back, next) ==
    /\ \A k \in 1..n : back[k] \in 0..(k - 1)
    /\ \A k \in 1..n : \A x \in S : next[<<k, x>>] \in S

Recursive(f, S, base, n, back, next) ==
    /\ f \in [0..n -> S]
    /\ f[0] = base /\ \A k \in 1..n : f[k] = next[<<k, f[back[k]]>>]

\* There is a function that takes every step.
LEMMA RecursionExists ==
    ASSUME NEW S, NEW base \in S, NEW n \in Nat, NEW back, NEW next, Stepwise(S, n, back, next)
    PROVE  \E f : Recursive(f, S, base, n, back, next)
<1>0. /\ \A k \in 1..n : back[k] \in 0..(k - 1)
      /\ \A k \in 1..n : \A x \in S : next[<<k, x>>] \in S
  BY DEF Stepwise
<1> DEFINE Solves(f, m) ==
              /\ f \in [0..m -> S]
              /\ f[0] = base /\ \A k \in 1..m : f[k] = next[<<k, f[back[k]]>>]
           T == {m \in Nat : m <= n => \E f : Solves(f, m)}
<1>1. ASSUME NEW m \in Nat, \A k \in Nat : k < m => k \in T PROVE m \in T
  <2>1. CASE m = 0
    <3>1. Solves([k \in 0..0 |-> base], 0)
      OBVIOUS
    <3> QED BY <2>1, <3>1
  <2>2. CASE m > 0 /\ m <= n
    <3>1. m - 1 \in Nat /\ m - 1 < m /\ m - 1 <= n
      BY <2>2
    <3>2. PICK g : Solves(g, m - 1)
      BY <1>1, <3>1
    <3> DEFINE f == [k \in 0..m |-> IF k = m THEN next[<<m, g[back[m]]>>] ELSE g[k]]
    <3>3. back[m] \in 0..(m - 1) /\ m \in 1..n
      BY <1>0, <2>2
    <3>4. g[back[m]] \in S /\ g \in [0..(m - 1) -> S]
      BY <3>2, <3>3
    <3>5. f \in [0..m -> S] /\ \A k \in 0..(m - 1) : f[k] = g[k]
      <4>1. next[<<m, g[back[m]]>>] \in S
        BY <1>0, <3>3, <3>4
      <4> QED BY <3>1, <3>4, <4>1
    <3>6. f[m] = next[<<m, f[back[m]]>>]
      <4>1. f[back[m]] = g[back[m]]
        BY <3>3, <3>5
      <4>2. m \in 0..m
        BY <2>2
      <4> QED BY <4>1, <4>2
    <3>7. f[0] = base
      BY <3>1, <3>2, <3>5
    <3>8. ASSUME NEW k \in 1..m PROVE f[k] = next[<<k, f[back[k]]>>]
      <4>1. CASE k = m
        BY <3>6, <4>1
      <4>2. CASE k # m
        <5>1. k \in 1..(m - 1) /\ k \in 1..n /\ back[k] \in 0..(k - 1)
          BY <1>0, <2>2, <4>2
        <5>2. back[k] \in 0..(m - 1) /\ k \in 0..(m - 1)
          BY <5>1
        <5>3. g[k] = next[<<k, g[back[k]]>>]
          BY <3>2, <5>1
        <5> QED BY <3>5, <5>2, <5>3
      <4> QED BY <4>1, <4>2
    <3> HIDE DEF f
    <3>9. Solves(f, m)
      BY <3>5, <3>7, <3>8
    <3> QED BY <3>9
  <2>3. CASE ~(m <= n)
    BY <2>3
  <2>4. m = 0 \/ (m > 0 /\ m <= n) \/ ~(m <= n)
    OBVIOUS
  <2> HIDE DEF T
  <2> QED BY <2>1, <2>2, <2>3, <2>4
<1> HIDE DEF T
<1>2. n \in T
  BY <1>1, StrongInduction
<1>3. PICK f : Solves(f, n)
  BY <1>2 DEF T
<1> QED BY <1>3 DEF Recursive

\* A suffix that was put behind a text is cut off.
LEMMA SuffixDropped ==
    ASSUME NEW S, NEW s \in Seq(S), NEW suffix \in Seq(S)
    PROVE  TrimSuffix(s \o suffix, suffix) = s
<1>1. /\ s \o suffix \in Seq(S) /\ Len(s \o suffix) = Len(s) + Len(suffix)
      /\ \A k \in 1..Len(s) : (s \o suffix)[k] = s[k]
      /\ \A k \in 1..Len(suffix) : (s \o suffix)[Len(s) + k] = suffix[k]
  BY ConcatProperties
<1> DEFINE t == s \o suffix
<1> HIDE DEF t
<1>2. IsSuffix(suffix, t)
  <2>1. Len(t) - Len(suffix) = Len(s) /\ Len(suffix) <= Len(t)
    BY <1>1 DEF t
  <2> QED BY <1>1, <2>1, SuffixIs DEF t
<1>3. SubSeq(t, 1, Len(t) - Len(suffix)) = s
  <2>1. Len(t) - Len(suffix) = Len(s) /\ Len(s) \in Nat
    BY <1>1 DEF t
  <2>2. \A k \in 1..Len(s) : t[k] = s[k] /\ t[k] \in S
    BY <1>1 DEF t
  <2>3. SubSeq(t, 1, Len(s)) \in Seq(S) /\ Len(SubSeq(t, 1, Len(s))) = Len(s)
        /\ \A k \in 1..Len(s) : SubSeq(t, 1, Len(s))[k] = t[k]
    BY <2>1, <2>2, SubSeqProperties
  <2> QED BY <2>1, <2>2, <2>3, SeqEqual
<1> QED BY <1>2, <1>3 DEF TrimSuffix, t

\* A text without the suffix is kept.
LEMMA SuffixKept ==
    ASSUME NEW S, NEW s \in Seq(S), NEW suffix \in Seq(S), Len(s) > 0, Len(suffix) > 0,
           s[Len(s)] # suffix[Len(suffix)]
    PROVE  TrimSuffix(s, suffix) = s
<1>1. Len(suffix) \in 1..Len(suffix) /\ Len(s) - Len(suffix) + Len(suffix) = Len(s)
  OBVIOUS
<1>2. ~IsSuffix(suffix, s)
  BY <1>1, SuffixIs
<1> QED BY <1>2 DEF TrimSuffix

\* What the site puts between the parts of a text is of characters.
LEMMA Chars == {Space, "/", "seasons", "(", ")", "."} \cup DOMAIN Marks \subseteq Char
BY PagesAssumption

(***************************************************************************)
(* Series links                                                            *)
(***************************************************************************)
\* A text of more than one character without its first.
LEMMA TailIs ==
    ASSUME NEW S, NEW s \in Seq(S), Len(s) > 1
    PROVE  /\ Tail(s) \in Seq(S) /\ Len(Tail(s)) = Len(s) - 1 /\ Len(s) \in Nat
           /\ \A k \in 1..(Len(s) - 1) : Tail(s)[k] = s[k + 1]
           /\ Tail(s)[1] = s[2] /\ Tail(s)[Len(Tail(s))] = s[Len(s)]
OBVIOUS

\* Spaces around a text are trimmed.
LEMMA SpacesAround ==
    ASSUME NEW before \in Nat, NEW after \in Nat, NEW text \in Seq(Char), Trimmed(text)
    PROVE  TrimSpace(Spaces(before) \o text \o Spaces(after)) = text
<1> DEFINE left == Spaces(before)
           right == Spaces(after)
           middle == left \o text
           all == middle \o right
<1>1. /\ left \in Seq(Char) /\ Len(left) = before /\ \A k \in 1..before : left[k] = Space
      /\ right \in Seq(Char) /\ Len(right) = after /\ \A k \in 1..after : right[k] = Space
  BY Chars DEF Spaces
<1> HIDE DEF left, right
<1>2. /\ middle \in Seq(Char) /\ Len(middle) = before + Len(text) /\ Len(text) \in Nat
      /\ \A k \in 1..before : middle[k] = Space
      /\ \A k \in 1..Len(text) : middle[before + k] = text[k]
  <2>1. /\ middle \in Seq(Char) /\ Len(middle) = Len(left) + Len(text) /\ Len(text) \in Nat
        /\ \A k \in 1..Len(left) : middle[k] = left[k]
        /\ \A k \in 1..Len(text) : middle[Len(left) + k] = text[k]
    <3>1. left \in Seq(Char)
      BY <1>1
    <3> QED BY <3>1, ConcatProperties
  <2> QED BY <1>1, <2>1
<1> HIDE DEF middle
<1>3. /\ all \in Seq(Char) /\ Len(all) = before + Len(text) + after
      /\ \A k \in 1..(before + Len(text)) : all[k] = middle[k]
      /\ \A k \in 1..after : all[before + Len(text) + k] = Space
  <2>1. /\ all \in Seq(Char) /\ Len(all) = Len(middle) + Len(right)
        /\ \A k \in 1..Len(middle) : all[k] = middle[k]
        /\ \A k \in 1..Len(right) : all[Len(middle) + k] = right[k]
    <3>1. middle \in Seq(Char) /\ right \in Seq(Char)
      BY <1>1, <1>2
    <3> QED BY <3>1, ConcatProperties
  <2> QED BY <1>1, <1>2, <2>1
<1> HIDE DEF all
<1>4. Len(text) \in Nat \ {0} /\ text[1] # Space /\ text[Len(text)] # Space
  BY DEF Trimmed
<1>5. \A k \in 1..Len(text) : all[before + k] = text[k]
  BY <1>2, <1>3, <1>4
<1>6. \A k \in 1..before : all[k] = Space
  BY <1>2, <1>3, <1>4
<1>7. \A k \in ((before + Len(text)) + 1)..Len(all) : all[k] = Space
  <2> TAKE k \in ((before + Len(text)) + 1)..Len(all)
  <2>1. k - (before + Len(text)) \in 1..after
        /\ before + Len(text) + (k - (before + Len(text))) = k
    BY <1>3, <1>4
  <2> QED BY <1>3, <2>1
<1>8. TrimSpace(all) = SubSeq(all, before + 1, before + Len(text))
  <2>1. before + 1 \in 1..Len(all) /\ before + Len(text) \in (before + 1)..Len(all)
        /\ (before + 1) - 1 = before /\ 1 \in 1..Len(text) /\ Len(text) \in 1..Len(text)
    BY <1>3, <1>4
  <2>2. all[before + 1] # Space /\ all[before + Len(text)] # Space
    BY <1>4, <1>5, <2>1
  <2>3. \A k \in 1..((before + 1) - 1) : all[k] = Space
    BY <1>6, <2>1
  <2> QED BY <1>3, <1>7, <2>1, <2>2, <2>3, TrimSpaceIs
<1>9. SubSeq(all, before + 1, before + Len(text)) = text
  <2>1. \A k \in (before + 1)..(before + Len(text)) : all[k] \in Char
    BY <1>3, <1>4
  <2>2. /\ SubSeq(all, before + 1, before + Len(text)) \in Seq(Char)
        /\ Len(SubSeq(all, before + 1, before + Len(text))) = Len(text)
        /\ \A k \in 1..Len(text) :
              SubSeq(all, before + 1, before + Len(text))[k] = all[before + k]
    <3>1. before + Len(text) - (before + 1) + 1 = Len(text)
      BY <1>4
    <3>2. \A k \in 1..Len(text) : before + 1 + k - 1 = before + k
      OBVIOUS
    <3> QED BY <1>4, <2>1, <3>1, <3>2, SubSeqProperties
  <2> QED BY <1>5, <2>2, SeqEqual
<1> QED BY <1>8, <1>9 DEF all, middle, left, right

\* A text behind a slash.
LEMMA SlashFirst ==
    ASSUME NEW S, NEW s \in Seq(S), Len(s) > 0
    PROVE  IsPrefix(Slash, s) <=> s[1] = "/"
<1>1. Slash \in Seq({"/"}) /\ Len(Slash) = 1 /\ Slash[1] = "/" /\ Len(s) \in Nat
  BY DEF Slash
<1>2. /\ SubSeq(Slash, 1, 1) \in Seq({"/"} \cup S) /\ Len(SubSeq(Slash, 1, 1)) = 1
      /\ SubSeq(Slash, 1, 1)[1] = "/"
  BY <1>1, SubSeqProperties
<1>3. /\ SubSeq(s, 1, 1) \in Seq({"/"} \cup S) /\ Len(SubSeq(s, 1, 1)) = 1
      /\ SubSeq(s, 1, 1)[1] = s[1]
  BY <1>1, SubSeqProperties
<1>4. SubSeq(Slash, 1, 1) = SubSeq(s, 1, 1) <=> s[1] = "/"
  BY <1>2, <1>3, SeqEqual
<1> QED BY <1>1, <1>4 DEF IsPrefix

\* With the first slash or without it, a link starts with one.
LEMMA RootedLink ==
    ASSUME NEW link \in Seq(Char), Canonical(link), NEW start \in {link, Tail(link)},
           NEW end \in Seq(Char), end = <<>> \/ end[Len(end)] # Space
    PROVE  Trimmed(start \o end) /\ Rooted(start \o end) = link \o end
<1>1. /\ Len(link) \in Nat /\ Len(link) > 1 /\ link[1] = "/" /\ link[2] # "/"
      /\ link[2] # Space /\ link[Len(link)] # Space
  BY DEF Canonical
<1>2. /\ start \in Seq(Char) /\ Len(start) > 0 /\ start[1] # Space
      /\ start[Len(start)] # Space
  <2>1. link[1] # Space
    BY <1>1 DEF Space
  <2>2. CASE start = link
    BY <1>1, <2>1, <2>2
  <2>3. CASE start = Tail(link)
    BY <1>1, <2>3, TailIs
  <2> QED BY <2>2, <2>3
<1>3. /\ start \o end \in Seq(Char) /\ Len(start \o end) = Len(start) + Len(end)
      /\ (start \o end)[1] = start[1] /\ Len(end) \in Nat
      /\ end # <<>> => (start \o end)[Len(start) + Len(end)] = end[Len(end)]
      /\ end = <<>> => start \o end = start
  BY <1>2, ConcatProperties
<1>4. Trimmed(start \o end)
  BY <1>2, <1>3 DEF Trimmed
<1>5. IsPrefix(Slash, start \o end) <=> start[1] = "/"
  <2>1. start \o end \in Seq(Char) /\ Len(start \o end) > 0 /\ (start \o end)[1] = start[1]
    BY <1>2, <1>3
  <2> QED BY ONLY <2>1, SlashFirst
<1>6. CASE start = link
  BY <1>1, <1>4, <1>5, <1>6 DEF Rooted
<1>7. CASE start = Tail(link)
  <2>1. start[1] = link[2]
    BY <1>1, <1>7
  <2>2. Rooted(start \o end) = Slash \o (start \o end)
    BY <1>1, <1>5, <2>1 DEF Rooted
  <2>3. Slash \o (Tail(link) \o end) = (Slash \o Tail(link)) \o end
    BY <1>2, <1>7, ConcatAssociative DEF Slash
  <2>4. Slash \o Tail(link) = link
    <3>1. Slash \in Seq(Char) /\ Len(Slash) = 1 /\ Slash[1] = link[1]
      BY <1>1 DEF Slash
    <3>2. Tail(link) \in Seq(Char) /\ Len(Tail(link)) = Len(link) - 1
          /\ \A k \in 1..Len(Tail(link)) : Tail(link)[k] = link[k + 1]
      BY <1>1
    <3>3. Slash \o Tail(link) \in Seq(Char) /\ Len(Slash \o Tail(link)) = Len(link)
          /\ \A k \in 1..Len(link) : (Slash \o Tail(link))[k] = link[k]
      <4>1. /\ Slash \o Tail(link) \in Seq(Char)
            /\ Len(Slash \o Tail(link)) = Len(Slash) + Len(Tail(link))
            /\ \A k \in 1..(Len(Slash) + Len(Tail(link))) : (Slash \o Tail(link))[k] =
                   IF k <= Len(Slash) THEN Slash[k] ELSE Tail(link)[k - Len(Slash)]
        <5>1. Slash \in Seq(Char) /\ Tail(link) \in Seq(Char)
          BY <3>1, <3>2
        <5> QED BY ONLY <5>1, ConcatProperties
      <4>2. Len(link) \in Nat /\ Len(link) > 1
        BY <1>1
      <4> QED BY ONLY <3>1, <3>2, <4>1, <4>2
    <3> QED BY <3>3, SeqEqual
  <2> QED BY <1>4, <1>7, <2>2, <2>3, <2>4
<1> QED BY <1>6, <1>7

\* The seasons page and the slashes around it are cut off, and nothing else.
LEMMA LinkIsCut ==
    ASSUME NEW link \in Seq(Char), Canonical(link),
           NEW end \in {<<>>, Slash, seasonsSuffix, seasonsSuffix \o Slash}
    PROVE  TrimSuffix(TrimSuffix(TrimSuffix(link \o end, Slash), seasonsSuffix), Slash) = link
<1>0. link \in Seq(Char)
  OBVIOUS
<1>1. /\ Slash \in Seq(Char) /\ Len(Slash) = 1 /\ Slash[1] = "/"
      /\ seasonsSuffix \in Seq(Char) /\ Len(seasonsSuffix) = 2
      /\ seasonsSuffix[2] = "seasons"
  BY Chars DEF Slash, seasonsSuffix
<1>2. /\ Len(link) \in Nat /\ Len(link) > 0 /\ link[Len(link)] # "/"
      /\ ~IsSuffix(seasonsSuffix, link)
  BY DEF Canonical
<1>3. TrimSuffix(link, Slash) = link
  <2>1. Len(Slash) > 0 /\ link[Len(link)] # Slash[Len(Slash)]
    BY ONLY <1>1, <1>2
  <2> QED BY ONLY <1>0, <1>1, <1>2, <2>1, SuffixKept
<1>4. TrimSuffix(link, seasonsSuffix) = link
  BY <1>2 DEF TrimSuffix
<1>5. TrimSuffix(link \o Slash, Slash) = link
  BY ONLY <1>0, <1>1, SuffixDropped
<1>6. TrimSuffix(link \o seasonsSuffix, seasonsSuffix) = link
  BY ONLY <1>0, <1>1, SuffixDropped
<1> DEFINE page1 == link \o seasonsSuffix
<1>7. /\ page1 \in Seq(Char) /\ Len(page1) = Len(link) + Len(seasonsSuffix)
      /\ page1[Len(link) + Len(seasonsSuffix)] = seasonsSuffix[Len(seasonsSuffix)]
  <2>1. /\ page1 \in Seq(Char) /\ Len(page1) = Len(link) + Len(seasonsSuffix)
        /\ \A k \in 1..(Len(link) + Len(seasonsSuffix)) :
              page1[k] = IF k <= Len(link) THEN link[k] ELSE seasonsSuffix[k - Len(link)]
    BY ONLY <1>0, <1>1, ConcatProperties
  <2>2. /\ Len(link) + Len(seasonsSuffix) \in 1..(Len(link) + Len(seasonsSuffix))
        /\ ~(Len(link) + Len(seasonsSuffix) <= Len(link))
        /\ Len(link) + Len(seasonsSuffix) - Len(link) = Len(seasonsSuffix)
    BY ONLY <1>1, <1>2
  <2> QED BY ONLY <2>1, <2>2
<1>8. TrimSuffix(page1, Slash) = page1
  <2>1. /\ Len(page1) > 0 /\ Len(Slash) > 0
        /\ page1[Len(page1)] # Slash[Len(Slash)]
    <3> HIDE DEF page1
    <3> QED BY ONLY <1>1, <1>2, <1>7
  <2> HIDE DEF page1
  <2> QED BY ONLY <1>1, <1>7, <2>1, SuffixKept
<1>9. TrimSuffix(link \o (seasonsSuffix \o Slash), Slash) = page1
  <2>1. link \o (seasonsSuffix \o Slash) = page1 \o Slash
    <3>1. Slash \in Seq(Char) /\ seasonsSuffix \in Seq(Char)
      BY ONLY <1>1
    <3> QED BY ONLY <1>0, <3>1, ConcatAssociative, SMTT(30)
  <2>2. TrimSuffix(page1 \o Slash, Slash) = page1
    <3> HIDE DEF page1
    <3> QED BY ONLY <1>1, <1>7, SuffixDropped
  <2> QED BY <2>1, <2>2
<1>10. link \o <<>> = link
  BY ConcatEmptySeq
<1> QED BY <1>3, <1>4, <1>5, <1>6, <1>8, <1>9, <1>10

\* Every spelling of a link is reduced to it.
LEMMA LinkIsNormalized ==
    ASSUME NEW link \in Seq(Char), Canonical(link), NEW text, Spelling(text, link)
    PROVE  normalizeSeriesLink(text) = link
<1>1. PICK before \in 0..Len(text), after \in 0..Len(text), start \in {link, Tail(link)},
           end \in {<<>>, Slash, seasonsSuffix, seasonsSuffix \o Slash} :
             text = Spaces(before) \o start \o end \o Spaces(after)
  BY DEF Spelling
<1>2. end \in Seq(Char) /\ (end = <<>> \/ end[Len(end)] # Space)
  <2>1. /\ Slash \in Seq(Char) /\ Len(Slash) = 1 /\ Slash[1] = "/"
        /\ seasonsSuffix \in Seq(Char) /\ Len(seasonsSuffix) = 2
        /\ seasonsSuffix[2] = "seasons"
    BY ONLY Chars DEF Slash, seasonsSuffix
  <2>2. "/" # Space /\ "seasons" # Space
    BY ONLY TRUE DEF Space
  <2>3. seasonsSuffix \o Slash \in Seq(Char)
        /\ (seasonsSuffix \o Slash)[Len(seasonsSuffix \o Slash)] = "/"
    <3>1. seasonsSuffix \in Seq(Char) /\ Slash \in Seq(Char)
      BY ONLY <2>1
    <3>2. /\ seasonsSuffix \o Slash \in Seq(Char)
          /\ Len(seasonsSuffix \o Slash) = Len(seasonsSuffix) + Len(Slash)
          /\ \A k \in 1..(Len(seasonsSuffix) + Len(Slash)) : (seasonsSuffix \o Slash)[k] =
                IF k <= Len(seasonsSuffix) THEN seasonsSuffix[k] ELSE Slash[k - Len(seasonsSuffix)]
      BY ONLY <3>1, ConcatProperties
    <3> QED BY ONLY <2>1, <3>2
  <2>4. <<>> \in Seq(Char)
    BY ONLY EmptySeq
  <2>5. CASE end = <<>>
    BY <2>4, <2>5
  <2>6. CASE end = Slash
    BY ONLY <2>1, <2>2, <2>6
  <2>7. CASE end = seasonsSuffix
    BY ONLY <2>1, <2>2, <2>7
  <2>8. CASE end = seasonsSuffix \o Slash
    BY ONLY <2>2, <2>3, <2>8
  <2> QED BY <2>5, <2>6, <2>7, <2>8
<1>3. Trimmed(start \o end) /\ Rooted(start \o end) = link \o end
  BY <1>2, RootedLink
<1>4. start \in Seq(Char) /\ start \o end \in Seq(Char)
  <2>1. Len(link) > 1
    BY DEF Canonical
  <2>2. start \in Seq(Char)
    BY <2>1, TailIs
  <2> QED BY ONLY <1>2, <2>2, ConcatProperties
<1>5. TrimSpace(text) = start \o end
  <2>0. before \in Nat /\ after \in Nat
    <3>1. \A n : 0..n \subseteq Nat
      OBVIOUS
    <3> QED BY <3>1
  <2>1. Spaces(before) \in Seq(Char)
    BY Chars, <2>0 DEF Spaces
  <2>2. Spaces(before) \o start \o end = Spaces(before) \o (start \o end)
    <3>1. end \in Seq(Char) /\ start \in Seq(Char)
      BY ONLY <1>2, <1>4
    <3> QED BY ONLY <2>1, <3>1, ConcatAssociative, SMTT(30)
  <2>3. TrimSpace(Spaces(before) \o (start \o end) \o Spaces(after)) = start \o end
    BY ONLY <1>3, <1>4, <2>0, SpacesAround
  <2> QED BY <1>1, <2>2, <2>3
<1> QED BY <1>3, <1>5, LinkIsCut DEF normalizeSeriesLink

(***************************************************************************)
(* Episode rows                                                            *)
(***************************************************************************)
\* The values of the prefixes of a numeral.
Reads(u, digits) ==
    /\ u \in [0..Len(digits) -> Nat]
    /\ u[0] = 0 /\ \A k \in 1..Len(digits) : u[k] = 10 * u[k - 1] + digits[k]

\* The value of a numeral is the one its prefixes lead to.
LEMMA ValueReads ==
    ASSUME NEW digits \in Seq(Nat)
    PROVE  \E u : Reads(u, digits) /\ Value(digits) = u[Len(digits)]
<1> DEFINE n == Len(digits)
           back == [k \in 1..n |-> k - 1]
           next == [kx \in (1..n) \X Nat |-> 10 * kx[2] + digits[kx[1]]]
           Equation(u) == u = [k \in 0..n |-> IF k = 0 THEN 0 ELSE 10 * u[k - 1] + digits[k]]
<1>1. n \in Nat /\ \A k \in 1..n : digits[k] \in Nat
  OBVIOUS
<1> HIDE DEF n
<1>2. \A k \in 1..n : back[k] = k - 1 /\ back[k] \in 0..(k - 1)
  BY <1>1
<1>3. \A k \in 1..n : \A x \in Nat : next[<<k, x>>] = 10 * x + digits[k]
  BY <1>1
<1>4. \A k \in 1..n : \A x \in Nat : next[<<k, x>>] \in Nat
  <2> TAKE k \in 1..n
  <2> TAKE x \in Nat
  <2>1. next[<<k, x>>] = 10 * x + digits[k] /\ digits[k] \in Nat
    BY <1>1, <1>3
  <2> QED BY <2>1
<1> HIDE DEF back, next
<1>5. PICK f \in [0..n -> Nat] : f[0] = 0 /\ \A k \in 1..n : f[k] = next[<<k, f[back[k]]>>]
  <2>1. n \in Nat /\ 0 \in Nat
    BY <1>1
  <2>2. Stepwise(Nat, n, back, next)
    BY <1>2, <1>4 DEF Stepwise
  <2>3. PICK f : Recursive(f, Nat, 0, n, back, next)
    BY ONLY <2>1, <2>2, RecursionExists
  <2> QED BY <2>3 DEF Recursive
<1>6. \A k \in 1..n : f[k] = 10 * f[k - 1] + digits[k]
  <2> TAKE k \in 1..n
  <2>1. f[k] = next[<<k, f[k - 1]>>] /\ f[k - 1] \in Nat
    <3>1. back[k] = k - 1 /\ k - 1 \in 0..n
      BY <1>1, <1>2
    <3> QED BY <1>5, <3>1
  <2> QED BY <1>3, <2>1
<1>7. Equation(f)
  BY <1>1, <1>5, <1>6
<1> DEFINE u == CHOOSE u : Equation(u)
<1>8. Equation(u)
  BY <1>7
<1>9. Value(digits) = u[n]
  BY DEF Value, n
<1> HIDE DEF u
<1>10. u[0] = 0 /\ \A k \in 1..n : u[k] = 10 * u[k - 1] + digits[k]
  BY <1>1, <1>8
<1>11. \A k \in Nat : k \in 0..n => u[k] \in Nat
  <2> DEFINE T == {k \in Nat : k \in 0..n => u[k] \in Nat}
  <2>1. ASSUME NEW k \in Nat, \A j \in Nat : j < k => j \in T PROVE k \in T
    <3>1. CASE k = 0
      BY <1>10, <3>1
    <3>2. CASE k \in 1..n
      <4>1. k - 1 \in Nat /\ k - 1 \in 0..n /\ k - 1 < k
        BY <1>1, <3>2
      <4>2. u[k - 1] \in Nat
        BY <2>1, <4>1
      <4>3. u[k] = 10 * u[k - 1] + digits[k] /\ digits[k] \in Nat
        BY <1>1, <1>10, <3>2
      <4> QED BY <4>2, <4>3
    <3> QED BY <3>1, <3>2
  <2>2. Nat \subseteq T
    <3> HIDE DEF T
    <3> QED BY <2>1, StrongInduction
  <2> QED BY <2>2
<1>12. u \in [0..n -> Nat]
  BY <1>8, <1>11
<1> QED BY <1>9, <1>10, <1>12 DEF Reads, n

\* A digit more is ten times the value and the digit.
LEMMA ValueAppend ==
    ASSUME NEW s \in Seq(Nat), NEW d \in Nat
    PROVE  Value(s) \in Nat /\ Value(Append(s, d)) = 10 * Value(s) + d
<1> DEFINE t == Append(s, d)
<1>1. /\ t \in Seq(Nat) /\ Len(t) = Len(s) + 1 /\ Len(s) \in Nat
      /\ t[Len(s) + 1] = d /\ \A k \in 1..Len(s) : t[k] = s[k]
  OBVIOUS
<1> HIDE DEF t
<1>2. PICK u : Reads(u, s) /\ Value(s) = u[Len(s)]
  BY ValueReads
<1>3. PICK w : Reads(w, t) /\ Value(t) = w[Len(t)]
  BY <1>1, ValueReads
<1>4. u[Len(s)] = w[Len(s)]
  <2> DEFINE T == {k \in Nat : k <= Len(s) => u[k] = w[k]}
  <2>1. ASSUME NEW k \in Nat, \A j \in Nat : j < k => j \in T PROVE k \in T
    <3>1. CASE k = 0
      BY <1>2, <1>3, <3>1 DEF Reads
    <3>2. CASE k > 0 /\ k <= Len(s)
      <4>1. k - 1 \in Nat /\ k - 1 < k /\ k - 1 <= Len(s)
        BY <3>2
      <4>2. u[k - 1] = w[k - 1]
        BY <1>1, <2>1, <4>1
      <4>3. k \in 1..Len(s) /\ k \in 1..Len(t)
        BY <1>1, <3>2
      <4>4. u[k] = 10 * u[k - 1] + s[k] /\ w[k] = 10 * w[k - 1] + t[k]
        BY <1>2, <1>3, <4>3 DEF Reads
      <4> QED BY <1>1, <4>2, <4>3, <4>4
    <3>3. CASE ~(k <= Len(s))
      BY <3>3
    <3>4. k = 0 \/ (k > 0 /\ k <= Len(s)) \/ ~(k <= Len(s))
      OBVIOUS
    <3> HIDE DEF T
    <3> QED BY <3>1, <3>2, <3>3, <3>4
  <2>2. Len(s) \in T
    <3> HIDE DEF T
    <3> QED BY <1>1, <2>1, StrongInduction
  <2> QED BY <1>1, <2>2
<1>5. w[Len(s) + 1] = 10 * w[Len(s)] + d
  <2>1. Len(s) + 1 \in 1..Len(t) /\ Len(s) + 1 - 1 = Len(s)
    BY <1>1
  <2>2. w[Len(s) + 1] = 10 * w[Len(s) + 1 - 1] + t[Len(s) + 1]
    BY <1>3, <2>1 DEF Reads
  <2> QED BY <1>1, <2>1, <2>2
<1>6. u[Len(s)] \in Nat
  BY <1>1, <1>2 DEF Reads
<1> QED BY <1>1, <1>2, <1>3, <1>4, <1>5, <1>6 DEF t

\* The value of one digit.
LEMMA ValueOfDigit == ASSUME NEW d \in Nat PROVE Value(<<d>>) = d
<1>1. <<d>> \in Seq(Nat) /\ Len(<<d>>) = 1 /\ <<d>>[1] = d
  OBVIOUS
<1>2. PICK u : Reads(u, <<d>>) /\ Value(<<d>>) = u[1]
  BY <1>1, ValueReads
<1>3. u[1] = 10 * u[0] + d /\ u[0] = 0
  <2>1. 1 \in 1..Len(<<d>>) /\ 1 - 1 = 0
    BY <1>1
  <2> QED BY <1>1, <1>2, <2>1 DEF Reads
<1> QED BY <1>2, <1>3

\* A number is ten times its tens and its last digit.
LEMMA DivMod ==
    ASSUME NEW n \in Nat, NEW q, NEW r, q = n \div 10, r = n % 10
    PROVE  q \in Nat /\ r \in 0..9 /\ 10 * q + r = n
<1>1. q \in Nat /\ r \in 0..9
  OBVIOUS
<1> QED BY <1>1

\* A numeral stands for its number.
LEMMA NumeralIs ==
    ASSUME NEW n \in Nat
    PROVE  Numeral(n) \in Seq(0..9) /\ Numeral(n) # <<>> /\ Value(Numeral(n)) = n
<1> DEFINE S == Seq(0..9)
           back == [k \in 1..n |-> k \div 10]
           next == [kx \in (1..n) \X S |->
                      IF kx[1] < 10 THEN <<kx[1]>> ELSE Append(kx[2], kx[1] % 10)]
           Equation(f) ==
              f = [k \in 0..n |-> IF k < 10 THEN <<k>> ELSE Append(f[k \div 10], k % 10)]
<1>1. \A k \in 1..n : back[k] = k \div 10 /\ back[k] \in 0..(k - 1)
  OBVIOUS
<1>2. \A k \in 1..n : \A x \in S :
        next[<<k, x>>] = IF k < 10 THEN <<k>> ELSE Append(x, k % 10)
  OBVIOUS
<1>3. \A k \in 1..n : \A x \in S : next[<<k, x>>] \in S
  <2> TAKE k \in 1..n
  <2> TAKE x \in S
  <2>1. k < 10 => <<k>> \in S
    OBVIOUS
  <2>2. Append(x, k % 10) \in S
    <3>1. k % 10 \in 0..9
      OBVIOUS
    <3> QED BY <3>1, AppendProperties
  <2> QED BY <1>2, <2>1, <2>2
<1>4. <<0>> \in S
  OBVIOUS
<1> HIDE DEF back, next, S
<1>5. PICK f : Recursive(f, S, <<0>>, n, back, next)
  <2>1. Stepwise(S, n, back, next)
    BY <1>1, <1>3 DEF Stepwise
  <2> QED BY ONLY n \in Nat, <1>4, <2>1, RecursionExists
<1>6. Equation(f)
  <2>1. f \in [0..n -> S] /\ f[0] = <<0>> /\ \A k \in 1..n : f[k] = next[<<k, f[back[k]]>>]
    BY <1>5 DEF Recursive
  <2>2. ASSUME NEW k \in 0..n PROVE f[k] = IF k < 10 THEN <<k>> ELSE Append(f[k \div 10], k % 10)
    <3>1. CASE k = 0
      BY <2>1, <3>1
    <3>2. CASE k # 0
      <4>1. k \in 1..n /\ back[k] = k \div 10 /\ k \div 10 \in 0..n
        BY <1>1, <3>2
      <4>2. f[k] = next[<<k, f[k \div 10]>>] /\ f[k \div 10] \in S
        BY <2>1, <4>1
      <4> QED BY <1>2, <4>1, <4>2
    <3> QED BY <3>1, <3>2
  <2> QED BY <2>1, <2>2
<1> DEFINE of == CHOOSE f0 : Equation(f0)
<1>7. Equation(of)
  BY <1>6
<1>8. Numeral(n) = of[n]
  BY DEF Numeral
<1> HIDE DEF of
<1>9. \A k \in 0..n : of[k] = IF k < 10 THEN <<k>> ELSE Append(of[k \div 10], k % 10)
  BY <1>7
<1> DEFINE T == {k \in Nat : k <= n => of[k] \in Seq(0..9) /\ of[k] # <<>> /\ Value(of[k]) = k}
<1>10. ASSUME NEW k \in Nat, \A j \in Nat : j < k => j \in T PROVE k \in T
  <2>1. CASE k < 10 /\ k <= n
    <3>1. of[k] = <<k>>
      <4>1. k \in 0..n
        BY <2>1
      <4> QED BY <1>9, <2>1, <4>1
    <3>2. <<k>> \in Seq(0..9) /\ <<k>> # <<>>
      BY <2>1
    <3> QED BY <3>1, <3>2, ValueOfDigit
  <2>2. CASE ~(k < 10) /\ k <= n
    <3> DEFINE q == k \div 10
               d == k % 10
               x == of[q]
    <3>0. q = k \div 10 /\ d = k % 10
      OBVIOUS
    <3>3. of[k] = Append(x, d)
      <4>1. k \in 0..n
        BY <2>2
      <4> QED BY <1>9, <2>2, <4>1
    <3> HIDE DEF q, d
    <3>1. q \in Nat /\ d \in 0..9 /\ 10 * q + d = k /\ q < k /\ q <= n
      <4>1. q \in Nat /\ d \in 0..9 /\ 10 * q + d = k
        BY ONLY <3>0, k \in Nat, DivMod
      <4> QED BY <2>2, <4>1
    <3>2. x \in Seq(0..9) /\ Value(x) = q
      BY <1>10, <3>1
    <3>4. d \in 0..9 /\ d \in Nat /\ 10 * Value(x) + d = k
      BY <3>1, <3>2
    <3> HIDE DEF x
    <3>5. Append(x, d) \in Seq(0..9) /\ Append(x, d) # <<>>
      BY <3>2, <3>4, AppendProperties
    <3>6. x \in Seq(Nat)
      BY <3>2
    <3>7. Value(Append(x, d)) = k
      BY <3>4, <3>6, ValueAppend
    <3> QED BY <3>3, <3>5, <3>7
  <2>3. CASE ~(k <= n)
    BY <2>3
  <2> HIDE DEF T
  <2> QED BY <2>1, <2>2, <2>3
<1>11. n \in T
  <2> HIDE DEF T
  <2> QED BY <1>10, StrongInduction
<1> QED BY <1>8, <1>11

\* Three digits stand for a number below a thousand.
LEMMA DigitsAre ==
    ASSUME NEW n \in 0..999
    PROVE  Digits(n) \in Seq(0..9) /\ Len(Digits(n)) = 3 /\ Value(Digits(n)) = n
<1> DEFINE q == n \div 10
           c == n % 10
           a == n \div 100
           b == q % 10
           r == q \div 10
<1>1. /\ n \in Nat /\ n <= 999 /\ q = n \div 10 /\ c = n % 10
      /\ a = n \div 100 /\ b = q % 10 /\ r = q \div 10
  OBVIOUS
<1>2. Digits(n) = <<a, b, c>>
  BY DEF Digits
<1>3. a = r
  OBVIOUS
<1> HIDE DEF q, c, a, b, r
<1>4. q \in Nat /\ c \in 0..9 /\ 10 * q + c = n
  BY ONLY <1>1, DivMod
<1>5. r \in Nat /\ b \in 0..9 /\ 10 * r + b = q
  BY ONLY <1>1, <1>4, DivMod
<1>6. a \in 0..9
  BY ONLY <1>1, <1>3, <1>4, <1>5
<1>7. <<a, b, c>> \in Seq(0..9) /\ Len(<<a, b, c>>) = 3
  BY <1>4, <1>5, <1>6
<1>8. /\ <<a>> \in Seq(Nat) /\ <<a, b>> \in Seq(Nat)
      /\ <<a, b>> = Append(<<a>>, b) /\ <<a, b, c>> = Append(<<a, b>>, c)
  BY <1>4, <1>5, <1>6
<1>9. Value(<<a>>) = a
  BY <1>6, ValueOfDigit
<1>10. Value(<<a, b>>) = 10 * a + b
  <2>1. b \in Nat
    BY <1>5
  <2> QED BY <1>8, <1>9, <2>1, ValueAppend
<1>11. Value(<<a, b, c>>) = 10 * Value(<<a, b>>) + c
  <2>1. c \in Nat
    BY <1>4
  <2> QED BY <1>8, <2>1, ValueAppend
<1>12. 10 * Value(<<a, b>>) + c = n
  BY ONLY <1>3, <1>4, <1>5, <1>6, <1>10
<1> QED BY <1>2, <1>7, <1>11, <1>12

\* Atoi gives a number, or refuses one that is empty or too large.
LEMMA AtoiIs ==
    ASSUME NEW digits \in Seq(0..9)
    PROVE  /\ Atoi(digits) \in 0..MaxInt \cup {Bad}
           /\ digits # <<>> /\ Value(digits) <= MaxInt => Atoi(digits) = Value(digits)
<1>1. digits \in Seq(Nat)
  OBVIOUS
<1>2. PICK u : Reads(u, digits) /\ Value(digits) = u[Len(digits)]
  BY <1>1, ValueReads
<1>3. Value(digits) \in Nat
  BY <1>2 DEF Reads
<1> QED BY <1>3, PagesAssumption DEF Atoi

\* Ids gives three numbers, or nothing when one of them was refused.
LEMMA IdsAre ==
    ASSUME NEW id \in 0..MaxInt \cup {Bad}, NEW season \in 0..MaxInt \cup {Bad},
           NEW episode \in 0..MaxInt \cup {Bad}
    PROVE  \/ Ids(id, season, episode) = NoAnswer /\ Bad \in {id, season, episode}
           \/ /\ Ids(id, season, episode)
                   = [ok |-> TRUE, id |-> id, season |-> season, episode |-> episode]
              /\ {id, season, episode} \subseteq 0..MaxInt
BY DEF Ids

\* The digits of a token before and in its last six places.
LEMMA CutIs ==
    ASSUME NEW token \in Seq(0..9), Len(token) > 2 * tail
    PROVE  LET m == Len(token) - 6
           IN /\ SubSeq(token, 1, m) \in Seq(0..9)
              /\ SubSeq(token, m + 1, m + 3) \in Seq(0..9)
              /\ SubSeq(token, m + 4, m + 6) \in Seq(0..9)
              /\ splitPlayToken(token) =
                    Ids(Atoi(SubSeq(token, 1, m)), Atoi(SubSeq(token, m + 1, m + 3)),
                        Atoi(SubSeq(token, m + 4, m + 6)))
<1> DEFINE m == Len(token) - 6
<1>1. m \in Nat /\ m > 0 /\ Len(token) = m + 6 /\ \A k \in 1..(m + 6) : token[k] \in 0..9
  BY DEF tail
<1>2. /\ SubSeq(token, 1, m) \in Seq(0..9)
      /\ SubSeq(token, m + 1, m + 3) \in Seq(0..9)
      /\ SubSeq(token, m + 4, m + 6) \in Seq(0..9)
  BY <1>1, SubSeqProperties
<1>3. m + tail = m + 3 /\ (m + tail) + 1 = m + 4 /\ Len(token) - 2 * tail = m
  BY <1>1 DEF tail
<1>4. splitPlayToken(token) = Cut(token)
  BY <1>1 DEF splitPlayToken, tail
<1> HIDE DEF m
<1>5. Cut(token) = Ids(Atoi(SubSeq(token, 1, m)), Atoi(SubSeq(token, m + 1, m + 3)),
                       Atoi(SubSeq(token, m + 4, m + 6)))
  <2>1. ~(m < 0) /\ m + tail = m + 3 /\ m + 3 + 1 = m + 4
    BY <1>1 DEF tail
  <2> QED BY <1>1, <1>3, <2>1 DEF Cut
<1> QED BY <1>2, <1>4, <1>5 DEF m

\* A token that was packed is unpacked.
LEMMA PackedIsCut ==
    ASSUME NEW about, about[1] \in 0..MaxInt, about[2] \in 0..999, about[3] \in 0..999
    PROVE  /\ Packed(about) # <<>>
           /\ splitPlayToken(Packed(about)) = Ids(about[1], about[2], about[3])
<1> DEFINE id == about[1]
           season == about[2]
           episode == about[3]
<1>15. id \in 0..MaxInt /\ season \in 0..999 /\ episode \in 0..999
  OBVIOUS
<1>16. Packed(about) = (Numeral(id) \o Digits(season)) \o Digits(episode)
  BY DEF Packed
<1>17. SUFFICES Packed(about) # <<>> /\ splitPlayToken(Packed(about)) = Ids(id, season, episode)
  OBVIOUS
<1> HIDE DEF id, season, episode
<1> DEFINE n == Numeral(id)
           s == Digits(season)
           e == Digits(episode)
           token == (n \o s) \o e
           m == Len(n)
<1>0. MaxInt \in Nat /\ MaxInt >= 999 /\ id \in Nat /\ season \in Nat /\ episode \in Nat
  BY <1>15, PagesAssumption
<1>1. /\ n \in Seq(0..9) /\ n # <<>> /\ Value(n) = id
      /\ s \in Seq(0..9) /\ Len(s) = 3 /\ Value(s) = season
      /\ e \in Seq(0..9) /\ Len(e) = 3 /\ Value(e) = episode
  <2>1. n \in Seq(0..9) /\ n # <<>> /\ Value(n) = id
    BY ONLY <1>0, NumeralIs
  <2>2. s \in Seq(0..9) /\ Len(s) = 3 /\ Value(s) = season
    BY ONLY <1>15, DigitsAre, ZenonT(60)
  <2>3. e \in Seq(0..9) /\ Len(e) = 3 /\ Value(e) = episode
    BY ONLY <1>15, DigitsAre, ZenonT(60)
  <2> QED BY <2>1, <2>2, <2>3
<1>2. Packed(about) = token
  BY <1>16
<1> HIDE DEF n, s, e
<1> DEFINE to == m + 3
<1>3. m \in Nat /\ to = m + Len(s) /\ m = Len(n) /\ m > 0 /\ to = m + 3
  BY <1>1
<1> HIDE DEF token, m, to
<1>4. token = (n \o s) \o e
  BY DEF token
<1>5. /\ token \in Seq(0..9) /\ Len(token) = to + Len(e)
      /\ SubSeq(token, 1, m) = n /\ SubSeq(token, m + 1, to) = s
      /\ SubSeq(token, to + 1, Len(token)) = e
  <2>1. n \in Seq(0..9) /\ s \in Seq(0..9) /\ e \in Seq(0..9)
    BY <1>1
  <2> QED BY ONLY <1>3, <1>4, <2>1, PartsAre
<1>6. /\ Len(token) > 2 * tail /\ Len(token) - 6 = m /\ Len(token) = m + 6
      /\ to = m + 3 /\ to + 1 = m + 4
  BY <1>1, <1>3, <1>5 DEF tail
<1>7. SubSeq(token, m + 4, m + 6) = e
  BY ONLY <1>5, <1>6
<1>11. splitPlayToken(token) = Ids(Atoi(n), Atoi(s), Atoi(e))
  BY ONLY <1>5, <1>6, <1>7, CutIs
<1>12. Atoi(n) = id /\ Atoi(s) = season /\ Atoi(e) = episode
  <2>1. s # <<>> /\ e # <<>>
    <3>1. Len(<<>>) = 0 /\ Len(s) = 3 /\ Len(e) = 3
      BY <1>1
    <3> QED BY ONLY <3>1
  <2>2. Value(n) <= MaxInt /\ Value(s) <= MaxInt /\ Value(e) <= MaxInt
    BY <1>15, <1>0, <1>1
  <2>3. Atoi(n) = id
    BY ONLY <1>1, <2>2, AtoiIs
  <2>4. Atoi(s) = season
    BY ONLY <1>1, <2>1, <2>2, AtoiIs
  <2>5. Atoi(e) = episode
    BY ONLY <1>1, <2>1, <2>2, AtoiIs
  <2> QED BY <2>3, <2>4, <2>5
<1>14. token # <<>>
  <2>1. Len(<<>>) = 0 /\ Len(token) # 0
    BY <1>3, <1>6
  <2> QED BY ONLY <2>1
<1> QED BY <1>2, <1>11, <1>12, <1>14

\* Three numbers or nothing.
IdsOrNothing(ids) ==
    /\ ids # Panic
    /\ ids # NoAnswer => {ids.id, ids.season, ids.episode} \subseteq 0..MaxInt

\* What a row gives: EpisodeIdsAgree, of a row and what was read from it.
RowIsRead(row, ids) ==
    /\ IdsOrNothing(ids)
    /\ IF row.code = row.about \/ (~Triple(row.code) /\ row.token = Packed(row.about))
          THEN ids = [ok |-> TRUE, id |-> row.about[1], season |-> row.about[2],
                      episode |-> row.about[3]]
          ELSE ~Triple(row.code) /\ Len(row.token) <= 2 * tail => ids = NoAnswer

\* Three numbers are told from nothing and from a slice out of range.
LEMMA AnIdIsNoPanic ==
    ASSUME NEW id, NEW season, NEW episode, NEW ids,
           ids = [ok |-> TRUE, id |-> id, season |-> season, episode |-> episode]
    PROVE  /\ ids # Panic /\ ids # NoAnswer
           /\ ids.id = id /\ ids.season = season /\ ids.episode = episode
<1>1. ids.ok = TRUE /\ ids.id = id /\ ids.season = season /\ ids.episode = episode
  OBVIOUS
<1>2. Panic.ok = FALSE /\ NoAnswer.ok = FALSE
  BY DEF Panic, NoAnswer
<1> QED BY <1>1, <1>2

\* Ids slices nothing.
LEMMA IdsAreNoPanic ==
    ASSUME NEW id \in 0..MaxInt \cup {Bad}, NEW season \in 0..MaxInt \cup {Bad},
           NEW episode \in 0..MaxInt \cup {Bad}
    PROVE  IdsOrNothing(Ids(id, season, episode))
<1> DEFINE ids == Ids(id, season, episode)
<1>1. CASE ids = NoAnswer
  BY <1>1 DEF NoAnswer, Panic, IdsOrNothing
<1>2. CASE /\ ids = [ok |-> TRUE, id |-> id, season |-> season, episode |-> episode]
           /\ {id, season, episode} \subseteq 0..MaxInt
  <2>1. ids # Panic /\ ids.id = id /\ ids.season = season /\ ids.episode = episode
    BY <1>2, AnIdIsNoPanic
  <2> QED BY <1>2, <2>1 DEF IdsOrNothing
<1> QED BY <1>1, <1>2, IdsAre

\* Every row gives what it should.
LEMMA RowsAreRead ==
    ASSUME NEW row \in RowPage
    PROVE  RowIsRead(row, episodeIDs(row.code, row.token))
<1> DEFINE code == row.code
           token == row.token
           about == row.about
           ids == episodeIDs(code, token)
<1>0. SUFFICES RowIsRead(row, ids)
  OBVIOUS
<1>1. /\ code \in Seq(0..MaxInt \cup {Bad}) /\ token \in Seq(0..9)
      /\ about \in (0..MaxInt) \X (0..999) \X (0..999)
  BY DEF RowPage
<1> DEFINE id == about[1]
           season == about[2]
           episode == about[3]
<1>2. /\ id \in 0..MaxInt /\ season \in 0..999 /\ episode \in 0..999
      /\ about = <<id, season, episode>>
  <2>1. \A x \in (0..MaxInt) \X (0..999) \X (0..999) :
           /\ x[1] \in 0..MaxInt /\ x[2] \in 0..999 /\ x[3] \in 0..999
           /\ x = <<x[1], x[2], x[3]>>
    OBVIOUS
  <2> HIDE DEF about
  <2> QED BY <1>1, <2>1
<1>3. MaxInt \in Nat /\ MaxInt >= 999 /\ Bad \notin 0..MaxInt
  BY PagesAssumption DEF Bad
<1> HIDE DEF code, token, about
<1>9. id = about[1] /\ season = about[2] /\ episode = about[3]
  OBVIOUS
<1> HIDE DEF id, season, episode
<1>4. {id, season, episode} \subseteq 0..MaxInt
  BY <1>2, <1>3
<1>5. ids = IF Triple(code) THEN Ids(code[1], code[2], code[3])
            ELSE IF token = <<>> THEN NoAnswer ELSE splitPlayToken(token)
  BY DEF episodeIDs
<1> HIDE DEF ids
<1>8. RowIsRead(row, ids) <=>
        /\ IdsOrNothing(ids)
        /\ IF code = about \/ (~Triple(code) /\ token = Packed(about))
              THEN ids = [ok |-> TRUE, id |-> id, season |-> season, episode |-> episode]
              ELSE ~Triple(code) /\ Len(token) <= 2 * tail => ids = NoAnswer
  BY DEF RowIsRead, code, token, about, id, season, episode
<1>6. CASE Triple(code)
  <2>1. /\ code[1] \in 0..MaxInt \cup {Bad} /\ code[2] \in 0..MaxInt \cup {Bad}
        /\ code[3] \in 0..MaxInt \cup {Bad}
    <3>1. Len(code) = 3 /\ 1 \in 1..3 /\ 2 \in 1..3 /\ 3 \in 1..3
      BY <1>6 DEF Triple, dataCodeParts
    <3>2. code \in Seq(0..MaxInt \cup {Bad})
      BY <1>1
    <3> QED BY ONLY <3>1, <3>2, ElementOfSeq
  <2>2. ids = Ids(code[1], code[2], code[3])
    BY <1>5, <1>6
  <2>3. IdsOrNothing(ids)
    BY <2>1, <2>2, IdsAreNoPanic
  <2>4. ASSUME code = about
        PROVE  ids = [ok |-> TRUE, id |-> id, season |-> season, episode |-> episode]
    <3>1. code[1] = id /\ code[2] = season /\ code[3] = episode
      BY <1>9, <2>4
    <3>2. Bad \notin {id, season, episode}
      BY <1>3, <1>4
    <3> QED BY <2>2, <2>4, <3>1, <3>2 DEF Ids
  <2>5. /\ ~(~Triple(code) /\ token = Packed(about))
        /\ ~(~Triple(code) /\ Len(token) <= 2 * tail)
    BY <1>6
  <2> QED BY ONLY <1>8, <2>3, <2>4, <2>5
<1>7. CASE ~Triple(code)
  <2>1. code # about
    <3>1. Triple(<<id, season, episode>>)
      <4>1. /\ Len(<<id, season, episode>>) = 3
            /\ \A k \in 1..3 : <<id, season, episode>>[k] \in 0..MaxInt
        BY <1>4
      <4>2. DOMAIN <<id, season, episode>> = 1..3
        OBVIOUS
      <4> QED BY <1>3, <4>1, <4>2 DEF Triple, ToSet, dataCodeParts
    <3> QED BY <1>2, <1>7, <3>1
  <2>2. /\ IdsOrNothing(ids)
        /\ Len(token) <= 2 * tail => ids = NoAnswer
    <3>1. CASE token = <<>>
      <4>1. ids = NoAnswer
        BY <1>5, <1>7, <3>1
      <4> QED BY <4>1 DEF NoAnswer, Panic, IdsOrNothing
    <3>2. CASE token # <<>> /\ Len(token) <= 2 * tail
      <4>1. ids = NoAnswer
        BY <1>5, <1>7, <3>2 DEF splitPlayToken
      <4> QED BY <4>1 DEF NoAnswer, Panic, IdsOrNothing
    <3>3. CASE token # <<>> /\ ~(Len(token) <= 2 * tail)
      <4> DEFINE m == Len(token) - 6
                 first == SubSeq(token, 1, m)
                 second == SubSeq(token, m + 1, m + 3)
                 third == SubSeq(token, m + 4, m + 6)
      <4>1. Len(token) > 2 * tail
        BY <1>1, <3>3 DEF tail
      <4>2. /\ first \in Seq(0..9) /\ second \in Seq(0..9) /\ third \in Seq(0..9)
            /\ splitPlayToken(token) = Ids(Atoi(first), Atoi(second), Atoi(third))
        BY ONLY <1>1, <4>1, CutIs
      <4> HIDE DEF first, second, third
      <4>3. /\ Atoi(first) \in 0..MaxInt \cup {Bad} /\ Atoi(second) \in 0..MaxInt \cup {Bad}
            /\ Atoi(third) \in 0..MaxInt \cup {Bad}
        BY <4>2, AtoiIs
      <4>4. ids = Ids(Atoi(first), Atoi(second), Atoi(third))
        BY <1>5, <1>7, <3>3, <4>2
      <4> QED BY <3>3, <4>3, <4>4, IdsAreNoPanic
    <3> QED BY <3>1, <3>2, <3>3
  <2>3. ASSUME token = Packed(about)
        PROVE  ids = [ok |-> TRUE, id |-> id, season |-> season, episode |-> episode]
    <3>1. /\ Packed(about) # <<>> /\ splitPlayToken(Packed(about)) = Ids(id, season, episode)
      <4>1. about[1] \in 0..MaxInt /\ about[2] \in 0..999 /\ about[3] \in 0..999
        BY <1>2, <1>9
      <4>2. /\ Packed(about) # <<>>
            /\ splitPlayToken(Packed(about)) = Ids(about[1], about[2], about[3])
        BY ONLY <4>1, PackedIsCut
      <4> QED BY <1>9, <4>2
    <3>2. Bad \notin {id, season, episode}
      BY <1>3, <1>4
    <3> QED BY <1>5, <1>7, <2>3, <3>1, <3>2 DEF Ids
  <2> QED BY ONLY <1>8, <1>7, <2>1, <2>2, <2>3
<1> QED BY <1>6, <1>7

(***************************************************************************)
(* Titles                                                                  *)
(***************************************************************************)
\* The characters of "show (orig)." and what follows it.
BodyIs(w, show, orig, rest) ==
    /\ w \in Seq(Char) /\ Len(w) = Len(show) + Len(orig) + 4 + Len(rest)
    /\ \A k \in 1..Len(show) : w[k] = show[k]
    /\ w[Len(show) + 1] = Space /\ w[Len(show) + 2] = "("
    /\ \A k \in 1..Len(orig) : w[Len(show) + 2 + k] = orig[k]
    /\ w[Len(show) + Len(orig) + 3] = ")" /\ w[Len(show) + Len(orig) + 4] = "."
    /\ \A k \in 1..Len(rest) : w[Len(show) + Len(orig) + 4 + k] = rest[k]

\* The characters of a title in front of its marker.
LEMMA BodyReads ==
    ASSUME NEW show \in Seq(Char), NEW orig \in Seq(Char), NEW rest \in Seq(Char)
    PROVE  BodyIs((((show \o <<Space, "(">>) \o orig) \o <<")", ".">>) \o rest,
                  show, orig, rest)
<1> DEFINE left == <<Space, "(">>
           right == <<")", ".">>
           a == Len(show)
           b == Len(orig)
           x == (show \o left) \o orig
           y == x \o right
           w == y \o rest
           n == a + 2
           m == a + 2 + b
           p == a + 2 + b + 2
<1>1. left \in Seq(Char) /\ Len(left) = 2 /\ left[1] = Space /\ left[2] = "("
  <2>1. Space \in Char /\ "(" \in Char
    BY PagesAssumption
  <2> QED BY ONLY <2>1
<1>2. right \in Seq(Char) /\ Len(right) = 2 /\ right[1] = ")" /\ right[2] = "."
  <2>1. ")" \in Char /\ "." \in Char
    BY PagesAssumption
  <2> QED BY ONLY <2>1
<1>3. a \in Nat /\ b \in Nat /\ Len(rest) \in Nat
  OBVIOUS
<1>4. a = Len(show) /\ b = Len(orig) /\ n = a + Len(left) /\ x = (show \o left) \o orig
  BY <1>1
<1>13. y = x \o right /\ w = y \o rest
  OBVIOUS
<1>5. n = a + 2 /\ m = n + b /\ p = m + 2
  OBVIOUS
<1> HIDE DEF left, right, x, y, w, a, b, n, m, p
<1>6. /\ x \in Seq(Char) /\ Len(x) = m
      /\ \A k \in 1..a : x[k] = show[k]
      /\ \A k \in 1..2 : x[a + k] = left[k]
      /\ \A k \in 1..b : x[n + k] = orig[k]
  <2> DEFINE v == show \o left
  <2>1. v = show \o left /\ show \in Seq(Char) /\ left \in Seq(Char) /\ orig \in Seq(Char)
    BY <1>1
  <2>2. /\ v \in Seq(Char) /\ Len(v) = a + Len(left)
        /\ \A k \in 1..a : v[k] = show[k]
        /\ \A k \in 1..Len(left) : v[a + k] = left[k]
    BY ONLY <1>4, <2>1, PairIs
  <2>3. x = v \o orig
    BY <1>4
  <2> HIDE DEF v
  <2>4. n = Len(v) /\ v \in Seq(Char)
    BY <1>4, <2>2
  <2>5. /\ v \o orig \in Seq(Char) /\ Len(v \o orig) = n + Len(orig)
        /\ \A k \in 1..n : (v \o orig)[k] = v[k]
        /\ \A k \in 1..Len(orig) : (v \o orig)[n + k] = orig[k]
    BY ONLY <2>1, <2>4, PairIs
  <2>6. \A k \in 1..a : k \in 1..n
    BY <1>3, <1>5
  <2>7. \A k \in 1..2 : a + k \in 1..n
    BY <1>3, <1>5
  <2> QED BY <1>1, <1>4, <1>5, <2>2, <2>3, <2>5, <2>6, <2>7
<1>7. /\ y \in Seq(Char) /\ Len(y) = p
      /\ \A k \in 1..m : y[k] = x[k]
      /\ \A k \in 1..2 : y[m + k] = right[k]
  <2>1. m = Len(x) /\ x \in Seq(Char) /\ right \in Seq(Char)
    BY <1>2, <1>6
  <2>2. /\ x \o right \in Seq(Char) /\ Len(x \o right) = m + Len(right)
        /\ \A k \in 1..m : (x \o right)[k] = x[k]
        /\ \A k \in 1..Len(right) : (x \o right)[m + k] = right[k]
    BY ONLY <2>1, PairIs
  <2> QED BY <1>2, <1>5, <1>13, <2>2
<1>8. /\ w \in Seq(Char) /\ Len(w) = p + Len(rest)
      /\ \A k \in 1..p : w[k] = y[k]
      /\ \A k \in 1..Len(rest) : w[p + k] = rest[k]
  <2>1. p = Len(y) /\ y \in Seq(Char) /\ rest \in Seq(Char)
    BY <1>7
  <2>2. /\ y \o rest \in Seq(Char) /\ Len(y \o rest) = p + Len(rest)
        /\ \A k \in 1..p : (y \o rest)[k] = y[k]
        /\ \A k \in 1..Len(rest) : (y \o rest)[p + k] = rest[k]
    BY ONLY <2>1, PairIs
  <2> QED BY <1>13, <2>2
<1>9. \A k \in 1..m : w[k] = x[k]
  BY <1>3, <1>5, <1>7, <1>8
<1>10. /\ \A k \in 1..a : w[k] = show[k]
       /\ w[a + 1] = Space /\ w[a + 2] = "("
       /\ \A k \in 1..b : w[a + 2 + k] = orig[k]
  <2>1. \A k \in 1..a : k \in 1..m
    BY <1>3, <1>5
  <2>2. a + 1 \in 1..m /\ a + 2 \in 1..m /\ 1 \in 1..2 /\ 2 \in 1..2
    BY <1>3, <1>5
  <2>3. \A k \in 1..b : n + k \in 1..m /\ n + k = a + 2 + k
    BY <1>3, <1>5
  <2>4. w[a + 1] = Space /\ w[a + 2] = "("
    BY <1>1, <1>6, <1>9, <2>2
  <2>5. \A k \in 1..b : w[a + 2 + k] = orig[k]
    BY <1>6, <1>9, <2>3
  <2> QED BY <1>6, <1>9, <2>1, <2>4, <2>5
<1>11. w[a + b + 3] = ")" /\ w[a + b + 4] = "."
  <2>1. /\ m + 1 \in 1..p /\ m + 2 \in 1..p /\ m + 1 = a + b + 3 /\ m + 2 = a + b + 4
        /\ 1 \in 1..2 /\ 2 \in 1..2
    BY <1>3, <1>5
  <2>2. w[m + 1] = ")" /\ w[m + 2] = "."
    BY <1>2, <1>7, <1>8, <2>1
  <2> QED BY <2>1, <2>2
<1>12. /\ Len(w) = a + b + 4 + Len(rest)
       /\ \A k \in 1..Len(rest) : w[a + b + 4 + k] = rest[k]
  <2>1. p = a + b + 4
    BY <1>3, <1>5
  <2> QED BY <1>8, <2>1
<1>14. BodyIs(w, show, orig, rest)
  BY <1>4, <1>8, <1>10, <1>11, <1>12 DEF BodyIs
<1> QED BY <1>14 DEF w, y, x, left, right

\* Where showOrigRe finds the original title.
OriginalAt(w, open, close) ==
    /\ Originals(w) # {}
    /\ Min({o[1] : o \in Originals(w)}) = open
    /\ (CHOOSE c \in DOMAIN w : <<open, c>> \in Originals(w)) = close

\* The original title is between the one opening parenthesis that is left open in
\* front of a full stop, and the first closing one after it.
LEMMA OriginalIs ==
    ASSUME NEW show \in Seq(Char), NEW orig \in Seq(Char), NEW rest \in Seq(Char), NEW w,
           BodyIs(w, show, orig, rest), Trimmed(show), Closed(show), Trimmed(orig),
           ")" \notin ToSet(orig), NEW open, NEW close,
           open = Len(show) + 2, close = Len(show) + Len(orig) + 3
    PROVE  OriginalAt(w, open, close)
<1> DEFINE a == Len(show)
           b == Len(orig)
<1>1. a \in Nat /\ a > 0 /\ b \in Nat /\ b > 0 /\ Len(rest) \in Nat
  BY EmptySeq DEF Trimmed
<1>2. DOMAIN show = 1..a /\ \A k \in 1..b : orig[k] # ")"
  BY DEF ToSet
<1> HIDE DEF a, b
<1>3. /\ w \in Seq(Char) /\ Len(w) = a + b + 4 + Len(rest)
      /\ \A k \in 1..a : w[k] = show[k]
      /\ w[a + 1] = Space /\ w[open] = "("
      /\ \A k \in 1..b : w[open + k] = orig[k]
      /\ w[close] = ")" /\ w[close + 1] = "."
  <2>1. close + 1 = a + b + 4 /\ open = a + 2 /\ close = a + b + 3
    BY <1>1 DEF a, b
  <2> QED BY <2>1 DEF BodyIs, a, b
<1>4. open = a + 2 /\ close = a + b + 3 /\ open + b + 1 = close
  BY <1>1 DEF a, b
<1>5. DOMAIN w = 1..Len(w) /\ Len(w) \in Nat /\ open \in 1..Len(w) /\ close \in 1..Len(w)
      /\ open >= 2 /\ close <= Len(w) - 1 /\ open + 1 < close
  BY <1>1, <1>3, <1>4
<1>6. \A o : o \in Originals(w) <=>
        /\ o \in (2..Len(w)) \X (2..(Len(w) - 1))
        /\ w[o[1]] = "(" /\ w[o[2]] = ")" /\ w[o[2] + 1] = "."
        /\ o[1] + 1 < o[2]
        /\ \A k \in (o[1] + 1)..(o[2] - 1) : w[k] # ")"
  BY DEF Originals
<1>7. \A k \in (open + 1)..(close - 1) : w[k] # ")"
  <2> TAKE k \in (open + 1)..(close - 1)
  <2>1. k - open \in 1..b /\ open + (k - open) = k
    BY <1>1, <1>4
  <2> QED BY <1>2, <1>3, <2>1
<1>8. <<open, close>> \in Originals(w)
  <2>1. open \in 2..Len(w) /\ close \in 2..(Len(w) - 1)
    BY <1>5
  <2> DEFINE o == <<open, close>>
  <2>2. o \in (2..Len(w)) \X (2..(Len(w) - 1)) /\ o[1] = open /\ o[2] = close
    BY <2>1
  <2> HIDE DEF o
  <2>3. o \in Originals(w)
    BY <1>3, <1>5, <1>6, <1>7, <2>2
  <2> QED BY <2>3 DEF o
<1>9. ASSUME NEW o \in Originals(w) PROVE o[1] \in Int /\ open <= o[1]
  <2> DEFINE i == o[1]
             j == o[2]
  <2>1. /\ i \in 2..Len(w) /\ j \in 2..(Len(w) - 1)
        /\ w[i] = "(" /\ w[j] = ")" /\ w[j + 1] = "." /\ i + 1 < j
        /\ \A k \in (i + 1)..(j - 1) : w[k] # ")"
    BY <1>6
  <2> HIDE DEF i, j
  <2>2. ASSUME i < open PROVE FALSE
    <3>1. i # a + 1
      BY <1>3, <2>1 DEF Space
    <3>2. i \in 1..a
      BY <1>1, <1>4, <2>1, <2>2, <3>1
    <3>3. show[i] = "("
      BY <1>3, <2>1, <3>2
    <3>4. PICK q \in (i + 1)..a :
             /\ show[q] = ")" /\ \A k \in (i + 1)..(q - 1) : show[k] # ")"
             /\ q < a => show[q + 1] # "."
      BY <1>2, <3>2, <3>3 DEF Closed, a
    <3>5. q \in 1..a /\ w[q] = ")"
      BY <1>3, <3>2, <3>4
    <3>6. ~(q < j)
      <4>1. q < j => q \in (i + 1)..(j - 1)
        BY <2>1, <3>2, <3>5
      <4> QED BY <2>1, <3>5, <4>1
    <3>7. ~(j < q)
      <4>1. j < q => j \in (i + 1)..(q - 1) /\ j \in 1..a
        BY <1>1, <2>1, <3>2, <3>5
      <4> QED BY <1>3, <2>1, <3>4, <4>1
    <3>8. q = j
      BY <2>1, <3>5, <3>6, <3>7
    <3>9. CASE q < a
      <4>1. q + 1 \in 1..a
        BY <1>1, <3>5, <3>9
      <4>2. w[q + 1] = show[q + 1]
        BY <1>3, <4>1
      <4> QED BY <2>1, <3>4, <3>8, <3>9, <4>2
    <3>10. CASE q = a
      BY <1>3, <2>1, <3>8, <3>10 DEF Space
    <3>11. q < a \/ q = a
      BY <1>1, <3>5
    <3> QED BY <3>9, <3>10, <3>11
  <2>3. i \in Int /\ open <= i
    BY <1>5, <2>1, <2>2
  <2> QED BY <2>3 DEF i
<1>10. Min({o[1] : o \in Originals(w)}) = open
  <2> DEFINE opens == {o[1] : o \in Originals(w)}
  <2>1. opens \in SUBSET Int /\ \A y \in opens : open <= y
    BY <1>9
  <2>2. open \in opens
    <3>1. <<open, close>>[1] = open
      OBVIOUS
    <3> QED BY <1>8, <3>1
  <2> HIDE DEF opens
  <2>3. Min(opens) = open
    BY ONLY <2>1, <2>2, MinIs
  <2> QED BY <2>3 DEF opens
<1>11. ASSUME NEW c \in DOMAIN w, <<open, c>> \in Originals(w) PROVE c = close
  <2> DEFINE o == <<open, c>>
  <2>1. o[1] = open /\ o[2] = c /\ o \in Originals(w)
    BY <1>11
  <2> HIDE DEF o
  <2>2. c \in Int /\ w[c] = ")" /\ open + 1 < c /\ \A k \in (open + 1)..(c - 1) : w[k] # ")"
    BY <1>5, <1>6, <2>1
  <2>3. ~(c < close)
    <3>1. c < close => c \in (open + 1)..(close - 1)
      BY <1>5, <2>2
    <3> QED BY <1>7, <2>2, <3>1
  <2>4. ~(close < c)
    <3>1. close < c => close \in (open + 1)..(c - 1)
      BY <1>5, <2>2
    <3> QED BY <1>3, <2>2, <3>1
  <2> QED BY <1>5, <2>2, <2>3, <2>4
<1>12. (CHOOSE c \in DOMAIN w : <<open, c>> \in Originals(w)) = close
  BY <1>5, <1>8, <1>11
<1> QED BY <1>8, <1>10, <1>12 DEF OriginalAt

\* The name behind the original title, without the space and the full stop.
LEMMA NameIs ==
    ASSUME NEW name \in Seq(Char), name # <<>> => name[1] # Space /\ name[Len(name)] # ".",
           NEW rest, rest = IF name = <<>> THEN <<>> ELSE <<Space>> \o name \o <<".">>
    PROVE  rest \in Seq(Char) /\ TrimRight(TrimSpace(rest), {"."}) = name
<1>1. CASE name = <<>>
  <2>1. TrimLeft(<<>>, {Space}) = <<>>
    BY DEF TrimLeft
  <2>2. \A cut : TrimRight(<<>>, cut) = <<>>
    BY DEF TrimRight
  <2> QED BY <1>1, <2>1, <2>2 DEF TrimSpace
<1>2. CASE name # <<>>
  <2> DEFINE n == Len(name)
             left == <<Space>>
             right == <<".">>
             m == 1 + n
  <2>1. n \in Nat /\ n > 0 /\ name[1] # Space /\ name[n] # "."
    BY <1>2, EmptySeq
  <2>2. /\ left \in Seq(Char) /\ Len(left) = 1 /\ left[1] = Space
        /\ right \in Seq(Char) /\ Len(right) = 1 /\ right[1] = "."
    <3>1. Space \in Char /\ "." \in Char
      BY PagesAssumption
    <3> QED BY ONLY <3>1
  <2> DEFINE x == left \o name
  <2>3. rest = x \o right /\ x = left \o name
    BY <1>2
  <2> HIDE DEF left, right, m, x
  <2> DEFINE one == 1
  <2>13. one = Len(left) /\ name \in Seq(Char) /\ left \in Seq(Char) /\ right \in Seq(Char)
    BY <2>2
  <2>17. one = 1
    OBVIOUS
  <2> HIDE DEF one
  <2>14. /\ x \in Seq(Char) /\ Len(x) = one + Len(name)
         /\ \A k \in 1..one : x[k] = left[k]
         /\ \A k \in 1..Len(name) : x[one + k] = name[k]
    <3>1. /\ left \o name \in Seq(Char) /\ Len(left \o name) = one + Len(name)
          /\ \A k \in 1..one : (left \o name)[k] = left[k]
          /\ \A k \in 1..Len(name) : (left \o name)[one + k] = name[k]
      BY ONLY <2>13, PairIs
    <3> QED BY <2>3, <3>1
  <2>15. m = Len(x) /\ x \in Seq(Char) /\ right \in Seq(Char)
    BY <2>13, <2>14, <2>17 DEF m
  <2>4. /\ rest \in Seq(Char) /\ Len(rest) = m + Len(right)
        /\ \A k \in 1..m : rest[k] = x[k]
        /\ \A k \in 1..Len(right) : rest[m + k] = right[k]
    <3>1. /\ x \o right \in Seq(Char) /\ Len(x \o right) = m + Len(right)
          /\ \A k \in 1..m : (x \o right)[k] = x[k]
          /\ \A k \in 1..Len(right) : (x \o right)[m + k] = right[k]
      BY ONLY <2>15, PairIs
    <3> QED BY <2>3, <3>1
  <2>16. n = Len(name) /\ m = n + 1
    BY <2>1 DEF m
  <2> HIDE DEF n
  <2>5. /\ Len(rest) = n + 2 /\ rest[1] = Space /\ rest[n + 2] = "."
        /\ \A k \in 1..n : rest[1 + k] = name[k]
    <3>1. /\ Len(rest) = n + 2 /\ m + 1 = n + 2 /\ 1 \in 1..one /\ 1 \in 1..m /\ 1 \in 1..Len(right)
      BY <2>1, <2>2, <2>4, <2>17, <2>16
    <3>2. rest[1] = Space /\ rest[m + 1] = "."
      BY <2>2, <2>4, <2>14, <3>1
    <3>3. ASSUME NEW k \in 1..n PROVE rest[1 + k] = name[k]
      <4>1. 1 + k \in 1..m /\ 1 + k = one + k /\ k \in 1..Len(name)
        BY <2>1, <2>17, <2>16
      <4>2. rest[1 + k] = x[1 + k]
        BY <2>4, <4>1
      <4>3. x[one + k] = name[k]
        BY <2>14, <4>1
      <4> QED BY <4>1, <4>2, <4>3
    <3> QED BY <3>1, <3>2, <3>3
  <2>6. rest[2] = name[1] /\ 2 \in 1..(n + 2) /\ n + 2 \in 2..(n + 2)
    <3>1. 1 \in 1..n /\ 1 + 1 = 2
      BY <2>1
    <3> QED BY <2>1, <2>5, <3>1
  <2> DEFINE t == SubSeq(rest, 2, n + 2)
  <2>7. TrimSpace(rest) = t
    <3>1. /\ rest[2] # Space /\ rest[n + 2] # Space
          /\ \A j \in 1..(2 - 1) : rest[j] = Space
          /\ \A j \in (n + 2 + 1)..Len(rest) : rest[j] = Space
      <4>1. rest[2] # Space /\ rest[n + 2] # Space
        BY <2>1, <2>5, <2>6 DEF Space
      <4>2. \A j \in 1..(2 - 1) : j = 1
        OBVIOUS
      <4>3. ~ \E j \in (n + 2 + 1)..Len(rest) : TRUE
        BY <2>1, <2>5
      <4> QED BY <2>5, <4>1, <4>2, <4>3
    <3> DEFINE lo == 2
               hi == n + 2
    <3>2. lo \in 1..Len(rest) /\ hi \in lo..Len(rest)
      BY <2>5, <2>6
    <3>3. /\ rest[lo] # Space /\ rest[hi] # Space
          /\ \A j \in 1..(lo - 1) : rest[j] = Space
          /\ \A j \in (hi + 1)..Len(rest) : rest[j] = Space
      BY <3>1
    <3>4. rest \in Seq(Char)
      BY <2>4
    <3> HIDE DEF lo, hi
    <3>5. TrimSpace(rest) = SubSeq(rest, lo, hi)
      BY ONLY <3>2, <3>3, <3>4, TrimSpaceIs
    <3> QED BY <3>5 DEF lo, hi
  <2>8. t \in Seq(Char) /\ Len(t) = n + 1 /\ \A k \in 1..(n + 1) : t[k] = rest[1 + k]
    <3> DEFINE lo == 2
               hi == n + 2
               len == n + 1
    <3>1. lo \in 1..Len(rest) /\ hi \in lo..Len(rest) /\ len = hi - lo + 1 /\ rest \in Seq(Char)
      BY <2>1, <2>4, <2>5
    <3>2. \A k \in 1..len : lo - 1 + k = 1 + k
      OBVIOUS
    <3>3. t = SubSeq(rest, lo, hi)
      OBVIOUS
    <3> HIDE DEF lo, hi, len, t
    <3>4. t \in Seq(Char) /\ Len(t) = len /\ \A k \in 1..len : t[k] = rest[lo - 1 + k]
      BY ONLY <3>1, <3>3, SliceReads
    <3> QED BY <3>2, <3>4 DEF len
  <2> HIDE DEF t
  <2>9. \A k \in 1..n : t[k] = name[k]
    BY <2>1, <2>5, <2>8
  <2>10. t[n] = name[n] /\ t[n + 1] = "." /\ n \in 1..Len(t)
    <3>1. n \in 1..n /\ n + 1 \in 1..(n + 1) /\ 1 + (n + 1) = n + 2
      BY <2>1
    <3> QED BY <2>5, <2>8, <2>9, <3>1, SMTT(30)
  <2>11. TrimRight(t, {"."}) = SubSeq(t, 1, n)
    <3>1. t[n] \notin {"."}
      BY <2>1, <2>10
    <3>2. \A j \in (n + 1)..Len(t) : t[j] \in {"."}
      <4> TAKE j \in (n + 1)..Len(t)
      <4>1. j = n + 1
        BY <2>1, <2>8
      <4> QED BY <2>10, <4>1
    <3> QED BY <2>8, <2>10, <3>1, <3>2, TrimRightIs
  <2>12. SubSeq(t, 1, n) = name
    <3>1. 0 \in Nat /\ 0 + Len(name) <= Len(t) /\ 1 = 0 + 1 /\ n = 0 + Len(name)
      BY <2>1, <2>8 DEF n
    <3>2. \A k \in 1..Len(name) : t[0 + k] = name[k]
      <4> TAKE k \in 1..Len(name)
      <4>1. 0 + k = k
        OBVIOUS
      <4> QED BY <2>9, <4>1 DEF n
    <3> QED BY <2>8, <3>1, <3>2, SliceIs
  <2> QED BY <2>4, <2>7, <2>11, <2>12
<1> QED BY <1>1, <1>2

\* A space behind a text is trimmed.
LEMMA SpaceBehind ==
    ASSUME NEW text \in Seq(Char), NEW part \in Seq(Char), Trimmed(part), NEW n, n = Len(part),
           n < Len(text), text[n + 1] = Space, \A k \in 1..n : text[k] = part[k]
    PROVE  TrimSpace(SubSeq(text, 1, n + 1)) = part
<1>1. n \in Nat /\ n > 0 /\ part[1] # Space /\ part[n] # Space /\ Len(text) \in Nat
  BY EmptySeq DEF Trimmed
<1> DEFINE t == SubSeq(text, 1, n + 1)
<1>2. t \in Seq(Char) /\ Len(t) = n + 1 /\ \A k \in 1..(n + 1) : t[k] = text[k]
  <2>1. /\ (n + 1) - 1 + 1 = n + 1 /\ 1 <= n + 1 /\ n + 1 \in Int
        /\ \A k \in 1..(n + 1) : 1 + k - 1 = k /\ text[k] \in Char
    BY <1>1
  <2> QED BY <2>1, SubSeqProperties
<1> HIDE DEF t
<1>3. t[n + 1] = Space /\ \A k \in 1..n : t[k] = part[k]
  BY <1>1, <1>2
<1>4. TrimSpace(t) = SubSeq(t, 1, n)
  <2>1. 1 \in 1..Len(t) /\ n \in 1..Len(t)
    BY <1>1, <1>2
  <2>2. t[1] # Space /\ t[n] # Space
    BY <1>1, <1>3
  <2>3. \A j \in (n + 1)..Len(t) : t[j] = Space
    <3> TAKE j \in (n + 1)..Len(t)
    <3>1. j = n + 1
      BY <1>1, <1>2
    <3> QED BY <1>3, <3>1
  <2>4. \A j \in 1..(1 - 1) : t[j] = Space
    OBVIOUS
  <2> QED BY <1>2, <2>1, <2>2, <2>3, <2>4, TrimSpaceIs
<1>5. SubSeq(t, 1, n) = part
  <2>1. 0 \in Nat /\ 0 + Len(part) <= Len(t) /\ 1 = 0 + 1 /\ n = 0 + Len(part)
    BY <1>1, <1>2
  <2>2. \A k \in 1..Len(part) : t[0 + k] = part[k]
    <3> TAKE k \in 1..Len(part)
    <3>1. 0 + k = k
      OBVIOUS
    <3> QED BY <1>3, <3>1
  <2> QED BY <1>2, <2>1, <2>2, SliceIs
<1> QED BY <1>4, <1>5 DEF t

\* What is read from a title whose text before the marker is w.
LEMMA PartsRead ==
    ASSUME NEW about \in TitleParts, NEW rest, NEW w,
           rest = IF about.name = <<>> THEN <<>> ELSE <<Space>> \o about.name \o <<".">>,
           w = (((about.show \o <<Space, "(">>) \o about.orig) \o <<")", ".">>) \o rest
    PROVE  /\ w \in Seq(Char) /\ Trimmed(w)
           /\ \A s : Working(s) = w /\ Numbers(s) = about.number => parseFeedTitle(s) = about
<1> DEFINE show == about.show
           orig == about.orig
           name == about.name
           a == Len(show)
           b == Len(orig)
           open == a + 2
           close == a + b + 3
<1>1. /\ show \in Seq(Char) /\ orig \in Seq(Char) /\ name \in Seq(Char)
      /\ Trimmed(show) /\ Closed(show) /\ Trimmed(orig) /\ ")" \notin ToSet(orig)
      /\ name # <<>> => name[1] # Space /\ name[Len(name)] # "."
      /\ about = [show |-> show, orig |-> orig, name |-> name, number |-> about.number]
  BY DEF TitleParts
<1>2. rest \in Seq(Char) /\ TrimRight(TrimSpace(rest), {"."}) = name
  BY <1>1, NameIs
<1>3. BodyIs(w, show, orig, rest)
  BY <1>1, <1>2, BodyReads
<1>4. /\ a \in Nat /\ a > 0 /\ show[1] # Space /\ b \in Nat /\ b > 0 /\ Len(rest) \in Nat
  BY <1>1, <1>2, EmptySeq DEF Trimmed
<1>5. open = a + 2 /\ close = a + b + 3 /\ open + b + 1 = close /\ close + 1 = a + b + 4
  <2>1. open = a + 2 /\ close = a + b + 3 /\ a \in Nat /\ b \in Nat
    BY <1>4
  <2> HIDE DEF a, b, open, close
  <2> QED BY <2>1
<1>6. a = Len(show) /\ b = Len(orig)
  OBVIOUS
<1> HIDE DEF show, orig, name, a, b, open, close
<1>7. /\ w \in Seq(Char) /\ Len(w) = close + 1 + Len(rest)
      /\ \A k \in 1..a : w[k] = show[k]
      /\ w[a + 1] = Space /\ w[open] = "("
      /\ \A k \in 1..b : w[open + k] = orig[k]
      /\ w[close] = ")" /\ w[close + 1] = "."
      /\ \A k \in 1..Len(rest) : w[close + 1 + k] = rest[k]
  BY <1>3, <1>5, <1>6, ZenonT(60) DEF BodyIs
<1>11. /\ a \in Nat /\ a > 0 /\ b \in Nat /\ b > 0 /\ Len(rest) \in Nat
       /\ open = a + 2 /\ close = a + b + 3 /\ Len(w) = close + 1 + Len(rest)
  BY <1>4, <1>5, <1>7
<1>8. w # <<>> /\ w[1] # Space
  <2>1. Len(w) # 0 /\ 1 \in 1..a
    BY ONLY <1>11
  <2> QED BY <1>4, <1>7, <2>1
<1>9. w[Len(w)] # Space
  <2>1. CASE rest = <<>>
    <3>1. Len(rest) = 0
      BY <2>1
    <3>2. Len(w) = close + 1
      BY ONLY <1>11, <3>1
    <3> QED BY <1>7, <3>2 DEF Space
  <2>2. CASE rest # <<>>
    <3>1. rest = <<Space>> \o name \o <<".">>
      BY <2>2 DEF name
    <3> DEFINE x == <<Space>> \o name
    <3>2. x \in Seq(Char) /\ <<".">> \in Seq(Char) /\ Len(<<".">>) = 1 /\ <<".">>[1] = "."
      <4>1. Space \in Char /\ "." \in Char
        BY PagesAssumption
      <4>2. <<Space>> \in Seq(Char) /\ <<".">> \in Seq(Char) /\ Len(<<".">>) = 1 /\ <<".">>[1] = "."
        BY ONLY <4>1
      <4> QED BY <1>1, <4>2, ConcatProperties
    <3>3. rest = x \o <<".">>
      BY <3>1
    <3> HIDE DEF x
    <3>4. /\ Len(x) \in Nat /\ Len(x \o <<".">>) = Len(x) + 1 /\ (x \o <<".">>)[Len(x) + 1] = "."
      BY ONLY <3>2, PairIs
    <3>5. Len(rest) \in 1..Len(rest) /\ rest[Len(rest)] = "."
      BY <3>3, <3>4
    <3>6. w[close + 1 + Len(rest)] = "."
      BY <1>7, <3>5
    <3> QED BY <1>7, <3>6 DEF Space
  <2> QED BY <2>1, <2>2
<1>10. ASSUME NEW s, Working(s) = w, Numbers(s) = about.number PROVE parseFeedTitle(s) = about
  <2>1. OriginalAt(w, open, close)
    <3>1. open = Len(show) + 2 /\ close = Len(show) + Len(orig) + 3
      BY <1>5, <1>6
    <3>2. /\ show \in Seq(Char) /\ orig \in Seq(Char) /\ rest \in Seq(Char)
          /\ Trimmed(show) /\ Closed(show) /\ Trimmed(orig) /\ ")" \notin ToSet(orig)
      BY <1>1, <1>2
    <3> QED BY ONLY <1>3, <3>1, <3>2, OriginalIs
  <2>2. parseFeedTitle(s)
          = [show |-> TrimSpace(SubSeq(w, 1, open - 1)),
             orig |-> TrimSpace(SubSeq(w, open + 1, close - 1)),
             name |-> TrimRight(TrimSpace(SubSeq(w, close + 2, Len(w))), {"."}),
             number |-> Numbers(s)]
    BY <1>10, <2>1 DEF parseFeedTitle, OriginalAt
  <2>3. TrimSpace(SubSeq(w, 1, open - 1)) = show
    <3>1. open - 1 = a + 1 /\ a < Len(w)
      BY ONLY <1>11
    <3>2. TrimSpace(SubSeq(w, 1, a + 1)) = show
      <4>1. /\ show \in Seq(Char) /\ w \in Seq(Char) /\ Trimmed(show) /\ a = Len(show)
            /\ a < Len(w) /\ w[a + 1] = Space /\ \A k \in 1..a : w[k] = show[k]
        BY <1>1, <1>6, <1>7, <3>1
      <4> QED BY ONLY <4>1, SpaceBehind
    <3> QED BY <3>1, <3>2
  <2>4. TrimSpace(SubSeq(w, open + 1, close - 1)) = orig
    <3> DEFINE from == open + 1
               to == close - 1
    <3>1. open \in Nat /\ open + Len(orig) <= Len(w) /\ from = open + 1 /\ to = open + Len(orig)
      BY ONLY <1>6, <1>11
    <3>2. \A k \in 1..Len(orig) : w[open + k] = orig[k]
      BY <1>6, <1>7
    <3>3. SubSeq(w, open + 1, close - 1) = orig
      <4>1. w \in Seq(Char) /\ orig \in Seq(Char)
        BY <1>1, <1>7
      <4> HIDE DEF from, to
      <4>2. SubSeq(w, from, to) = orig
        BY ONLY <3>1, <3>2, <4>1, SliceIs
      <4> QED BY <4>2 DEF from, to
    <3> QED BY <1>1, <3>3, TrimmedStays
  <2>5. SubSeq(w, close + 2, Len(w)) = rest
    <3> DEFINE p == close + 1
               from == close + 2
               to == Len(w)
    <3>1. p \in Nat /\ p + Len(rest) <= Len(w) /\ from = p + 1 /\ to = p + Len(rest)
      BY ONLY <1>11
    <3>2. rest \in Seq(Char) /\ w \in Seq(Char) /\ \A k \in 1..Len(rest) : w[p + k] = rest[k]
      BY <1>2, <1>7
    <3> HIDE DEF p, from, to
    <3>3. SubSeq(w, from, to) = rest
      BY ONLY <3>1, <3>2, SliceIs
    <3> QED BY <3>3 DEF from, to
  <2> QED BY <1>1, <1>2, <1>10, <2>2, <2>3, <2>4, <2>5
<1>12. Trimmed(w)
  BY <1>8, <1>9 DEF Trimmed
<1> QED BY <1>7, <1>10, <1>12

\* A set of places has a first one.
LEMMA MinIsIn ==
    ASSUME NEW n \in Nat, NEW T \in SUBSET (1..n), T # {}
    PROVE  Min(T) \in T
<1>1. PICK m \in T : \A k \in T : ~ (k < m)
  <2>1. T \subseteq Nat
    OBVIOUS
  <2> QED BY <2>1, LeastNatural
<1>2. T \in SUBSET Int /\ \A y \in T : m <= y
  BY <1>1
<1> QED BY <1>1, <1>2, MinIs

\* The text is cut in front of the marker at its end, whatever markers of the same
\* episode are in front of that one.
LEMMA WorkingIs ==
    ASSUME NEW w \in Seq(Char), Trimmed(w), NEW body \in DOMAIN Marks, NEW s,
           s = w \o (<<Space, "(">> \o <<body>> \o <<")">>),
           \A k \in Markers(s) : s[k + 1] = body
    PROVE  s \in Seq(Char) /\ Trimmed(s) /\ Working(s) = w /\ Numbers(s) = Marks[body]
<1> DEFINE n == Len(w)
           mark == <<Space, "(">> \o <<body>> \o <<")">>
           part == <<"(", body, ")">>
           cut == n + 2
<1>1. n = Len(w) /\ n \in Nat /\ n > 0 /\ w[1] # Space /\ w[n] # Space
  BY EmptySeq DEF Trimmed
<1>2. Space \in Char /\ "(" \in Char /\ ")" \in Char /\ body \in Char
  BY PagesAssumption
<1>20. part \in Seq(Char)
  BY ONLY <1>2
<1>21. Len(part) = 3 /\ part[1] = "(" /\ part[2] = body /\ part[3] = ")"
  OBVIOUS
<1>3. /\ mark \in Seq(Char) /\ Len(mark) = 4
      /\ mark[1] = Space /\ mark[2] = "(" /\ mark[3] = body /\ mark[4] = ")"
  <2> DEFINE x == <<Space, "(">>
             y == <<body>>
             z == <<")">>
             xy == x \o y
             two == 2
             three == 3
  <2>1. x \in Seq(Char) /\ y \in Seq(Char) /\ z \in Seq(Char) /\ two = Len(x)
    BY ONLY <1>2
  <2>2. /\ x[1] = Space /\ x[2] = "(" /\ y[1] = body /\ z[1] = ")" /\ Len(y) = 1 /\ Len(z) = 1
        /\ two = 2 /\ three = 3 /\ mark = xy \o z
    OBVIOUS
  <2> HIDE DEF x, y, z, two, three, mark
  <2>3. /\ xy \in Seq(Char) /\ Len(xy) = two + Len(y)
        /\ \A k \in 1..two : xy[k] = x[k]
        /\ \A k \in 1..Len(y) : xy[two + k] = y[k]
    BY ONLY <2>1, PairIs
  <2> HIDE DEF xy
  <2>4. three = Len(xy) /\ xy \in Seq(Char) /\ z \in Seq(Char)
    BY <2>1, <2>2, <2>3
  <2>5. /\ xy \o z \in Seq(Char) /\ Len(xy \o z) = three + Len(z)
        /\ \A k \in 1..three : (xy \o z)[k] = xy[k]
        /\ \A k \in 1..Len(z) : (xy \o z)[three + k] = z[k]
    BY ONLY <2>4, PairIs
  <2>6. xy[1] = Space /\ xy[2] = "(" /\ xy[3] = body
    <3>1. 1 \in 1..two /\ 2 \in 1..two /\ 1 \in 1..Len(y) /\ two + 1 = 3
      BY <2>2
    <3> QED BY <2>2, <2>3, <3>1
  <2>7. mark[1] = Space /\ mark[2] = "(" /\ mark[3] = body /\ mark[4] = ")"
    <3>1. 1 \in 1..three /\ 2 \in 1..three /\ 3 \in 1..three /\ 1 \in 1..Len(z) /\ three + 1 = 4
      BY <2>2
    <3> QED BY <2>2, <2>5, <2>6, <3>1
  <2> QED BY <2>2, <2>5, <2>7
<1>17. s = w \o mark /\ cut = n + 2
  OBVIOUS
<1>18. \A x, y : <<"(", x, ")">> = <<"(", y, ")">> => x = y
  OBVIOUS
<1>19. \A x : <<"(", x, ")">> = part <=> x = body
  BY <1>18
<1> HIDE DEF mark, n, part, cut
<1>4. /\ s \in Seq(Char) /\ Len(s) = n + 4
      /\ \A k \in 1..n : s[k] = w[k]
      /\ s[n + 1] = Space /\ s[n + 2] = "(" /\ s[n + 3] = body /\ s[n + 4] = ")"
  <2>1. /\ w \o mark \in Seq(Char) /\ Len(w \o mark) = n + Len(mark)
        /\ \A k \in 1..n : (w \o mark)[k] = w[k]
        /\ \A k \in 1..Len(mark) : (w \o mark)[n + k] = mark[k]
    <3>1. n = Len(w) /\ w \in Seq(Char) /\ mark \in Seq(Char)
      BY <1>1, <1>3
    <3> QED BY ONLY <3>1, PairIs
  <2>2. 1 \in 1..Len(mark) /\ 2 \in 1..Len(mark) /\ 3 \in 1..Len(mark) /\ 4 \in 1..Len(mark)
    BY <1>3
  <2> QED BY <1>3, <1>17, <2>1, <2>2
<1>5. Trimmed(s)
  <2>1. Len(s) # 0 /\ 1 \in 1..n /\ Len(s) = n + 4
    BY <1>1, <1>4
  <2>2. s # <<>> /\ s[1] # Space
    BY <1>1, <1>4, <2>1
  <2>3. s[Len(s)] # Space
    BY <1>4 DEF Space
  <2> QED BY <2>2, <2>3 DEF Trimmed
<1>6. DOMAIN s = 1..(n + 4)
  BY <1>1, <1>4
<1>7. \A p \in 1..(n + 4) :
        At(s, p, part) <=> p + 2 <= n + 4 /\ SubSeq(s, p, p + 2) = part
  <2> TAKE p \in 1..(n + 4)
  <2>1. p + Len(part) - 1 = p + 2
    BY <1>1, <1>21
  <2> QED BY <1>4, <2>1 DEF At
<1>8. At(s, cut, part) /\ cut \in DOMAIN s
  <2> DEFINE p == n + 1
             to == n + 4
  <2>1. p \in Nat /\ p + Len(part) <= Len(s) /\ cut = p + 1 /\ to = p + Len(part)
    BY <1>1, <1>21, <1>4, <1>17
  <2>2. \A k \in 1..Len(part) : s[p + k] = part[k]
    <3> TAKE k \in 1..Len(part)
    <3>1. k \in {1, 2, 3}
      BY <1>21
    <3> QED BY <1>1, <1>21, <1>4, <3>1
  <2>3. s \in Seq(Char) /\ part \in Seq(Char)
    BY <1>20, <1>4
  <2> HIDE DEF p, to
  <2>4. SubSeq(s, cut, to) = part
    BY ONLY <2>1, <2>2, <2>3, SliceIs
  <2>5. cut + 2 <= n + 4 /\ cut + 2 = to /\ cut \in 1..(n + 4)
    BY <1>1, <1>17 DEF to
  <2> QED BY <1>6, <1>7, <2>4, <2>5
<1>9. \A k \in Markers(s) : At(s, k, part) /\ k \in 1..(n + 4)
  <2> TAKE k \in Markers(s)
  <2>1. PICK x \in DOMAIN Marks : At(s, k, <<"(", x, ")">>)
    BY DEF Markers
  <2>2. k \in 1..(n + 4) /\ s[k + 1] = body
    BY <1>6 DEF Markers
  <2>3. k + 2 <= n + 4 /\ SubSeq(s, k, k + 2) = <<"(", x, ")">>
    <3>1. k + 3 - 1 <= Len(s) /\ SubSeq(s, k, k + 3 - 1) = <<"(", x, ")">>
      BY <2>1 DEF At
    <3>2. k + 3 - 1 = k + 2
      BY <2>2
    <3> QED BY <1>4, <3>1, <3>2
  <2>4. SubSeq(s, k, k + 2)[2] = s[k + 1]
    <3> DEFINE to == k + 2
               len == 3
    <3>1. /\ s \in Seq(Char) /\ k \in 1..Len(s) /\ to \in k..Len(s) /\ len = to - k + 1
      BY <1>1, <1>4, <2>2, <2>3
    <3>2. 2 \in 1..len /\ k - 1 + 2 = k + 1
      BY <2>2
    <3> HIDE DEF to, len
    <3>3. \A i \in 1..len : SubSeq(s, k, to)[i] = s[k - 1 + i]
      BY ONLY <3>1, SliceReads
    <3>4. SubSeq(s, k, to)[2] = s[k - 1 + 2]
      BY ONLY <3>2, <3>3
    <3> QED BY <3>2, <3>4 DEF to
  <2>5. x = body
    <3>1. <<"(", x, ")">>[2] = x
      OBVIOUS
    <3> QED BY <2>2, <2>3, <2>4, <3>1
  <2> QED BY <1>19, <2>1, <2>2, <2>5
<1>10. cut \in Markers(s)
  BY <1>8 DEF Markers, part
<1> DEFINE first == Min(Markers(s))
<1>11. first \in Markers(s)
  <2> DEFINE T == Markers(s)
             len == n + 4
  <2>1. T \in SUBSET (1..len)
    BY <1>9
  <2>2. len \in Nat /\ T # {}
    BY <1>1, <1>10
  <2> HIDE DEF T, len
  <2>3. Min(T) \in T
    BY ONLY <2>1, <2>2, MinIsIn
  <2> QED BY <2>3 DEF T
<1>12. SubSeq(s, first, first + 2) = part /\ s[first + 1] = body
  BY <1>7, <1>9, <1>11
<1>13. LastIndex(s, part) = cut
  <2> DEFINE T == {p \in DOMAIN s : At(s, p, part)}
  <2>1. cut \in T /\ T \in SUBSET Int
    <3>1. cut \in T
      BY <1>8
    <3>2. \A p \in T : p \in 1..(n + 4)
      BY <1>6
    <3> HIDE DEF T
    <3>3. \A p \in T : p \in Int
      BY <3>2
    <3> QED BY <3>1, <3>3
  <2>2. \A p \in T : cut >= p
    <3> TAKE p \in T
    <3>1. p \in 1..(n + 4) /\ At(s, p, part)
      BY <1>6
    <3>2. p + 2 <= n + 4
      BY <1>7, <3>1
    <3> QED BY <1>1, <1>17, <3>1, <3>2
  <2> HIDE DEF T
  <2>3. Max(T) = cut
    BY ONLY <2>1, <2>2, MaxIs
  <2> QED BY <2>3 DEF LastIndex, T
<1>14. Working(s) = TrimSpace(SubSeq(s, 1, cut - 1))
  <2>1. Markers(s) # {}
    BY <1>10
  <2> QED BY <1>12, <1>13, <2>1 DEF Working
<1>15. TrimSpace(SubSeq(s, 1, cut - 1)) = w
  <2>1. cut - 1 = n + 1 /\ n < Len(s)
    BY <1>1, <1>4, <1>17
  <2>2. s \in Seq(Char) /\ s[n + 1] = Space /\ \A k \in 1..n : s[k] = w[k]
    BY <1>4
  <2>3. w \in Seq(Char) /\ Trimmed(w) /\ n = Len(w)
    BY <1>1
  <2>4. TrimSpace(SubSeq(s, 1, n + 1)) = w
    BY ONLY <2>1, <2>2, <2>3, SpaceBehind
  <2> QED BY <2>1, <2>4
<1>16. Numbers(s) = Marks[body]
  <2>1. Markers(s) # {}
    BY <1>10
  <2> QED BY <1>12, <2>1 DEF Numbers
<1> QED BY <1>4, <1>5, <1>14, <1>15, <1>16

\* A title is split into what it was made of.
LEMMA TitlesAreSplit ==
    ASSUME NEW title \in TitlePage
    PROVE  parseFeedTitle(TrimSpace(title.text)) = title.about
<1> DEFINE about == title.about
           s == title.text
           rest == IF about.name = <<>> THEN <<>> ELSE <<Space>> \o about.name \o <<".">>
           w == (((about.show \o <<Space, "(">>) \o about.orig) \o <<")", ".">>) \o rest
<1>1. about \in TitleParts /\ s \in Seq(Char)
  BY DEF TitlePage
<1>2. PICK mark \in {<<>>} \cup {<<body>> : body \in DOMAIN Marks} :
         /\ s = TitleText(about, mark)
         /\ about.number = IF mark = <<>> THEN <<0, 0>> ELSE Marks[mark[1]]
         /\ \A k \in Markers(s) : <<s[k + 1]>> = mark
  BY DEF TitlePage
<1>3. TitleText(about, mark)
        = w \o (IF mark = <<>> THEN <<>> ELSE <<Space, "(">> \o mark \o <<")">>)
  BY DEF TitleText
<1>4. rest = IF about.name = <<>> THEN <<>> ELSE <<Space>> \o about.name \o <<".">>
  OBVIOUS
<1>5. w = (((about.show \o <<Space, "(">>) \o about.orig) \o <<")", ".">>) \o rest
  OBVIOUS
<1> HIDE DEF about, s, rest, w
<1>6. /\ w \in Seq(Char) /\ Trimmed(w)
      /\ \A x : Working(x) = w /\ Numbers(x) = about.number => parseFeedTitle(x) = about
  BY ONLY <1>1, <1>4, <1>5, PartsRead
<1>7. CASE mark = <<>>
  <2>1. Markers(s) = {}
    <3> SUFFICES ASSUME NEW k \in Markers(s) PROVE FALSE
      OBVIOUS
    <3>1. <<s[k + 1]>> = <<>>
      BY <1>2, <1>7
    <3>2. Len(<<s[k + 1]>>) = 1 /\ Len(<<>>) = 0
      OBVIOUS
    <3> QED BY <3>1, <3>2
  <2>2. Working(s) = s /\ Numbers(s) = <<0, 0>>
    BY <2>1 DEF Working, Numbers
  <2>3. s = w
    <3>1. s = w \o <<>>
      BY <1>2, <1>3, <1>7
    <3> QED BY <1>6, <3>1, ConcatEmptySeq
  <2>4. parseFeedTitle(s) = about
    BY <1>2, <1>6, <1>7, <2>2, <2>3
  <2>5. TrimSpace(s) = s
    BY <1>6, <2>3, TrimmedStays
  <2> QED BY <2>4, <2>5 DEF about, s
<1>8. CASE mark # <<>>
  <2>1. PICK body \in DOMAIN Marks : mark = <<body>>
    BY <1>8
  <2>2. mark[1] = body
    BY <2>1
  <2>3. s = w \o (<<Space, "(">> \o <<body>> \o <<")">>)
    BY <1>2, <1>3, <1>8, <2>1
  <2>4. \A k \in Markers(s) : s[k + 1] = body
    <3> TAKE k \in Markers(s)
    <3>1. <<s[k + 1]>> = <<body>>
      BY <1>2, <2>1
    <3> QED BY <3>1
  <2>5. s \in Seq(Char) /\ Trimmed(s) /\ Working(s) = w /\ Numbers(s) = Marks[body]
    BY <1>6, <2>3, <2>4, WorkingIs
  <2>6. parseFeedTitle(s) = about
    BY <1>2, <1>6, <1>8, <2>2, <2>5
  <2>7. TrimSpace(s) = s
    BY <2>5, TrimmedStays
  <2> QED BY <2>6, <2>7 DEF about, s
<1> QED BY <1>7, <1>8

(***************************************************************************)
(* Download pages                                                          *)
(***************************************************************************)
\* The items with a link among the first k of a page, and how many they are.
LinkedUpTo(items, k) == {j \in {i \in DOMAIN items : HasHref(items[i])} : j <= k}
Count(items, k) == Cardinality(LinkedUpTo(items, k))

\* How many items have a link, from one item to the next.
LEMMA CountIs ==
    ASSUME NEW S, NEW items \in Seq(S)
    PROVE  /\ \A k \in Int : Count(items, k) \in Nat
           /\ LinkedUpTo(items, 0) = {} /\ Count(items, 0) = 0
           /\ \A k \in 1..Len(items) :
                 IF HasHref(items[k])
                    THEN /\ LinkedUpTo(items, k) = LinkedUpTo(items, k - 1) \cup {k}
                         /\ Count(items, k) = Count(items, k - 1) + 1
                    ELSE /\ LinkedUpTo(items, k) = LinkedUpTo(items, k - 1)
                         /\ Count(items, k) = Count(items, k - 1)
<1>1. Len(items) \in Nat /\ DOMAIN items = 1..Len(items)
  OBVIOUS
<1>2. ASSUME NEW k \in Int
      PROVE  IsFiniteSet(LinkedUpTo(items, k)) /\ Count(items, k) \in Nat
  <2>1. IsFiniteSet(1..Len(items))
    BY <1>1, FS_Interval
  <2>2. LinkedUpTo(items, k) \subseteq 1..Len(items)
    BY <1>1 DEF LinkedUpTo
  <2>3. IsFiniteSet(LinkedUpTo(items, k))
    BY <2>1, <2>2, FS_Subset
  <2> QED BY <2>3, FS_CardinalityType DEF Count
<1>3. LinkedUpTo(items, 0) = {}
  BY <1>1 DEF LinkedUpTo
<1>4. Count(items, 0) = 0
  BY <1>3, FS_EmptySet DEF Count
<1>5. ASSUME NEW k \in 1..Len(items), HasHref(items[k])
      PROVE  /\ LinkedUpTo(items, k) = LinkedUpTo(items, k - 1) \cup {k}
             /\ Count(items, k) = Count(items, k - 1) + 1
  <2>1. LinkedUpTo(items, k) = LinkedUpTo(items, k - 1) \cup {k}
    BY <1>1, <1>5 DEF LinkedUpTo
  <2>2. k \notin LinkedUpTo(items, k - 1)
    BY <1>1 DEF LinkedUpTo
  <2>3. IsFiniteSet(LinkedUpTo(items, k - 1))
    BY <1>1, <1>2
  <2> QED BY <2>1, <2>2, <2>3, FS_AddElement DEF Count
<1>6. ASSUME NEW k \in 1..Len(items), ~HasHref(items[k])
      PROVE  LinkedUpTo(items, k) = LinkedUpTo(items, k - 1)
  BY <1>1, <1>6 DEF LinkedUpTo
<1> QED BY <1>2, <1>3, <1>4, <1>5, <1>6 DEF Count

\* Each item with a link is answered, at its place among those with one.
LEMMA VariantsAre ==
    ASSUME NEW S, NEW items \in Seq(S)
    PROVE  LET result == parseTorrentVariants(items)
               n == Len(items)
           IN /\ Len(result) = Count(items, n)
              /\ \A j \in LinkedUpTo(items, n) : result[Count(items, j)] = VariantOf(items[j])
<1> DEFINE n == Len(items)
           V == {VariantOf(items[k]) : k \in 1..n}
           back == [k \in 1..n |-> k - 1]
           next == [kx \in (1..n) \X Seq(V) |->
                      IF HasHref(items[kx[1]]) THEN Append(kx[2], VariantOf(items[kx[1]])) ELSE kx[2]]
           Equation(u) ==
              u = [k \in 0..n |->
                     IF k = 0 THEN <<>>
                     ELSE IF HasHref(items[k]) THEN Append(u[k - 1], VariantOf(items[k]))
                     ELSE u[k - 1]]
<1>1. n \in Nat /\ \A k \in 1..n : VariantOf(items[k]) \in V
  OBVIOUS
<1>2. \A k \in 1..n : back[k] = k - 1 /\ back[k] \in 0..(k - 1)
  BY <1>1
<1>3. \A k \in 1..n : \A x \in Seq(V) :
        next[<<k, x>>] = IF HasHref(items[k]) THEN Append(x, VariantOf(items[k])) ELSE x
  OBVIOUS
<1> HIDE DEF V, n, back, next
<1>4. \A k \in 1..n : \A x \in Seq(V) : Append(x, VariantOf(items[k])) \in Seq(V)
  BY <1>1, AppendProperties
<1>5. Stepwise(Seq(V), n, back, next)
  BY <1>2, <1>3, <1>4 DEF Stepwise
<1>6. <<>> \in Seq(V)
  BY EmptySeq
<1>7. PICK f : Recursive(f, Seq(V), <<>>, n, back, next)
  BY ONLY <1>1, <1>5, <1>6, RecursionExists
<1>8. Equation(f)
  <2>1. /\ f \in [0..n -> Seq(V)] /\ f[0] = <<>>
        /\ \A k \in 1..n : f[k] = next[<<k, f[back[k]]>>]
    BY <1>7 DEF Recursive
  <2>2. ASSUME NEW k \in 1..n
        PROVE  f[k] = IF HasHref(items[k]) THEN Append(f[k - 1], VariantOf(items[k])) ELSE f[k - 1]
    <3>1. back[k] = k - 1 /\ k - 1 \in 0..n
      BY <1>1, <1>2
    <3>2. f[k] = next[<<k, f[k - 1]>>] /\ f[k - 1] \in Seq(V)
      BY <2>1, <3>1
    <3> QED BY <1>3, <3>2
  <2>3. ASSUME NEW k \in 0..n
        PROVE  f[k] = IF k = 0 THEN <<>>
                      ELSE IF HasHref(items[k]) THEN Append(f[k - 1], VariantOf(items[k]))
                      ELSE f[k - 1]
    <3>1. k = 0 \/ (k # 0 /\ k \in 1..n)
      BY <1>1
    <3> QED BY <2>1, <2>2, <3>1
  <2>4. f = [k \in 0..n |-> f[k]]
    BY <2>1
  <2> QED BY <2>3, <2>4
<1> DEFINE u == CHOOSE u : Equation(u)
<1>9. Equation(u)
  BY <1>8
<1>10. parseTorrentVariants(items) = u[n]
  BY DEF parseTorrentVariants, n
<1> HIDE DEF u
<1>11. /\ u[0] = <<>>
       /\ \A k \in 1..n :
            u[k] = IF HasHref(items[k]) THEN Append(u[k - 1], VariantOf(items[k])) ELSE u[k - 1]
  <2>1. \A k \in 0..n :
          u[k] = IF k = 0 THEN <<>>
                 ELSE IF HasHref(items[k]) THEN Append(u[k - 1], VariantOf(items[k])) ELSE u[k - 1]
    BY <1>9
  <2>2. 0 \in 0..n /\ \A k \in 1..n : k # 0 /\ k \in 0..n
    BY <1>1
  <2> QED BY <2>1, <2>2
<1> DEFINE Placed(k) ==
              /\ u[k] \in Seq(V) /\ Len(u[k]) = Count(items, k)
              /\ \A j \in LinkedUpTo(items, k) :
                    /\ Count(items, j) \in 1..Count(items, k)
                    /\ u[k][Count(items, j)] = VariantOf(items[j])
           T == {k \in Nat : k <= n => Placed(k)}
<1>12. Placed(0)
  BY <1>6, <1>11, CountIs
<1>13. ASSUME NEW k \in 1..n, Placed(k - 1) PROVE Placed(k)
  <2>1. k - 1 \in Int /\ k \in Int /\ Count(items, k - 1) \in Nat /\ Count(items, k) \in Nat
    BY <1>1, CountIs
  <2>2. CASE HasHref(items[k])
    <3> DEFINE x == u[k - 1]
               v == VariantOf(items[k])
               y == Append(x, v)
    <3>1. x \in Seq(V) /\ v \in V /\ Len(x) = Count(items, k - 1)
      BY <1>1, <1>13
    <3>2. u[k] = y
      BY <1>11, <2>2
    <3>3. /\ LinkedUpTo(items, k) = LinkedUpTo(items, k - 1) \cup {k}
          /\ Count(items, k) = Count(items, k - 1) + 1
      BY <2>2, CountIs DEF n
    <3>4. \A j \in LinkedUpTo(items, k - 1) :
             Count(items, j) \in 1..Count(items, k - 1) /\ x[Count(items, j)] = VariantOf(items[j])
      BY <1>13
    <3> HIDE DEF x, v
    <3>5. /\ y \in Seq(V) /\ Len(y) = Len(x) + 1 /\ y[Len(x) + 1] = v
          /\ \A i \in 1..Len(x) : y[i] = x[i]
      BY <3>1, AppendProperties
    <3> HIDE DEF y
    <3>6. Len(y) = Count(items, k)
      BY <3>1, <3>3, <3>5
    <3>7. ASSUME NEW j \in LinkedUpTo(items, k)
          PROVE  Count(items, j) \in 1..Count(items, k) /\ y[Count(items, j)] = VariantOf(items[j])
      <4>1. CASE j = k
        <5>1. y[Count(items, k)] = v /\ Count(items, k) \in 1..Count(items, k)
          BY <2>1, <3>1, <3>3, <3>5
        <5> QED BY <4>1, <5>1 DEF v
      <4>2. CASE j \in LinkedUpTo(items, k - 1)
        <5>1. /\ Count(items, j) \in 1..Count(items, k - 1)
              /\ x[Count(items, j)] = VariantOf(items[j])
          BY <3>4, <4>2
        <5>2. Count(items, j) \in 1..Len(x) /\ Count(items, j) \in 1..Count(items, k)
          BY <2>1, <3>1, <3>3, <5>1
        <5> QED BY <3>5, <5>1, <5>2
      <4> QED BY <3>3, <4>1, <4>2
    <3> QED BY <3>2, <3>5, <3>6, <3>7
  <2>3. CASE ~HasHref(items[k])
    <3>1. /\ u[k] = u[k - 1] /\ LinkedUpTo(items, k) = LinkedUpTo(items, k - 1)
          /\ Count(items, k) = Count(items, k - 1)
      BY <1>11, <2>3, CountIs DEF n
    <3> QED BY <1>13, <3>1
  <2> QED BY <2>2, <2>3
<1>14. ASSUME NEW k \in Nat, \A j \in Nat : j < k => j \in T PROVE k \in T
  <2> HIDE DEF Placed
  <2>1. CASE k = 0
    BY <1>12, <2>1
  <2>2. CASE k > 0 /\ k <= n
    <3>1. k - 1 \in Nat /\ k - 1 < k /\ k - 1 <= n /\ k \in 1..n
      BY <1>1, <2>2
    <3>2. Placed(k - 1)
      BY <1>14, <3>1
    <3> QED BY <1>13, <3>1, <3>2
  <2>3. CASE ~(k <= n)
    BY <2>3
  <2>4. k = 0 \/ (k > 0 /\ k <= n) \/ ~(k <= n)
    OBVIOUS
  <2> HIDE DEF T
  <2> QED BY <2>1, <2>2, <2>3, <2>4
<1>15. Placed(n)
  <2>1. n \in T
    <3> HIDE DEF T
    <3> QED BY <1>1, <1>14, StrongInduction
  <2> QED BY <2>1
<1> QED BY <1>10, <1>15 DEF n

(***************************************************************************)
(* Sizes                                                                   *)
(***************************************************************************)
\* A unit has as many bytes as the code says.
UnitBytes == [k \in 0..4 |-> IF k = 0 THEN 1 ELSE IF k = 1 THEN kiB ELSE IF k = 2 THEN miB
                             ELSE IF k = 3 THEN giB ELSE tiB]

LEMMA UnitSizeIs ==
    ASSUME NEW power \in 0..4
    PROVE  UnitSize(power) = UnitBytes[power] /\ UnitBytes[power] \in Nat
<1> DEFINE Equation(u) == u = [k \in 0..power |-> IF k = 0 THEN 1 ELSE Kilo * u[k - 1]]
           t == UnitBytes
<1>1. kiB \in Nat /\ miB \in Nat /\ giB \in Nat /\ tiB \in Nat
  <2>1. \A a, b \in Nat : a * b \in Nat
    OBVIOUS
  <2> QED BY <2>1, PagesAssumption DEF kiB, miB, giB, tiB
<1>2. /\ t[0] = 1 /\ t[1] = Kilo * t[0] /\ t[2] = Kilo * t[1]
      /\ t[3] = Kilo * t[2] /\ t[4] = Kilo * t[3]
  BY PagesAssumption DEF UnitBytes, kiB, miB, giB, tiB
<1>3. \A k \in 0..4 : t[k] \in Nat
  BY <1>1 DEF UnitBytes
<1> HIDE DEF t
<1>4. \A k \in 1..4 : t[k] = Kilo * t[k - 1]
  <2>1. \A k \in 1..4 : \/ k = 1 /\ k - 1 = 0
                        \/ k = 2 /\ k - 1 = 1
                        \/ k = 3 /\ k - 1 = 2
                        \/ k = 4 /\ k - 1 = 3
    OBVIOUS
  <2> QED BY <1>2, <2>1, Zenon
<1> DEFINE f == [k \in 0..power |-> t[k]]
<1>5. Equation(f)
  <2>1. ASSUME NEW k \in 0..power PROVE f[k] = IF k = 0 THEN 1 ELSE Kilo * f[k - 1]
    <3>1. CASE k = 0
      BY <1>2, <3>1
    <3>2. CASE k # 0
      <4>1. k \in 1..4 /\ k - 1 \in 0..power
        BY <3>2
      <4> QED BY <1>4, <3>2, <4>1
    <3> QED BY <3>1, <3>2
  <2> QED BY <2>1
<1> DEFINE u == CHOOSE u : Equation(u)
<1>6. Equation(u)
  BY <1>5
<1>7. UnitSize(power) = u[power]
  BY DEF UnitSize
<1> HIDE DEF u
<1>8. \A k \in 0..power : u[k] = IF k = 0 THEN 1 ELSE Kilo * u[k - 1]
  BY <1>6
<1>9. u[0] = t[0]
  BY <1>2, <1>8
<1>10. ASSUME NEW k \in 1..power, u[k - 1] = t[k - 1] PROVE u[k] = t[k]
  <2>1. k \in 0..power /\ k # 0 /\ k \in 1..4
    OBVIOUS
  <2>2. u[k] = Kilo * u[k - 1] /\ t[k] = Kilo * t[k - 1]
    BY <1>4, <1>8, <2>1
  <2> QED BY <1>10, <2>2
<1>11. /\ 1 <= power => u[1] = t[1]
       /\ 2 <= power => u[2] = t[2]
       /\ 3 <= power => u[3] = t[3]
       /\ 4 <= power => u[4] = t[4]
  <2>1. 1 <= power => u[1] = t[1]
    <3>1. 1 <= power => 1 \in 1..power /\ 1 - 1 = 0
      OBVIOUS
    <3> QED BY <1>9, <1>10, <3>1
  <2>2. 2 <= power => u[2] = t[2]
    <3>1. 2 <= power => 2 \in 1..power /\ 2 - 1 = 1 /\ 1 <= power
      OBVIOUS
    <3> QED BY <1>10, <2>1, <3>1
  <2>3. 3 <= power => u[3] = t[3]
    <3>1. 3 <= power => 3 \in 1..power /\ 3 - 1 = 2 /\ 2 <= power
      OBVIOUS
    <3> QED BY <1>10, <2>2, <3>1
  <2>4. 4 <= power => u[4] = t[4]
    <3>1. 4 <= power => 4 \in 1..power /\ 4 - 1 = 3 /\ 3 <= power
      OBVIOUS
    <3> QED BY <1>10, <2>3, <3>1
  <2> QED BY <2>1, <2>2, <2>3, <2>4
<1>12. u[power] = t[power]
  <2>1. power = 0 \/ power = 1 \/ power = 2 \/ power = 3 \/ power = 4
    OBVIOUS
  <2> QED BY <1>9, <1>11, <2>1
<1> QED BY <1>3, <1>7, <1>12 DEF t

\* In capital letters a unit is the name that the code compares it with.
LEMMA NamesAreSpelled ==
    ASSUME NEW unit \in Seq(Letter), NEW k \in 1..4
    PROVE  IsNamed(ToUpper(unit), Prefix[k]) <=> Spelled(unit, k)
<1> DEFINE prefix == Prefix[k]
           upper == ToUpper(unit)
<1>1. /\ DOMAIN unit = 1..Len(unit) /\ Len(unit) \in Nat
      /\ \A j \in 1..Len(unit) : unit[j] \in Letter
  OBVIOUS
<1>3. /\ DOMAIN upper = 1..Len(unit)
      /\ \A j \in 1..Len(unit) :
           upper[j] = [sound |-> unit[j].sound, cyrillic |-> unit[j].cyrillic, upper |-> TRUE]
  BY <1>1 DEF ToUpper
<1> HIDE DEF prefix, upper
<1>4. ASSUME NEW c \in BOOLEAN
      PROVE  /\ DOMAIN UnitName(prefix, c) = 1..2
             /\ UnitName(prefix, c)[1] = [sound |-> prefix, cyrillic |-> c, upper |-> TRUE]
             /\ UnitName(prefix, c)[2] = [sound |-> "B", cyrillic |-> c, upper |-> TRUE]
             /\ UnitName(prefix, c) = [j \in 1..2 |-> UnitName(prefix, c)[j]]
  BY DEF UnitName
<1>5. ASSUME NEW c \in BOOLEAN, upper = UnitName(prefix, c) PROVE Spelled(unit, k)
  <2>1. 1..Len(unit) = 1..2
    BY <1>3, <1>4, <1>5
  <2>2. Len(unit) = 2
    BY <1>1, <2>1
  <2>3. 1 \in 1..Len(unit) /\ 2 \in 1..Len(unit)
    BY <2>2
  <2>4. /\ [sound |-> unit[1].sound, cyrillic |-> unit[1].cyrillic, upper |-> TRUE]
             = [sound |-> prefix, cyrillic |-> c, upper |-> TRUE]
        /\ [sound |-> unit[2].sound, cyrillic |-> unit[2].cyrillic, upper |-> TRUE]
             = [sound |-> "B", cyrillic |-> c, upper |-> TRUE]
    BY <1>3, <1>4, <1>5, <2>3
  <2>5. /\ unit[1].sound = prefix /\ unit[2].sound = "B"
        /\ unit[1].cyrillic = c /\ unit[2].cyrillic = c
    BY <2>4
  <2> QED BY <2>2, <2>5 DEF Spelled, prefix
<1>6. ASSUME Spelled(unit, k) PROVE \E c \in BOOLEAN : upper = UnitName(prefix, c)
  <2> DEFINE c == unit[1].cyrillic
  <2>1. Len(unit) = 2 /\ unit[2].cyrillic = c /\ unit[1].sound = prefix /\ unit[2].sound = "B"
    BY <1>6 DEF Spelled, prefix
  <2>2. c \in BOOLEAN
    BY <1>1, <2>1 DEF Letter
  <2> HIDE DEF c
  <2>3. /\ upper[1] = [sound |-> prefix, cyrillic |-> c, upper |-> TRUE]
        /\ upper[2] = [sound |-> "B", cyrillic |-> c, upper |-> TRUE]
    <3>1. 1 \in 1..Len(unit) /\ 2 \in 1..Len(unit) /\ unit[1].cyrillic = c
      BY <2>1 DEF c
    <3> QED BY <1>3, <2>1, <3>1
  <2>4. \A j \in 1..2 : j = 1 \/ j = 2
    OBVIOUS
  <2>5. \A j \in 1..2 : upper[j] = UnitName(prefix, c)[j]
    BY <1>4, <2>2, <2>3, <2>4
  <2>6. upper = [j \in 1..2 |-> upper[j]]
    <3>1. upper = [j \in DOMAIN unit |-> upper[j]]
      BY DEF upper, ToUpper
    <3> QED BY <1>1, <2>1, <3>1
  <2>7. upper = UnitName(prefix, c)
    BY <1>4, <2>2, <2>5, <2>6
  <2> QED BY <2>2, <2>7
<1> QED BY <1>5, <1>6 DEF IsNamed, upper, prefix

\* A unit that is spelled has its multiplier, whatever its alphabet and case, and
\* any other counts bytes.
LEMMA MultiplierIs ==
    ASSUME NEW unit \in Seq(Letter), NEW power \in 0..Len(Prefix), UnitOf(unit, power)
    PROVE  unitMultiplier(unit) = UnitSize(power) /\ UnitSize(power) \in Nat
<1>1. /\ Len(Prefix) = 4 /\ DOMAIN Prefix = 1..4
      /\ Prefix[1] = "K" /\ Prefix[2] = "M" /\ Prefix[3] = "G" /\ Prefix[4] = "T"
  BY DEF Prefix
<1>2. power \in 0..4 /\ UnitSize(power) = UnitBytes[power] /\ UnitSize(power) \in Nat
  BY <1>1, UnitSizeIs
<1>3. /\ IsNamed(ToUpper(unit), "K") <=> Spelled(unit, 1)
      /\ IsNamed(ToUpper(unit), "M") <=> Spelled(unit, 2)
      /\ IsNamed(ToUpper(unit), "G") <=> Spelled(unit, 3)
      /\ IsNamed(ToUpper(unit), "T") <=> Spelled(unit, 4)
  <2>1. 1 \in 1..4 /\ 2 \in 1..4 /\ 3 \in 1..4 /\ 4 \in 1..4
    OBVIOUS
  <2>2. \A k \in 1..4 : IsNamed(ToUpper(unit), Prefix[k]) <=> Spelled(unit, k)
    BY NamesAreSpelled
  <2> QED BY <1>1, <2>1, <2>2
<1>4. /\ Spelled(unit, 1) => unit[1].sound = "K"
      /\ Spelled(unit, 2) => unit[1].sound = "M"
      /\ Spelled(unit, 3) => unit[1].sound = "G"
      /\ Spelled(unit, 4) => unit[1].sound = "T"
  BY <1>1 DEF Spelled
<1>5. /\ UnitBytes[0] = 1 /\ UnitBytes[1] = kiB /\ UnitBytes[2] = miB
      /\ UnitBytes[3] = giB /\ UnitBytes[4] = tiB
  BY DEF UnitBytes
<1>6. power = 0 => \A k \in 1..4 : ~Spelled(unit, k)
  BY <1>1 DEF UnitOf
<1>7. power # 0 => Spelled(unit, power)
  BY DEF UnitOf
<1>8. unitMultiplier(unit) = UnitBytes[power]
  <2>1. CASE power = 0
    <3>1. ~Spelled(unit, 1) /\ ~Spelled(unit, 2) /\ ~Spelled(unit, 3) /\ ~Spelled(unit, 4)
      BY <1>6, <2>1
    <3> QED BY <1>3, <1>5, <2>1, <3>1 DEF unitMultiplier, Multiplier
  <2>2. CASE power = 1
    <3>1. Spelled(unit, 1) /\ ~Spelled(unit, 2) /\ ~Spelled(unit, 3) /\ ~Spelled(unit, 4)
      BY <1>4, <1>7, <2>2
    <3> QED BY <1>3, <1>5, <2>2, <3>1 DEF unitMultiplier, Multiplier
  <2>3. CASE power = 2
    <3>1. ~Spelled(unit, 1) /\ Spelled(unit, 2) /\ ~Spelled(unit, 3) /\ ~Spelled(unit, 4)
      BY <1>4, <1>7, <2>3
    <3> QED BY <1>3, <1>5, <2>3, <3>1 DEF unitMultiplier, Multiplier
  <2>4. CASE power = 3
    <3>1. ~Spelled(unit, 1) /\ ~Spelled(unit, 2) /\ Spelled(unit, 3) /\ ~Spelled(unit, 4)
      BY <1>4, <1>7, <2>4
    <3> QED BY <1>3, <1>5, <2>4, <3>1 DEF unitMultiplier, Multiplier
  <2>5. CASE power = 4
    <3>1. ~Spelled(unit, 1) /\ ~Spelled(unit, 2) /\ ~Spelled(unit, 3) /\ Spelled(unit, 4)
      BY <1>4, <1>7, <2>5
    <3> QED BY <1>3, <1>5, <2>5, <3>1 DEF unitMultiplier, Multiplier
  <2>6. power = 0 \/ power = 1 \/ power = 2 \/ power = 3 \/ power = 4
    BY <1>2
  <2> QED BY <2>1, <2>2, <2>3, <2>4, <2>5, <2>6
<1> QED BY <1>2, <1>8

\* The least of one number.
LEMMA MinOfOne == ASSUME NEW x \in Int PROVE Min({x}) = x
<1>1. {x} \in SUBSET Int /\ x \in {x} /\ \A y \in {x} : x <= y
  OBVIOUS
<1> QED BY <1>1, MinIs

\* A number without a separator is its digits.
LEMMA WholeIsParsed ==
    ASSUME NEW number \in Seq(0..9), number # <<>>
    PROVE  ParseFloat(PointFor(number)) = {[digits |-> number, decimals |-> 0]}
<1>1. /\ Len(number) \in Nat /\ DOMAIN number = 1..Len(number)
      /\ \A k \in 1..Len(number) : number[k] \in 0..9
  OBVIOUS
<1>2. /\ {k \in DOMAIN number : number[k] = Comma} = {}
      /\ {k \in DOMAIN number : number[k] = Point} = {}
  BY <1>1 DEF Comma, Point
<1>3. PointFor(number) = number
  BY <1>2 DEF PointFor
<1>4. SubSeq(number, 1, (Len(number) + 1) - 1) = number
  <2>1. (Len(number) + 1) - 1 = Len(number) /\ 0 \in Nat /\ 0 + Len(number) <= Len(number)
        /\ 1 = 0 + 1 /\ Len(number) = 0 + Len(number)
    BY <1>1
  <2>2. \A k \in 1..Len(number) : number[0 + k] = number[k]
    <3>1. \A k \in 1..Len(number) : 0 + k = k
      BY <1>1
    <3> QED BY <3>1
  <2>3. SubSeq(number, 1, Len(number)) = number
    BY <2>1, <2>2, SliceIs
  <2> QED BY <2>1, <2>3
<1>5. SubSeq(number, (Len(number) + 1) + 1, Len(number)) = <<>>
  <2>1. (Len(number) + 1) + 1 \in Int /\ Len(number) \in Int /\ Len(number) < (Len(number) + 1) + 1
    BY <1>1
  <2> QED BY <2>1, SubSeqEmpty
<1>6. number \o <<>> = number
  OBVIOUS
<1>7. ToSet(number) \subseteq 0..9
  BY <1>1 DEF ToSet
<1> QED BY <1>2, <1>3, <1>4, <1>5, <1>6, <1>7 DEF ParseFloat

\* A text with one more between two parts.
LEMMA MiddleIs ==
    ASSUME NEW S, NEW a \in Seq(S), NEW x \in S, NEW c \in Seq(S), NEW n, n = Len(a),
           NEW text, text = (a \o <<x>>) \o c
    PROVE  /\ text \in Seq(S) /\ Len(text) = n + 1 + Len(c)
           /\ \A k \in 1..n : text[k] = a[k]
           /\ text[n + 1] = x
           /\ \A k \in 1..Len(c) : text[(n + 1) + k] = c[k]
           /\ SubSeq(text, 1, n) = a
           /\ SubSeq(text, (n + 1) + 1, Len(text)) = c
<1> DEFINE b == <<x>>
           m == n + 1
<1>1. b \in Seq(S) /\ Len(b) = 1 /\ b[1] = x /\ m = n + Len(b) /\ m = n + 1
  OBVIOUS
<1>2. text = (a \o b) \o c
  OBVIOUS
<1> HIDE DEF b, m
<1>3. /\ text \in Seq(S) /\ Len(text) = m + Len(c)
      /\ \A k \in 1..n : text[k] = a[k]
      /\ \A k \in 1..Len(b) : text[n + k] = b[k]
      /\ \A k \in 1..Len(c) : text[m + k] = c[k]
      /\ SubSeq(text, 1, n) = a
      /\ SubSeq(text, m + 1, Len(text)) = c
  <2>1. m = n + Len(b) /\ b \in Seq(S) /\ a \in Seq(S) /\ c \in Seq(S) /\ n = Len(a)
    BY <1>1
  <2> QED BY ONLY <1>2, <2>1, PartsAre
<1>4. text[n + 1] = x
  <2>1. 1 \in 1..Len(b)
    BY <1>1
  <2> QED BY <1>1, <1>3, <2>1
<1> QED BY <1>1, <1>3, <1>4

\* A number with one separator is its digits, those behind it decimals.
LEMMA DecimalsAreParsed ==
    ASSUME NEW whole \in Seq(0..9), whole # <<>>, NEW decimals \in Seq(0..9),
           NEW separator \in {Point, Comma}
    PROVE  ParseFloat(PointFor((whole \o <<separator>>) \o decimals))
             = {[digits |-> whole \o decimals, decimals |-> Len(decimals)]}
<1> DEFINE n == Len(whole)
           S == NumberChar
           Text(c) == (whole \o <<c>>) \o decimals
<1>1. n \in Nat /\ n > 0 /\ 0..9 \subseteq S /\ Point \in S /\ Comma \in S /\ separator \in S
  BY DEF NumberChar, Point, Comma
<1>2. whole \in Seq(S) /\ decimals \in Seq(S) /\ Len(decimals) \in Nat
  BY <1>1
<1>3. ASSUME NEW c \in S
      PROVE  /\ Text(c) \in Seq(S) /\ Len(Text(c)) = n + 1 + Len(decimals)
             /\ \A k \in 1..n : Text(c)[k] = whole[k]
             /\ Text(c)[n + 1] = c
             /\ \A k \in 1..Len(decimals) : Text(c)[(n + 1) + k] = decimals[k]
             /\ SubSeq(Text(c), 1, n) = whole
             /\ SubSeq(Text(c), (n + 1) + 1, Len(Text(c))) = decimals
  <2>1. Text(c) = (whole \o <<c>>) \o decimals /\ n = Len(whole)
    OBVIOUS
  <2> HIDE DEF Text, n, S
  <2> QED BY ONLY <1>2, <1>3, <2>1, MiddleIs
<1> HIDE DEF n, S, Text
<1>4. ASSUME NEW c \in S, NEW x, x = Text(c)
      PROVE  /\ DOMAIN x = 1..(n + 1 + Len(decimals)) /\ n + 1 \in DOMAIN x /\ x[n + 1] = c
             /\ \A k \in DOMAIN x : k # n + 1 => x[k] \in 0..9
             /\ \A k \in DOMAIN x : k # n + 1 => \A d \in S : Text(d)[k] = x[k]
  <2>1. DOMAIN x = 1..(n + 1 + Len(decimals))
    BY <1>3, <1>4
  <2>2. ASSUME NEW k \in DOMAIN x, k # n + 1
        PROVE  x[k] \in 0..9 /\ \A d \in S : Text(d)[k] = x[k]
    <3>1. CASE k <= n
      <4>1. k \in 1..n
        BY <1>1, <2>1, <3>1
      <4>2. whole[k] \in 0..9
        BY <4>1 DEF n
      <4> QED BY <1>3, <1>4, <4>1, <4>2
    <3>2. CASE ~(k <= n)
      <4> DEFINE j == k - (n + 1)
      <4>1. j \in 1..Len(decimals) /\ k = (n + 1) + j
        BY <1>1, <1>2, <2>1, <2>2, <3>2
      <4>2. decimals[j] \in 0..9
        BY <4>1
      <4> HIDE DEF j
      <4>3. \A d \in S : Text(d)[k] = decimals[j]
        BY <1>3, <4>1
      <4> QED BY <1>4, <4>2, <4>3
    <3> QED BY <3>1, <3>2
  <2>3. n + 1 \in DOMAIN x
    BY <1>1, <1>2, <2>1
  <2> QED BY <1>3, <1>4, <2>1, <2>2, <2>3
<1> DEFINE number == Text(separator)
           pointed == Text(Point)
<1>5. PointFor(number) = pointed
  <2>1. CASE separator = Point
    <3>1. \A k \in DOMAIN number : number[k] # Comma
      <4>1. ASSUME NEW k \in DOMAIN number PROVE number[k] # Comma
        <5>1. CASE k = n + 1
          BY <1>1, <1>4, <2>1, <5>1 DEF Comma, Point
        <5>2. CASE k # n + 1
          <6>1. number[k] \in 0..9
            BY <1>1, <1>4, <5>2
          <6> QED BY <6>1 DEF Comma
        <5> QED BY <5>1, <5>2
      <4> QED BY <4>1
    <3> QED BY <2>1, <3>1 DEF PointFor
  <2>2. CASE separator = Comma
    <3>1. {k \in DOMAIN number : number[k] = Comma} = {n + 1}
      <4>1. ASSUME NEW k \in DOMAIN number, k # n + 1 PROVE number[k] # Comma
        <5>1. number[k] \in 0..9
          BY <1>1, <1>4, <4>1
        <5> QED BY <5>1 DEF Comma
      <4>2. n + 1 \in DOMAIN number /\ number[n + 1] = Comma
        BY <1>1, <1>4, <2>2
      <4> QED BY <4>1, <4>2
    <3>2. Min({n + 1}) = n + 1
      BY <1>1, MinOfOne
    <3>3. PointFor(number) = [number EXCEPT ![n + 1] = Point]
      BY <3>1, <3>2 DEF PointFor
    <3>4. [number EXCEPT ![n + 1] = Point] = pointed
      <4> DEFINE x == [number EXCEPT ![n + 1] = Point]
      <4>1. /\ number \in Seq(S) /\ pointed \in Seq(S) /\ Len(pointed) = Len(number)
            /\ Len(number) = n + 1 + Len(decimals) /\ pointed[n + 1] = Point
        BY <1>1, <1>3
      <4>2. x \in Seq(S) /\ Len(x) = Len(number)
        BY <1>1, <4>1
      <4>3. ASSUME NEW k \in 1..Len(number) PROVE x[k] = pointed[k]
        <5>1. k \in DOMAIN number
          BY <4>1
        <5>2. CASE k = n + 1
          BY <4>1, <5>1, <5>2
        <5>3. CASE k # n + 1
          <6>1. pointed[k] = number[k]
            BY <1>1, <1>4, <5>1, <5>3
          <6> QED BY <5>1, <5>3, <6>1
        <5> QED BY <5>2, <5>3
      <4> HIDE DEF x, pointed, number
      <4>4. x = pointed
        BY <4>1, <4>2, <4>3, SeqEqual
      <4> QED BY <4>4 DEF x
    <3> QED BY <3>3, <3>4
  <2> QED BY <2>1, <2>2
<1>6. {k \in DOMAIN pointed : pointed[k] = Point} = {n + 1}
  <2>1. ASSUME NEW k \in DOMAIN pointed, k # n + 1 PROVE pointed[k] # Point
    <3>1. pointed[k] \in 0..9
      BY <1>1, <1>4, <2>1
    <3> QED BY <3>1 DEF Point
  <2>2. n + 1 \in DOMAIN pointed /\ pointed[n + 1] = Point
    BY <1>1, <1>4
  <2> QED BY <2>1, <2>2
<1>7. Min({n + 1}) = n + 1
  BY <1>1, MinOfOne
<1>8. /\ SubSeq(pointed, 1, n) = whole /\ SubSeq(pointed, (n + 1) + 1, Len(pointed)) = decimals
      /\ Len(pointed) = n + 1 + Len(decimals)
  BY <1>1, <1>3
<1>9. (n + 1) - 1 = n /\ Len(pointed) - (n + 1) = Len(decimals)
  BY <1>1, <1>2, <1>8
<1>10. whole \o decimals # <<>> /\ ToSet(whole \o decimals) \subseteq 0..9
  <2>1. whole \o decimals \in Seq(0..9) /\ Len(whole \o decimals) = n + Len(decimals)
    BY DEF n
  <2>2. Len(whole \o decimals) > 0
    BY <1>1, <1>2, <2>1
  <2> QED BY <2>1, <2>2 DEF ToSet
<1>11. {n + 1} # {}
  OBVIOUS
<1>12. ParseFloat(pointed) = {[digits |-> whole \o decimals, decimals |-> Len(decimals)]}
  <2> HIDE DEF pointed, number
  <2> QED BY <1>6, <1>7, <1>8, <1>9, <1>10, <1>11 DEF ParseFloat
<1> QED BY <1>5, <1>12 DEF Text

\* What is left of a text without one of its places.
LEMMA WithoutOne ==
    ASSUME NEW S, NEW r \in Seq(S), NEW p \in 1..(Len(r) + 1), NEW rest,
           rest = SubSeq(r, 1, p - 1) \o SubSeq(r, p + 1, Len(r))
    PROVE  /\ \A q \in DOMAIN r : q # p => r[q] \in ToSet(rest)
           /\ \A x \in ToSet(rest) : \E q \in DOMAIN r : x = r[q]
<1> DEFINE n == Len(r)
           a == SubSeq(r, 1, p - 1)
           b == SubSeq(r, p + 1, n)
<1>1. n \in Nat /\ DOMAIN r = 1..n /\ p - 1 \in Nat /\ \A k \in 1..n : r[k] \in S
  OBVIOUS
<1>2. a \in Seq(S) /\ Len(a) = p - 1 /\ \A k \in 1..(p - 1) : a[k] = r[k]
  <2>1. 1 \in Int /\ p - 1 \in Int /\ \A k \in 1..(p - 1) : r[k] \in S
    BY <1>1
  <2>2. /\ a \in Seq(S) /\ Len(a) = IF 1 <= p - 1 THEN (p - 1) - 1 + 1 ELSE 0
        /\ \A k \in 1..((p - 1) - 1 + 1) : a[k] = r[1 + k - 1]
    BY <2>1, SubSeqProperties
  <2>3. (p - 1) - 1 + 1 = p - 1 /\ \A k \in 1..(p - 1) : 1 + k - 1 = k
    BY <1>1
  <2>4. Len(a) = p - 1
    BY <1>1, <2>2
  <2> QED BY <2>2, <2>3, <2>4
<1>3. b \in Seq(S) /\ \A k \in 1..(n - p) : b[k] = r[p + k] /\ k \in 1..Len(b)
  <2>1. p + 1 \in Int /\ n \in Int /\ \A k \in (p + 1)..n : r[k] \in S
    BY <1>1
  <2>2. /\ b \in Seq(S) /\ Len(b) = IF p + 1 <= n THEN n - (p + 1) + 1 ELSE 0
        /\ \A k \in 1..(n - (p + 1) + 1) : b[k] = r[(p + 1) + k - 1]
    BY <2>1, SubSeqProperties
  <2>3. n - (p + 1) + 1 = n - p /\ \A k \in 1..(n - p) : (p + 1) + k - 1 = p + k
    BY <1>1
  <2>4. \A k \in 1..(n - p) : k \in 1..Len(b)
    BY <1>1, <2>2
  <2> QED BY <2>2, <2>3, <2>4
<1>4. Len(b) \in Nat /\ \A k \in 1..Len(b) : k \in 1..(n - p)
  <2>1. p + 1 \in Int /\ n \in Int /\ \A k \in (p + 1)..n : r[k] \in S
    BY <1>1
  <2>2. Len(b) = IF p + 1 <= n THEN n - (p + 1) + 1 ELSE 0
    BY <2>1, SubSeqProperties
  <2> QED BY <1>1, <2>2
<1> HIDE DEF a, b, n
<1>5. rest = a \o b
  BY DEF a, b, n
<1>6. /\ rest \in Seq(S) /\ Len(rest) = (p - 1) + Len(b)
      /\ \A k \in 1..(p - 1) : rest[k] = a[k]
      /\ \A k \in 1..Len(b) : rest[(p - 1) + k] = b[k]
  <2> DEFINE m == p - 1
  <2>1. a \in Seq(S) /\ b \in Seq(S) /\ m = Len(a)
    BY <1>2, <1>3
  <2> HIDE DEF m
  <2>2. /\ a \o b \in Seq(S) /\ Len(a \o b) = m + Len(b)
        /\ \A k \in 1..m : (a \o b)[k] = a[k]
        /\ \A k \in 1..Len(b) : (a \o b)[m + k] = b[k]
    BY ONLY <2>1, PairIs
  <2>3. /\ rest \in Seq(S) /\ Len(rest) = m + Len(b)
        /\ \A k \in 1..m : rest[k] = a[k]
        /\ \A k \in 1..Len(b) : rest[m + k] = b[k]
    BY ONLY <1>5, <2>2
  <2> QED BY ONLY <2>3 DEF m
<1>7. DOMAIN rest = 1..((p - 1) + Len(b))
  <2>1. rest \in Seq(S)
    BY <1>6
  <2>2. DOMAIN rest = 1..Len(rest)
    BY ONLY <2>1
  <2> QED BY <1>6, <2>2
<1>8. ASSUME NEW q \in DOMAIN r, q # p PROVE r[q] \in ToSet(rest)
  <2>1. CASE q < p
    <3>1. q \in 1..(p - 1) /\ q \in DOMAIN rest
      BY ONLY <1>1, <1>4, <1>7, <1>8, <2>1
    <3>2. rest[q] = r[q]
      BY <1>2, <1>6, <3>1
    <3> QED BY <3>1, <3>2 DEF ToSet
  <2>2. CASE ~(q < p)
    <3> DEFINE k == q - p
    <3>1. k \in 1..(n - p) /\ p + k = q
      BY <1>1, <1>8, <2>2
    <3> HIDE DEF k
    <3>2. k \in 1..Len(b) /\ b[k] = r[q]
      BY <1>1, <1>3, <3>1
    <3>3. rest[(p - 1) + k] = r[q]
      BY <1>6, <3>2
    <3>4. (p - 1) + k \in DOMAIN rest
      <4>1. p - 1 \in Nat /\ Len(b) \in Nat /\ k \in 1..Len(b)
        BY <1>1, <1>4, <3>2
      <4>2. (p - 1) + k \in 1..((p - 1) + Len(b))
        BY ONLY <4>1
      <4> QED BY <1>7, <4>2
    <3> QED BY <3>3, <3>4 DEF ToSet
  <2> QED BY <2>1, <2>2
<1>9. ASSUME NEW k \in DOMAIN rest PROVE \E q \in DOMAIN r : rest[k] = r[q]
  <2>0. k \in 1..((p - 1) + Len(b))
    BY <1>7
  <2>1. CASE k <= p - 1
    <3>1. k \in 1..(p - 1) /\ k \in DOMAIN r
      BY <1>1, <2>0, <2>1
    <3> QED BY <1>2, <1>6, <3>1
  <2>2. CASE ~(k <= p - 1)
    <3> DEFINE j == k - (p - 1)
    <3>1. j \in 1..Len(b) /\ k = (p - 1) + j
      BY <1>1, <1>4, <2>0, <2>2
    <3> HIDE DEF j
    <3>2. j \in 1..(n - p) /\ p + j \in DOMAIN r
      BY <1>1, <1>4, <3>1
    <3> QED BY <1>3, <1>6, <3>1, <3>2
  <2> QED BY <2>1, <2>2
<1>10. \A x \in ToSet(rest) : \E q \in DOMAIN r : x = r[q]
  BY <1>9 DEF ToSet
<1> QED BY <1>8, <1>10

\* A number without a digit, or with two separators, is refused.
LEMMA IllegibleIsRefused ==
    ASSUME NEW number \in Seq(NumberChar), Illegible(number)
    PROVE  ParseFloat(PointFor(number)) = {}
<1> DEFINE n == Len(number)
           r == PointFor(number)
           commas == {k \in DOMAIN number : number[k] = Comma}
           points == {k \in DOMAIN r : r[k] = Point}
           p == IF points = {} THEN n + 1 ELSE Min(points)
           digits == SubSeq(r, 1, p - 1) \o SubSeq(r, p + 1, Len(r))
<1>1. /\ n \in Nat /\ DOMAIN number = 1..n
      /\ Point \in NumberChar /\ Point \notin 0..9 /\ Comma \notin 0..9
  BY DEF NumberChar, Point, Comma
<1>2. /\ r \in Seq(NumberChar) /\ Len(r) = n
      /\ \A k \in 1..n : r[k] \in 0..9 <=> number[k] \in 0..9
  <2>1. CASE commas = {}
    BY <2>1 DEF PointFor
  <2>2. CASE commas # {}
    <3> DEFINE c == Min(commas)
    <3>1. r = [number EXCEPT ![c] = Point]
      BY <2>2 DEF PointFor
    <3>2. c \in commas
      <4>1. commas \in SUBSET (1..n) /\ n \in Nat
        BY <1>1
      <4> HIDE DEF commas, n
      <4> QED BY <2>2, <4>1, MinIsIn
    <3>3. c \in 1..n /\ number[c] = Comma
      BY <1>1, <3>2
    <3> HIDE DEF c, r
    <3>4. /\ r \in Seq(NumberChar) /\ Len(r) = n
          /\ \A k \in 1..n : r[k] = IF k = c THEN Point ELSE number[k]
      BY <1>1, <3>1, <3>3
    <3> QED BY <1>1, <3>3, <3>4
  <2> QED BY <2>1, <2>2
<1> HIDE DEF r, n
<1>3. DOMAIN r = 1..n
  BY <1>2
<1>4. p \in 1..(n + 1)
  <2>1. CASE points = {}
    BY <1>1, <2>1
  <2>2. CASE points # {}
    <3>1. points \in SUBSET (1..n) /\ n \in Nat
      BY <1>1, <1>3
    <3> HIDE DEF points
    <3>2. Min(points) \in points
      BY <2>2, <3>1, MinIsIn
    <3>3. Min(points) \in 1..n
      BY <3>1, <3>2
    <3>4. p = Min(points)
      BY <2>2 DEF p
    <3> QED BY <3>1, <3>3, <3>4
  <2> QED BY <2>1, <2>2
<1> HIDE DEF p
<1>5. /\ \A q \in 1..n : q # p => r[q] \in ToSet(digits)
      /\ \A x \in ToSet(digits) : \E q \in 1..n : x = r[q]
  <2>1. p \in 1..(Len(r) + 1)
    BY <1>2, <1>4
  <2>2. /\ \A q \in DOMAIN r : q # p => r[q] \in ToSet(digits)
        /\ \A x \in ToSet(digits) : \E q \in DOMAIN r : x = r[q]
    BY <1>2, <2>1, WithoutOne
  <2> QED BY <1>3, <2>2
<1>6. ASSUME digits # <<>> PROVE ToSet(digits) # {}
  <2>1. digits \in Seq(NumberChar)
    <3>1. \A from, to \in Int :
             (\A k \in from..to : r[k] \in NumberChar) => SubSeq(r, from, to) \in Seq(NumberChar)
      BY SubSeqProperties
    <3>2. p - 1 \in Int /\ p + 1 \in Int /\ 1 \in Int /\ Len(r) \in Int
      BY <1>1, <1>2, <1>4
    <3>3. /\ \A k \in 1..(p - 1) : r[k] \in NumberChar
          /\ \A k \in (p + 1)..Len(r) : r[k] \in NumberChar
      BY <1>1, <1>2, <1>4
    <3>4. SubSeq(r, 1, p - 1) \in Seq(NumberChar) /\ SubSeq(r, p + 1, Len(r)) \in Seq(NumberChar)
      BY <3>1, <3>2, <3>3
    <3> QED BY <3>4
  <2> HIDE DEF digits
  <2>2. 1 \in DOMAIN digits
    BY <1>6, <2>1
  <2> QED BY <2>2 DEF ToSet
<1> HIDE DEF digits
<1>7. digits # <<>> => ~(ToSet(digits) \subseteq 0..9)
  <2> SUFFICES ASSUME digits # <<>> PROVE \E x \in ToSet(digits) : x \notin 0..9
    OBVIOUS
  <2>1. CASE \A k \in DOMAIN number : number[k] \notin 0..9
    <3>1. \A k \in 1..n : r[k] \notin 0..9
      BY <1>1, <1>2, <2>1
    <3> QED BY <1>5, <1>6, <3>1
  <2>2. CASE \E j, k \in DOMAIN number : j < k /\ number[j] \notin 0..9 /\ number[k] \notin 0..9
    <3>1. PICK j \in 1..n, k \in 1..n : j < k /\ r[j] \notin 0..9 /\ r[k] \notin 0..9
      BY <1>1, <1>2, <2>2
    <3>2. j # p \/ k # p
      BY <3>1
    <3> QED BY <1>5, <3>1, <3>2
  <2> QED BY <2>1, <2>2 DEF Illegible
<1>8. ParseFloat(r) = {}
  <2>1. Len(r) = n
    BY <1>2
  <2> QED BY <1>7, <2>1 DEF ParseFloat, digits, p
<1> QED BY <1>8 DEF r

\* A number is the sum of its tens and units, ten times it is that of its hundreds and so on.
LEMMA Scaled ==
    ASSUME NEW w \in Nat, NEW m \in Nat, NEW a \in 0..9, NEW b \in 0..9
    PROVE  /\ ((100 * w) * m) \div 100 = w * m
           /\ ((100 * w + 10 * a) * m) \div 100 = ((10 * w + a) * m) \div 10
<1>1. w * m \in Nat /\ (100 * w) * m = 100 * (w * m)
  OBVIOUS
<1>2. (10 * w + a) * m \in Nat /\ (100 * w + 10 * a) * m = 10 * ((10 * w + a) * m)
  OBVIOUS
<1>3. \A x \in Nat : (100 * x) \div 100 = x /\ (10 * x) \div 100 = x \div 10
  OBVIOUS
<1> QED BY ONLY <1>1, <1>2, <1>3

\* What a sequence of one has.
LEMMA OneIs == ASSUME NEW S, NEW x \in Seq(S), Len(x) = 1 PROVE x # <<>> /\ x[1] \in S
OBVIOUS

\* The size in the variant is the one on the page, and 0 where none can be read.
LEMMA SizeIsStated ==
    ASSUME NEW item \in ItemOf
    PROVE  /\ VariantOf(item).size.bytes
                = IF item.stated = <<>> THEN 0 ELSE SizeInBytes(item.stated[1])
           /\ VariantOf(item).url = Href(item)
<1> DEFINE found == item.desc.size
           stated == item.stated
           size == found[1]
           about == stated[1]
           num(d, k) == [digits |-> d, decimals |-> k]
           M == UnitSize(about.power)
<1>1. VariantOf(item).size = parseSize(found) /\ VariantOf(item).url = Href(item)
  BY DEF VariantOf
<1>2. found \in Seq(SizeField) /\ stated \in Seq(StatedSize) /\ States(found, stated)
  BY DEF ItemOf
<1> HIDE DEF found, stated
<1>3. CASE stated = <<>>
  <2>1. CASE found = <<>>
    BY <1>1, <1>3, <2>1 DEF parseSize, stated
  <2>2. CASE Len(found) = 1 /\ Illegible(size.number)
    <3>1. found # <<>> /\ size \in SizeField
      BY <1>2, <2>2
    <3>2. size.number \in Seq(NumberChar)
      BY <3>1 DEF SizeField
    <3>3. ParseFloat(PointFor(size.number)) = {}
      BY <2>2, <3>2, IllegibleIsRefused
    <3>4. parseSize(found).bytes = 0
      BY <3>1, <3>3 DEF parseSize
    <3> QED BY <1>1, <1>3, <3>4 DEF stated
  <2>3. Len(stated) = 0
    BY <1>3
  <2> QED BY <1>2, <1>3, <2>1, <2>2, <2>3 DEF States
<1>4. CASE stated # <<>>
  <2>1. Len(found) = 1 /\ Len(stated) = 1 /\ UnitOf(size.unit, about.power)
    BY <1>2, <1>4 DEF States
  <2>2. found # <<>> /\ size \in SizeField
    BY <1>2, <2>1, OneIs
  <2>3. about \in StatedSize
    BY <1>2, <2>1, OneIs
  <2>4. /\ size.unit \in Seq(Letter)
        /\ about.whole \in Nat /\ about.cents \in 0..99 /\ about.power \in 0..Len(Prefix)
    BY <2>2, <2>3 DEF SizeField, StatedSize
  <2>5. PICK ending \in Decimals(about.cents) : size.number = Numeral(about.whole) \o ending
    <3>1. \E ending \in Decimals(stated[1].cents) :
             found[1].number = Numeral(stated[1].whole) \o ending
      BY <1>2, <1>4, Zenon DEF States
    <3> QED BY <3>1, Zenon
  <2>6. unitMultiplier(size.unit) = M /\ M \in Nat
    BY <2>1, <2>4, MultiplierIs
  <2> DEFINE w == about.whole
             c == about.cents
             s == Numeral(w)
             a == c \div 10
             b == c % 10
  <2>7. s \in Seq(0..9) /\ s # <<>> /\ Value(s) = w /\ w \in Nat /\ s \in Seq(Nat)
    <3>1. s \in Seq(0..9) /\ s # <<>> /\ Value(s) = w
      BY <2>4, NumeralIs
    <3> QED BY <2>4, <3>1
  <2>8. a \in 0..9 /\ b \in 0..9 /\ c = 10 * a + b
    <3>1. c \in Nat /\ c <= 99
      <4>1. about.cents \in 0..99 /\ c = about.cents
        BY <2>4
      <4> HIDE DEF c
      <4> QED BY <4>1
    <3>2. a \in Nat /\ b \in 0..9 /\ 10 * a + b = c
      <4> HIDE DEF c
      <4> QED BY <3>1, DivMod
    <3> HIDE DEF a, b, c
    <3> QED BY <3>1, <3>2
  <2>9. SizeInBytes(about) = ((100 * w + c) * M) \div 100
    BY DEF SizeInBytes
  <2>10. \/ ending = <<>> /\ c = 0
         \/ \E x \in {Point, Comma} : ending = <<x, a>> /\ b = 0
         \/ \E x \in {Point, Comma} : ending = <<x, a, b>>
    BY <2>5 DEF Decimals
  <2>11. ASSUME NEW d, NEW k, ParseFloat(PointFor(size.number)) = {num(d, k)}
         PROVE  parseSize(found).bytes = (Value(d) * M) \div 10^k
    <3>1. ParseFloat(PointFor(size.number)) # {}
      BY <2>11
    <3>2. (CHOOSE y \in {num(d, k)} : TRUE) = num(d, k)
      OBVIOUS
    <3>3. num(d, k).digits = d /\ num(d, k).decimals = k
      OBVIOUS
    <3> HIDE DEF num
    <3> QED BY <2>2, <2>6, <2>11, <3>1, <3>2, <3>3 DEF parseSize
  <2> HIDE DEF a, b, c, w, s, M, size, num
  <2>12. parseSize(found).bytes = ((100 * w + c) * M) \div 100
    <3>1. CASE ending = <<>> /\ c = 0
      <4>1. size.number = s
        BY <2>5, <2>7, <3>1 DEF s, w
      <4>2. parseSize(found).bytes = (Value(s) * M) \div 10^0
        BY <2>7, <2>11, <4>1, WholeIsParsed DEF num
      <4>3. w * M \in Nat /\ 10^0 = 1
        BY <2>6, <2>7
      <4>4. (w * M) \div 10^0 = w * M
        BY <4>3
      <4>5. ((100 * w) * M) \div 100 = w * M
        BY <2>6, <2>7, <2>8, Scaled
      <4>6. 100 * w + c = 100 * w
        BY <2>7, <3>1
      <4> QED BY <2>7, <4>2, <4>4, <4>5, <4>6
    <3>2. ASSUME NEW x \in {Point, Comma}, ending = <<x, a>>, b = 0
          PROVE  parseSize(found).bytes = ((100 * w + c) * M) \div 100
      <4>1. size.number = (s \o <<x>>) \o <<a>>
        <5>1. <<x>> \in Seq(Nat) /\ <<a>> \in Seq(Nat) /\ <<x, a>> = <<x>> \o <<a>>
          BY <2>8 DEF Point, Comma
        <5> QED BY <2>5, <2>7, <3>2, <5>1, ConcatAssociative DEF s, w
      <4>2. <<a>> \in Seq(0..9) /\ Len(<<a>>) = 1
        BY <2>8
      <4>3. parseSize(found).bytes = (Value(s \o <<a>>) * M) \div 10^1
        BY <2>7, <2>11, <4>1, <4>2, DecimalsAreParsed DEF num
      <4>4. Value(s \o <<a>>) = 10 * w + a
        <5>1. s \o <<a>> = Append(s, a) /\ a \in Nat
          BY <2>7, <2>8
        <5> QED BY <2>7, <5>1, ValueAppend
      <4>5. 100 * w + c = 100 * w + 10 * a /\ 10^1 = 10
        BY <2>7, <2>8, <3>2
      <4>6. ((100 * w + 10 * a) * M) \div 100 = ((10 * w + a) * M) \div 10
        BY <2>6, <2>7, <2>8, Scaled
      <4> QED BY <4>3, <4>4, <4>5, <4>6
    <3>3. ASSUME NEW x \in {Point, Comma}, ending = <<x, a, b>>
          PROVE  parseSize(found).bytes = ((100 * w + c) * M) \div 100
      <4>1. size.number = (s \o <<x>>) \o <<a, b>>
        <5>1. <<x>> \in Seq(Nat) /\ <<a, b>> \in Seq(Nat) /\ <<x, a, b>> = <<x>> \o <<a, b>>
          BY <2>8 DEF Point, Comma
        <5>2. size.number = s \o (<<x>> \o <<a, b>>)
          BY <2>5, <3>3, <5>1 DEF s, w
        <5>3. s \o (<<x>> \o <<a, b>>) = (s \o <<x>>) \o <<a, b>>
          BY ONLY <2>7, <5>1, ConcatAssociative
        <5> QED BY <5>2, <5>3
      <4>2. <<a, b>> \in Seq(0..9) /\ Len(<<a, b>>) = 2
        BY <2>8
      <4>3. parseSize(found).bytes = (Value(s \o <<a, b>>) * M) \div 10^2
        BY <2>7, <2>11, <4>1, <4>2, DecimalsAreParsed DEF num
      <4>4. Value(s \o <<a, b>>) = 10 * (10 * w + a) + b
        <5>1. s \o <<a, b>> = Append(Append(s, a), b) /\ a \in Nat /\ b \in Nat
          BY <2>7, <2>8
        <5>2. Value(Append(s, a)) = 10 * w + a /\ Append(s, a) \in Seq(Nat)
          BY <2>7, <5>1, ValueAppend, AppendProperties
        <5> QED BY <5>1, <5>2, ValueAppend
      <4>5. 10 * (10 * w + a) + b = 100 * w + c /\ 10^2 = 100
        BY <2>7, <2>8
      <4> QED BY <4>3, <4>4, <4>5
    <3> QED BY <2>10, <3>1, <3>2, <3>3
  <2> QED BY <1>1, <1>4, <2>9, <2>12 DEF stated
<1> QED BY <1>1, <1>3, <1>4

(***************************************************************************)
(* File names                                                              *)
(***************************************************************************)
\* A set of places has a last one.
LEMMA MaxIsIn ==
    ASSUME NEW n \in Nat, NEW T \in SUBSET (1..n), T # {}
    PROVE  Max(T) \in T
<1> DEFINE D == {d \in Nat : n - d \in T}
<1>1. PICK x \in T : TRUE
  OBVIOUS
<1>2. n - x \in D
  <2>1. x \in 1..n
    BY <1>1
  <2>2. n - x \in Nat /\ n - (n - x) = x
    BY <2>1
  <2> QED BY <1>1, <2>2
<1>3. PICK d \in D : \A k \in D : ~ (k < d)
  <2>1. D \subseteq Nat /\ D # {}
    BY <1>2
  <2> HIDE DEF D
  <2> QED BY ONLY <2>1, LeastNatural
<1>4. n - d \in T /\ d \in Nat
  BY <1>3
<1>5. \A y \in T : n - d >= y
  <2> TAKE y \in T
  <2>1. y \in 1..n
    OBVIOUS
  <2>2. n - y \in Nat /\ n - (n - y) = y
    BY <2>1
  <2>3. ~ (n - y < d)
    BY <1>3, <2>2
  <2> QED BY <1>4, <2>1, <2>2, <2>3
<1>6. T \in SUBSET Int
  OBVIOUS
<1>7. Max(T) = n - d
  <2> DEFINE m == n - d
  <2>1. m \in T /\ \A y \in T : m >= y
    BY <1>4, <1>5
  <2> HIDE DEF m, D
  <2>2. Max(T) = m
    BY ONLY <1>6, <2>1, MaxIs
  <2> QED BY <2>2 DEF m
<1> QED BY <1>4, <1>7

\* A text is a text when it is trimmed.
LEMMA TrimRightType ==
    ASSUME NEW S, NEW text \in Seq(S), NEW cut
    PROVE  TrimRight(text, cut) \in Seq(S)
<1> DEFINE kept == {j \in DOMAIN text : text[j] \notin cut}
<1>1. kept \in SUBSET (1..Len(text)) /\ Len(text) \in Nat
  OBVIOUS
<1>2. CASE kept = {}
  BY <1>2 DEF TrimRight
<1>3. CASE kept # {}
  <2>1. Max(kept) \in 1..Len(text)
    <3> HIDE DEF kept
    <3> QED BY <1>1, <1>3, MaxIsIn
  <2>2. TrimRight(text, cut) = SubSeq(text, 1, Max(kept))
    BY <1>3 DEF TrimRight
  <2> HIDE DEF kept
  <2> QED BY <2>1, <2>2, SubSeqProperties
<1> QED BY <1>2, <1>3

\* The base name of a path is a text of the same characters.
LEMMA BaseNameType ==
    ASSUME NEW text \in Seq(DOMAIN Utf8)
    PROVE  BaseName(text) \in Seq(DOMAIN Utf8)
<1> DEFINE trimmed == TrimRight(text, {"/"})
           slashes == {k \in DOMAIN trimmed : trimmed[k] = "/"}
<1>1. trimmed \in Seq(DOMAIN Utf8)
  BY TrimRightType
<1>2. "." \in DOMAIN Utf8 /\ "/" \in DOMAIN Utf8
  BY DEF Utf8
<1>3. CASE text = <<>>
  <2>1. BaseName(text) = <<".">>
    <3>1. TrimRight(<<>>, {"/"}) = <<>>
      BY DEF TrimRight
    <3> QED BY <1>3, <3>1 DEF BaseName
  <2>2. <<".">> \in Seq(DOMAIN Utf8)
    BY ONLY <1>2
  <2> QED BY <2>1, <2>2
<1>4. CASE text # <<>> /\ trimmed = <<>>
  <2>1. BaseName(text) = <<"/">>
    BY <1>4 DEF BaseName, Slash
  <2>2. <<"/">> \in Seq(DOMAIN Utf8)
    BY ONLY <1>2
  <2> QED BY <2>1, <2>2
<1>5. CASE text # <<>> /\ trimmed # <<>> /\ slashes = {}
  BY <1>1, <1>5 DEF BaseName
<1>6. CASE text # <<>> /\ trimmed # <<>> /\ slashes # {}
  <2>1. BaseName(text) = SubSeq(trimmed, Max(slashes) + 1, Len(trimmed))
    BY <1>6 DEF BaseName
  <2>2. slashes \in SUBSET (1..Len(trimmed)) /\ Len(trimmed) \in Nat
    BY <1>1
  <2>3. Max(slashes) \in 1..Len(trimmed)
    <3> HIDE DEF slashes, trimmed
    <3> QED BY <1>6, <2>2, MaxIsIn
  <2> HIDE DEF slashes, trimmed
  <2> QED BY <1>1, <2>1, <2>2, <2>3, SubSeqProperties
<1> QED BY <1>3, <1>4, <1>5, <1>6

\* The plain name is never without a letter, and never unsafe.
LEMMA PlainIsSafe ==
    ASSUME NEW name
    PROVE  /\ ToSet(safeFilename(name)) \cap Alphanumeric # {}
           /\ ToSet(safeFilename(name)) \subseteq SafeChars
<1> DEFINE cleaned == [k \in DOMAIN name |-> IF name[k] \in SafeChars THEN name[k] ELSE "_"]
<1>1. ToSet(cleaned) \subseteq SafeChars
  BY DEF ToSet, SafeChars, attrChars
<1>2. ToSet(fallbackFilename) = {"a", "."}
  <2>1. DOMAIN fallbackFilename = 1..3
    BY DEF fallbackFilename
  <2>2. /\ fallbackFilename[1] = "a" /\ fallbackFilename[2] = "." /\ fallbackFilename[3] = "a"
    BY DEF fallbackFilename
  <2> QED BY <2>1, <2>2 DEF ToSet
<1>3. /\ ToSet(fallbackFilename) \cap Alphanumeric # {}
      /\ ToSet(fallbackFilename) \subseteq SafeChars
  BY <1>2 DEF Alphanumeric, SafeChars, attrChars
<1>4. safeFilename(name)
        = IF ToSet(cleaned) \cap Alphanumeric = {} THEN fallbackFilename ELSE cleaned
  BY DEF safeFilename
<1> HIDE DEF cleaned
<1> QED BY <1>1, <1>3, <1>4

\* A sequence of texts put together, text by text.
Joins(u, S, seqs) ==
    /\ u \in [0..Len(seqs) -> Seq(S)]
    /\ u[0] = <<>> /\ \A k \in 1..Len(seqs) : u[k] = u[k - 1] \o seqs[k]

\* Texts are put together one after the other.
LEMMA FlattenJoins ==
    ASSUME NEW S, NEW seqs \in Seq(Seq(S))
    PROVE  \E u : Joins(u, S, seqs) /\ FlattenSeq(seqs) = u[Len(seqs)]
<1> DEFINE n == Len(seqs)
           back == [k \in 1..n |-> k - 1]
           next == [kx \in (1..n) \X Seq(S) |-> kx[2] \o seqs[kx[1]]]
           Equation(u) == u = [i \in 1..n |-> IF i = 1 THEN seqs[i] ELSE u[i - 1] \o seqs[i]]
<1>1. n \in Nat /\ \A k \in 1..n : seqs[k] \in Seq(S)
  OBVIOUS
<1>2. \A k \in 1..n : back[k] = k - 1 /\ back[k] \in 0..(k - 1)
  BY <1>1
<1>3. \A k \in 1..n : \A x \in Seq(S) : next[<<k, x>>] = x \o seqs[k]
  OBVIOUS
<1>4. n = Len(seqs)
  OBVIOUS
<1> HIDE DEF n, back, next
<1>5. \A k \in 1..n : \A x \in Seq(S) : x \o seqs[k] \in Seq(S)
  BY <1>1, ConcatProperties
<1>6. Stepwise(Seq(S), n, back, next)
  BY <1>2, <1>3, <1>5 DEF Stepwise
<1>7. <<>> \in Seq(S)
  BY EmptySeq
<1>8. PICK f : Recursive(f, Seq(S), <<>>, n, back, next)
  BY ONLY <1>1, <1>6, <1>7, RecursionExists
<1>9. f \in [0..n -> Seq(S)] /\ f[0] = <<>> /\ \A k \in 1..n : f[k] = f[k - 1] \o seqs[k]
  <2>1. f \in [0..n -> Seq(S)] /\ f[0] = <<>> /\ \A k \in 1..n : f[k] = next[<<k, f[back[k]]>>]
    BY <1>8 DEF Recursive
  <2>2. ASSUME NEW k \in 1..n PROVE f[k] = f[k - 1] \o seqs[k]
    <3>1. back[k] = k - 1 /\ k - 1 \in 0..n
      BY <1>1, <1>2
    <3>2. f[k] = next[<<k, f[k - 1]>>] /\ f[k - 1] \in Seq(S)
      BY <2>1, <3>1
    <3> QED BY <1>3, <3>2
  <2> QED BY <2>1, <2>2
<1>10. Joins(f, S, seqs)
  BY <1>4, <1>9 DEF Joins
<1>11. CASE n = 0
  <2>1. seqs = <<>>
    BY <1>4, <1>11, EmptySeq
  <2>2. FlattenSeq(seqs) = seqs
    BY <1>4, <1>11 DEF FlattenSeq
  <2> QED BY <1>4, <1>9, <1>10, <1>11, <2>1, <2>2
<1>12. CASE n # 0
  <2> DEFINE g == [i \in 1..n |-> f[i]]
  <2>1. f[1] = seqs[1]
    <3>1. 1 \in 1..n /\ 1 - 1 = 0
      BY <1>1, <1>12
    <3>2. f[1] = <<>> \o seqs[1] /\ seqs[1] \in Seq(S)
      BY <1>1, <1>9, <3>1
    <3> QED BY <3>2, ConcatEmptySeq
  <2>2. Equation(g)
    <3>1. ASSUME NEW i \in 1..n PROVE g[i] = IF i = 1 THEN seqs[i] ELSE g[i - 1] \o seqs[i]
      <4>1. CASE i = 1
        BY <2>1, <4>1
      <4>2. CASE i # 1
        <5>1. i - 1 \in 1..n
          BY <1>1, <4>2
        <5> QED BY <1>9, <4>2, <5>1
      <4> QED BY <4>1, <4>2
    <3>2. g = [i \in 1..n |-> g[i]]
      OBVIOUS
    <3> HIDE DEF g
    <3> QED BY <3>1, <3>2
  <2> DEFINE u == CHOOSE u : Equation(u)
  <2>3. Equation(u)
    <3> HIDE DEF g
    <3> QED BY <2>2
  <2>4. FlattenSeq(seqs) = u[n]
    BY <1>4, <1>12 DEF FlattenSeq, n
  <2> HIDE DEF u
  <2> DEFINE T == {k \in Nat : k \in 1..n => u[k] = f[k]}
  <2>5. \A i \in 1..n : u[i] = IF i = 1 THEN seqs[i] ELSE u[i - 1] \o seqs[i]
    BY <2>3
  <2>6. ASSUME NEW k \in Nat, \A j \in Nat : j < k => j \in T PROVE k \in T
    <3>1. CASE k = 1
      BY <2>1, <2>5, <3>1
    <3>2. CASE k \in 1..n /\ k # 1
      <4>1. k - 1 \in 1..n /\ k - 1 \in Nat /\ k - 1 < k
        BY <1>1, <3>2
      <4>2. u[k - 1] = f[k - 1]
        BY <2>6, <4>1
      <4>3. u[k] = u[k - 1] \o seqs[k] /\ f[k] = f[k - 1] \o seqs[k]
        BY <1>9, <2>5, <3>2
      <4> QED BY <4>2, <4>3
    <3>3. CASE k \notin 1..n
      BY <3>3
    <3> HIDE DEF T
    <3> QED BY <3>1, <3>2, <3>3
  <2>7. n \in T
    <3> HIDE DEF T
    <3> QED BY <1>1, <2>6, StrongInduction
  <2>8. u[n] = f[n]
    BY <1>1, <1>12, <2>7
  <2> QED BY <1>4, <1>10, <2>4, <2>8
<1> QED BY <1>11, <1>12

\* How a client reads an extended name back, from each of its places.
Escaped(text, k) == text[k] = "%" /\ k < Len(text)
Byte(h) == IF \E b \in DOMAIN Hex : Hex[b] = h
              THEN CHOOSE b \in DOMAIN Hex : Hex[b] = h ELSE <<"byte", h>>

Unescapes(u, text) ==
    \A k \in 1..(Len(text) + 2) :
        u[k] = IF k > Len(text) THEN <<>>
               ELSE IF Escaped(text, k) THEN <<Byte(text[k + 1])>> \o u[k + 2]
               ELSE <<text[k]>> \o u[k + 1]

\* An extended name is read as its places say.
LEMMA UnescapeReads ==
    ASSUME NEW S, NEW text \in Seq(S)
    PROVE  \E u : Unescapes(u, text) /\ PathUnescape(text) = u[1]
<1> DEFINE n == Len(text)
           Texts == Seq({text[k] : k \in 1..n} \cup {Byte(text[k]) : k \in 1..n})
           N == n + 2
           \* The place read after a place, both counted from the end.
           back == [i \in 1..(n + 1) |->
                      IF i = 1 THEN 0 ELSE IF Escaped(text, N - i) THEN i - 2 ELSE i - 1]
           next == [ix \in (1..(n + 1)) \X Texts |->
                      IF ix[1] = 1 THEN <<>>
                      ELSE IF Escaped(text, N - ix[1])
                         THEN <<Byte(text[N - ix[1] + 1])>> \o ix[2]
                         ELSE <<text[N - ix[1]]>> \o ix[2]]
           Equation(u) ==
              u = [k \in 1..(n + 2) |->
                     IF k > n THEN <<>>
                     ELSE IF text[k] = "%" /\ k < n THEN <<Byte(text[k + 1])>> \o u[k + 2]
                     ELSE <<text[k]>> \o u[k + 1]]
<1>1. n \in Nat /\ n + 1 \in Nat /\ N \in Nat /\ N = n + 2
  OBVIOUS
<1>2. \A i \in 1..(n + 1) :
        back[i] = IF i = 1 THEN 0 ELSE IF Escaped(text, N - i) THEN i - 2 ELSE i - 1
  OBVIOUS
<1>3. \A i \in 1..(n + 1) : back[i] \in 0..(i - 1)
  BY <1>1
<1>4. \A i \in 1..(n + 1) : \A x \in Texts :
        next[<<i, x>>] = IF i = 1 THEN <<>>
                         ELSE IF Escaped(text, N - i) THEN <<Byte(text[N - i + 1])>> \o x
                         ELSE <<text[N - i]>> \o x
  OBVIOUS
<1>5. <<>> \in Texts
  BY EmptySeq
<1>6. \A i \in 2..(n + 1) : \A x \in Texts :
         /\ <<text[N - i]>> \o x \in Texts
         /\ Escaped(text, N - i) => <<Byte(text[N - i + 1])>> \o x \in Texts
  <2> TAKE i \in 2..(n + 1)
  <2> TAKE x \in Texts
  <2>1. N - i \in 1..n
    BY <1>1
  <2>2. <<text[N - i]>> \in Texts
    BY <2>1
  <2>3. Escaped(text, N - i) => <<Byte(text[N - i + 1])>> \in Texts
    <3> SUFFICES ASSUME Escaped(text, N - i) PROVE <<Byte(text[N - i + 1])>> \in Texts
      OBVIOUS
    <3>1. N - i + 1 \in 1..n
      BY <1>1, <2>1 DEF Escaped
    <3> QED BY <3>1, SMTT(30)
  <2> QED BY <2>2, <2>3, ConcatProperties
<1>7. \A i \in 1..(n + 1) : \A x \in Texts : next[<<i, x>>] \in Texts
  <2> HIDE DEF Texts, next, N
  <2> TAKE i \in 1..(n + 1)
  <2> TAKE x \in Texts
  <2>1. i = 1 \/ (i # 1 /\ i \in 2..(n + 1))
    BY <1>1
  <2> QED BY <1>4, <1>5, <1>6, <2>1
<1> HIDE DEF Texts, next, back, N
<1>8. Stepwise(Texts, n + 1, back, next)
  BY <1>3, <1>7 DEF Stepwise
<1>9. PICK f : Recursive(f, Texts, <<>>, n + 1, back, next)
  BY ONLY <1>1, <1>5, <1>8, RecursionExists
<1>10. /\ f \in [0..(n + 1) -> Texts] /\ f[0] = <<>>
       /\ \A i \in 1..(n + 1) : f[i] = next[<<i, f[back[i]]>>]
  BY <1>9 DEF Recursive
<1> DEFINE g == [k \in 1..(n + 2) |-> f[N - k]]
<1>11. ASSUME NEW k \in 1..(n + 2)
       PROVE  g[k] = IF k > n THEN <<>>
                     ELSE IF text[k] = "%" /\ k < n THEN <<Byte(text[k + 1])>> \o g[k + 2]
                     ELSE <<text[k]>> \o g[k + 1]
  <2> DEFINE i == N - k
  <2>1. i \in 0..(n + 1) /\ N - i = k /\ g[k] = f[i]
    BY <1>1
  <2>2. CASE i = 0
    BY <1>1, <1>10, <2>1, <2>2
  <2>3. CASE i = 1
    <3>1. /\ f[1] = next[<<1, f[back[1]]>>] /\ back[1] \in 0..0
          /\ 1 \in 1..(n + 1) /\ 0 \in 0..(n + 1)
      BY <1>1, <1>3, <1>10
    <3>2. f[0] \in Texts /\ back[1] = 0
      BY <1>10, <3>1
    <3>3. f[1] = <<>>
      BY <1>4, <3>1, <3>2
    <3>4. k > n /\ g[k] = <<>>
      BY <1>1, <2>1, <2>3, <3>3
    <3> HIDE DEF g
    <3> QED BY <3>4
  <2>4. CASE i > 1
    <3>1. /\ i \in 1..(n + 1) /\ i # 1 /\ k \in 1..n /\ i - 1 \in 0..(n + 1) /\ i - 2 \in 0..(n + 1)
          /\ k + 1 \in 1..(n + 2) /\ k + 2 \in 1..(n + 2)
          /\ N - (k + 1) = i - 1 /\ N - (k + 2) = i - 2
      BY <1>1, <2>1, <2>4
    <3>2. g[k + 1] = f[i - 1] /\ g[k + 2] = f[i - 2]
      BY <3>1
    <3>3. f[i - 1] \in Texts /\ f[i - 2] \in Texts /\ f[i] = next[<<i, f[back[i]]>>]
      BY <1>10, <3>1
    <3> HIDE DEF g, i
    <3>4. back[i] = IF Escaped(text, k) THEN i - 2 ELSE i - 1
      BY <1>2, <2>1, <3>1
    <3>5. f[i] = IF Escaped(text, k) THEN <<Byte(text[k + 1])>> \o f[i - 2]
                 ELSE <<text[k]>> \o f[i - 1]
      BY <1>4, <2>1, <3>1, <3>3, <3>4
    <3>6. Escaped(text, k) <=> text[k] = "%" /\ k < n
      BY DEF Escaped
    <3>7. ~(k > n)
      BY <1>1, <3>1
    <3> QED BY <2>1, <3>2, <3>5, <3>6, <3>7
  <2>5. i = 0 \/ i = 1 \/ i > 1
    BY <2>1
  <2> QED BY <2>2, <2>3, <2>4, <2>5
<1>12. g = [k \in 1..(n + 2) |-> g[k]]
  OBVIOUS
<1> HIDE DEF g
<1>13. Equation(g)
  BY <1>11, <1>12
<1> DEFINE u == CHOOSE u : Equation(u)
<1>14. Equation(u)
  BY <1>13
<1>15. PathUnescape(text) = u[1]
  BY DEF PathUnescape, Byte
<1> HIDE DEF u
<1>16. Unescapes(u, text)
  BY <1>14 DEF Unescapes, Escaped
<1> QED BY <1>15, <1>16

\* The bytes of a name, and how one of them is written in the extended name.
ByteOf == UNION {ToSet(Utf8[c]) : c \in DOMAIN Utf8}
Written(b) == IF b \in Alphanumeric \cup attrChars THEN <<b>> ELSE <<"%", Hex[b]>>

\* Each byte is written as itself or as an escape, and an escape stands for one byte.
LEMMA BytesAre ==
    /\ ByteOf \subseteq Alphanumeric \cup attrChars \cup DOMAIN Hex
    /\ "%" \notin Alphanumeric \cup attrChars
    /\ \A c \in DOMAIN Utf8 : Utf8[c] \in Seq(ByteOf)
    /\ \A b \in DOMAIN Hex : Byte(Hex[b]) = b
<1>1. DOMAIN Utf8 = {"a", "41", ".", Space, "/", "\"", "%", "ya"}
  BY DEF Utf8
<1>2. \A c \in DOMAIN Utf8 : Utf8[c] = IF c = "ya" THEN <<"D1", "8F">> ELSE <<c>>
  BY DEF Utf8
<1>3. \A c \in DOMAIN Utf8 : ToSet(Utf8[c]) = IF c = "ya" THEN {"D1", "8F"} ELSE {c}
  <2>1. ASSUME NEW x PROVE ToSet(<<x>>) = {x}
    <3>1. DOMAIN <<x>> = {1} /\ <<x>>[1] = x
      OBVIOUS
    <3> QED BY <3>1 DEF ToSet
  <2>2. ASSUME NEW x, NEW y PROVE ToSet(<<x, y>>) = {x, y}
    <3>1. DOMAIN <<x, y>> = {1, 2} /\ <<x, y>>[1] = x /\ <<x, y>>[2] = y
      OBVIOUS
    <3> QED BY <3>1 DEF ToSet
  <2> QED BY <1>2, <2>1, <2>2
<1>4. ByteOf \subseteq {"a", "41", ".", Space, "/", "\"", "%", "D1", "8F"}
  <2> SUFFICES ASSUME NEW b \in ByteOf
               PROVE  b \in {"a", "41", ".", Space, "/", "\"", "%", "D1", "8F"}
    OBVIOUS
  <2>1. PICK c \in DOMAIN Utf8 : b \in ToSet(Utf8[c])
    BY DEF ByteOf
  <2>2. b \in {"D1", "8F"} \/ b = c
    BY <1>3, <2>1
  <2>3. b = c => c # "ya"
    BY <1>3, <2>1
  <2> QED BY <1>1, <2>2, <2>3
<1>5. DOMAIN Hex = {Space, "/", "\"", "%", "D1", "8F"}
  BY DEF Hex
<1>6. ByteOf \subseteq Alphanumeric \cup attrChars \cup DOMAIN Hex
  BY <1>4, <1>5 DEF Alphanumeric, attrChars
<1>7. "%" \notin Alphanumeric \cup attrChars
  BY DEF Alphanumeric, attrChars
<1>8. ASSUME NEW c \in DOMAIN Utf8 PROVE Utf8[c] \in Seq(ByteOf)
  <2>1. ToSet(Utf8[c]) \subseteq ByteOf
    BY DEF ByteOf
  <2>2. CASE c = "ya"
    <3>1. "D1" \in ByteOf /\ "8F" \in ByteOf
      BY <1>3, <2>1, <2>2
    <3>2. <<"D1", "8F">> \in Seq(ByteOf)
      BY ONLY <3>1
    <3> QED BY <1>2, <2>2, <3>2
  <2>3. CASE c # "ya"
    <3>1. c \in ByteOf
      BY <1>3, <2>1, <2>3
    <3>2. <<c>> \in Seq(ByteOf)
      BY ONLY <3>1
    <3> QED BY <1>2, <2>3, <3>2
  <2> QED BY <2>2, <2>3
<1>9. /\ Hex[Space] = "20" /\ Hex["/"] = "2F" /\ Hex["\""] = "22" /\ Hex["%"] = "25"
      /\ Hex["D1"] = "D1" /\ Hex["8F"] = "8F"
  BY DEF Hex, Space
<1>10. \A b, c \in DOMAIN Hex : Hex[b] = Hex[c] => b = c
  BY <1>5, <1>9 DEF Space
<1>11. ASSUME NEW b \in DOMAIN Hex PROVE Byte(Hex[b]) = b
  BY <1>10 DEF Byte
<1> QED BY <1>6, <1>7, <1>8, <1>11

\* What is joined so far is at the front of what is joined in the end.
LEMMA JoinsGrow ==
    ASSUME NEW S, NEW seqs \in Seq(Seq(S)), NEW u, Joins(u, S, seqs)
    PROVE  \A k \in 0..Len(seqs) :
              /\ u[k] \in Seq(S) /\ Len(u[k]) <= Len(u[Len(seqs)])
              /\ \A p \in 1..Len(u[k]) : u[Len(seqs)][p] = u[k][p]
<1> DEFINE n == Len(seqs)
           end == u[n]
           Leads(k) == Len(u[k]) <= Len(end) /\ \A p \in 1..Len(u[k]) : end[p] = u[k][p]
           T == {d \in Nat : d <= n => Leads(n - d)}
<1>1. /\ n \in Nat /\ u \in [0..n -> Seq(S)]
      /\ \A k \in 1..n : u[k] = u[k - 1] \o seqs[k] /\ seqs[k] \in Seq(S)
  <2>1. n \in Nat /\ \A k \in 1..n : seqs[k] \in Seq(S)
    OBVIOUS
  <2>2. u \in [0..n -> Seq(S)] /\ \A k \in 1..n : u[k] = u[k - 1] \o seqs[k]
    BY DEF Joins
  <2> QED BY <2>1, <2>2
<1> HIDE DEF n
<1>2. ASSUME NEW d \in Nat, \A j \in Nat : j < d => j \in T PROVE d \in T
  <2>1. CASE d = 0
    <3>1. n - d = n
      BY <1>1, <2>1
    <3>2. end \in Seq(S)
      BY <1>1
    <3> HIDE DEF end
    <3>3. Len(end) \in Nat
      BY <3>2
    <3>4. Leads(n)
      BY <3>3 DEF end
    <3> HIDE DEF Leads
    <3> QED BY <3>1, <3>4
  <2>2. CASE d > 0 /\ d <= n
    <3> DEFINE k == n - d
    <3>1. /\ d - 1 \in Nat /\ d - 1 < d /\ d - 1 <= n /\ n - (d - 1) = k + 1
          /\ k + 1 \in 1..n /\ k \in 0..n
      BY <1>1, <2>2
    <3>2. Leads(k + 1)
      <4> HIDE DEF Leads
      <4>1. d - 1 \in T
        BY <1>2, <3>1
      <4> QED BY <3>1, <4>1
    <3> HIDE DEF k, end
    <3>3. u[k + 1] = u[k] \o seqs[k + 1] /\ u[k] \in Seq(S) /\ seqs[k + 1] \in Seq(S)
      <4>1. (k + 1) - 1 = k
        BY <3>1
      <4> QED BY <1>1, <3>1, <4>1
    <3> DEFINE x == u[k]
               y == seqs[k + 1]
               m == Len(x)
    <3>4. u[k + 1] = x \o y /\ x \in Seq(S) /\ y \in Seq(S) /\ m = Len(x)
      BY <3>3
    <3>5. Len(u[k + 1]) <= Len(end) /\ \A p \in 1..Len(u[k + 1]) : end[p] = u[k + 1][p]
      BY <3>2
    <3> HIDE DEF x, y, m
    <3>6. /\ m \in Nat /\ Len(y) \in Nat /\ Len(x \o y) = m + Len(y)
          /\ \A p \in 1..m : (x \o y)[p] = x[p]
      BY ONLY <3>4, PairIs
    <3>7. m <= Len(u[k + 1]) /\ \A p \in 1..m : u[k + 1][p] = x[p]
      BY <3>4, <3>6
    <3>8. end \in Seq(S) /\ Len(end) \in Nat /\ Len(u[k + 1]) \in Nat
      BY <1>1, <3>1 DEF end
    <3>9. m <= Len(end) /\ \A p \in 1..m : end[p] = x[p]
      BY <3>5, <3>6, <3>7, <3>8
    <3>10. Leads(k)
      BY <3>4, <3>9 DEF x
    <3> HIDE DEF Leads
    <3> QED BY <3>10 DEF k
  <2>3. CASE ~(d <= n)
    BY <2>3
  <2>4. d = 0 \/ (d > 0 /\ d <= n) \/ ~(d <= n)
    OBVIOUS
  <2> HIDE DEF T
  <2> QED BY <2>1, <2>2, <2>3, <2>4
<1>3. Nat \subseteq T
  <2> HIDE DEF T
  <2> QED BY <1>2, StrongInduction
<1>4. ASSUME NEW k \in 0..n PROVE Leads(k)
  <2>1. n - k \in Nat /\ n - k <= n /\ n - (n - k) = k
    BY <1>1
  <2> HIDE DEF Leads
  <2> QED BY <1>3, <2>1
<1> QED BY <1>1, <1>4 DEF n

\* What is written of the bytes of a name is read back as them.
LEMMA WrittenIsRead ==
    ASSUME NEW bytes \in Seq(ByteOf)
    PROVE  PathUnescape(FlattenSeq([k \in DOMAIN bytes |-> Written(bytes[k])])) = bytes
<1> DEFINE S == ByteOf \cup {"%"} \cup {Hex[b] : b \in DOMAIN Hex}
           pieces == [k \in DOMAIN bytes |-> Written(bytes[k])]
           text == FlattenSeq(pieces)
           m == Len(bytes)
           L == Len(text)
<1>1. m \in Nat /\ DOMAIN bytes = 1..m /\ \A k \in 1..m : bytes[k] \in ByteOf
  OBVIOUS
<1>2. \A k \in 1..m : pieces[k] = Written(bytes[k])
  BY <1>1
<1>3. ASSUME NEW b \in ByteOf
      PROVE  \/ Written(b) = <<b>> /\ b # "%"
             \/ /\ Written(b) = <<"%", Hex[b]>> /\ Byte(Hex[b]) = b
                /\ b \in DOMAIN Hex
  <2>1. CASE b \in Alphanumeric \cup attrChars
    BY <2>1, BytesAre DEF Written
  <2>2. CASE b \notin Alphanumeric \cup attrChars
    <3>1. b \in DOMAIN Hex
      BY <2>2, BytesAre
    <3>2. Byte(Hex[b]) = b
      BY <3>1, BytesAre
    <3> QED BY <2>2, <3>1, <3>2 DEF Written
  <2> QED BY <2>1, <2>2
<1>4. ASSUME NEW b \in ByteOf PROVE Written(b) \in Seq(S)
  <2>1. b \in S /\ "%" \in S
    OBVIOUS
  <2>2. CASE Written(b) = <<b>>
    BY ONLY <2>1, <2>2
  <2>3. CASE Written(b) = <<"%", Hex[b]>> /\ b \in DOMAIN Hex
    <3>1. Hex[b] \in S
      BY <2>3
    <3> QED BY ONLY <2>1, <2>3, <3>1
  <2> QED BY <1>3, <2>2, <2>3
<1> HIDE DEF S
<1>5. pieces \in Seq(Seq(S)) /\ Len(pieces) = m
  <2>1. pieces \in [1..m -> Seq(S)]
    BY <1>1, <1>4
  <2> QED BY <1>1, <2>1
<1>6. PICK u : Joins(u, S, pieces) /\ text = u[Len(pieces)]
  <2> HIDE DEF pieces
  <2> QED BY ONLY <1>5, FlattenJoins DEF text
<1> HIDE DEF pieces, text
<1>7. /\ u \in [0..m -> Seq(S)] /\ u[0] = <<>> /\ text = u[m] /\ text \in Seq(S)
      /\ \A k \in 1..m : u[k] = u[k - 1] \o Written(bytes[k])
  <2>1. /\ u \in [0..m -> Seq(S)] /\ u[0] = <<>> /\ text = u[m]
        /\ \A k \in 1..m : u[k] = u[k - 1] \o pieces[k]
    BY <1>5, <1>6 DEF Joins
  <2>2. m \in 0..m
    BY <1>1
  <2>3. text \in Seq(S)
    BY <2>1, <2>2
  <2> QED BY <1>2, <2>1, <2>3
<1>8. \A k \in 0..m : /\ u[k] \in Seq(S) /\ Len(u[k]) <= L
                      /\ \A p \in 1..Len(u[k]) : text[p] = u[k][p]
  BY <1>5, <1>6, JoinsGrow
<1>9. PICK from : Unescapes(from, text) /\ PathUnescape(text) = from[1]
  BY <1>7, UnescapeReads
<1>10. L \in Nat
  BY <1>7
<1>15. \A k \in 1..(L + 2) :
          from[k] = IF k > L THEN <<>>
                    ELSE IF text[k] = "%" /\ k < L THEN <<Byte(text[k + 1])>> \o from[k + 2]
                    ELSE <<text[k]>> \o from[k + 1]
  BY <1>9 DEF Unescapes, Escaped
<1> HIDE DEF m, L
<1> DEFINE Rest(j) == from[Len(u[j]) + 1] = SubSeq(bytes, j + 1, m)
           T == {d \in Nat : d <= m => Rest(m - d)}
<1>11. ASSUME NEW d \in Nat, \A j \in Nat : j < d => j \in T PROVE d \in T
  <2>1. CASE d = 0
    <3>1. m - d = m /\ Len(u[m]) = L /\ L + 1 > L /\ L + 1 \in 1..(L + 2)
      BY <1>1, <1>7, <1>10, <2>1 DEF L
    <3>2. from[L + 1] = <<>>
      BY <1>15, <3>1
    <3>3. SubSeq(bytes, m + 1, m) = <<>>
      BY <1>1, SubSeqEmpty
    <3> QED BY <3>1, <3>2, <3>3
  <2>2. CASE d > 0 /\ d <= m
    <3> DEFINE j == m - d
               b == bytes[j + 1]
               x == u[j]
               n == Len(x)
               y == u[j + 1]
    <3>1. /\ d - 1 \in Nat /\ d - 1 < d /\ d - 1 <= m /\ m - (d - 1) = j + 1
          /\ j + 1 \in 1..m /\ j \in 0..m /\ j + 1 \in 0..m /\ (j + 1) - 1 = j /\ (j + 1) + 1 = j + 2
      BY <1>1, <2>2
    <3>2. from[Len(y) + 1] = SubSeq(bytes, j + 2, m)
      <4>1. Rest(j + 1)
        <5> HIDE DEF Rest
        <5>1. d - 1 \in T
          BY <1>11, <3>1
        <5> QED BY <3>1, <5>1
      <4> HIDE DEF j
      <4> QED BY <3>1, <4>1
    <3> HIDE DEF j
    <3>3. b \in ByteOf /\ y = x \o Written(b) /\ x \in Seq(S) /\ Written(b) \in Seq(S)
      <4>1. b \in ByteOf
        BY <1>1, <3>1
      <4> QED BY <1>4, <1>7, <3>1, <4>1
    <3>4. Len(y) <= L /\ \A p \in 1..Len(y) : text[p] = y[p]
      BY <1>8, <3>1
    <3>5. n = Len(x)
      OBVIOUS
    <3>6. SubSeq(bytes, j + 1, m) = <<b>> \o SubSeq(bytes, j + 2, m)
      <4>1. j + 1 \in 1..Len(bytes) /\ m \in (j + 1)..Len(bytes) /\ m = Len(bytes)
        BY <1>1, <3>1 DEF m
      <4>2. SubSeq(bytes, j + 1, m) = <<bytes[j + 1]>> \o SubSeq(bytes, (j + 1) + 1, m)
        BY ONLY bytes \in Seq(ByteOf), <4>1, SubSeqRecursiveFirst
      <4> QED BY <3>1, <4>2
    <3> HIDE DEF b, x, y, n
    <3>7. /\ n \in Nat /\ Len(Written(b)) \in Nat /\ Len(y) = n + Len(Written(b))
          /\ \A k \in 1..Len(Written(b)) : y[n + k] = Written(b)[k]
      BY ONLY <3>3, <3>5, PairIs
    <3>8. ASSUME Written(b) = <<b>>, b # "%" PROVE from[n + 1] = SubSeq(bytes, j + 1, m)
      <4>1. Len(Written(b)) = 1 /\ Written(b)[1] = b
        BY <3>8
      <4>2. Len(y) = n + 1 /\ n + 1 <= L /\ y[n + 1] = b
        BY <3>4, <3>7, <4>1
      <4>3. text[n + 1] = b /\ n + 1 \in 1..(L + 2) /\ ~(n + 1 > L) /\ n + 1 \in 1..Len(y)
        BY <1>10, <3>4, <3>7, <4>2
      <4>4. from[n + 1] = <<text[n + 1]>> \o from[n + 1 + 1]
        BY <1>15, <3>8, <4>3
      <4>5. from[n + 1 + 1] = SubSeq(bytes, j + 2, m)
        BY <3>2, <4>2
      <4> QED BY <3>6, <4>3, <4>4, <4>5
    <3>9. ASSUME Written(b) = <<"%", Hex[b]>>, Byte(Hex[b]) = b
          PROVE  from[n + 1] = SubSeq(bytes, j + 1, m)
      <4>1. Len(Written(b)) = 2 /\ Written(b)[1] = "%" /\ Written(b)[2] = Hex[b]
        BY <3>9
      <4>2. Len(y) = n + 2 /\ n + 2 <= L /\ y[n + 1] = "%" /\ y[n + 2] = Hex[b]
        BY <3>4, <3>7, <4>1
      <4>3. /\ n + 1 \in 1..Len(y) /\ n + 2 \in 1..Len(y) /\ n + 1 \in 1..(L + 2)
            /\ ~(n + 1 > L) /\ n + 1 < L /\ n + 1 + 1 = n + 2 /\ n + 1 + 2 = Len(y) + 1
        BY <1>10, <3>7, <4>2
      <4>4. text[n + 1] = "%" /\ text[n + 2] = Hex[b]
        BY <3>4, <4>2, <4>3
      <4>5. from[n + 1] = <<Byte(text[n + 1 + 1])>> \o from[n + 1 + 2]
        BY <1>15, <4>3, <4>4
      <4>6. from[n + 1] = <<b>> \o SubSeq(bytes, j + 2, m)
        BY <3>2, <3>9, <4>3, <4>4, <4>5
      <4> QED BY <3>6, <4>6
    <3>10. from[n + 1] = SubSeq(bytes, j + 1, m)
      BY <1>3, <3>3, <3>8, <3>9
    <3>11. Rest(m - d)
      BY <3>10 DEF j, x, n
    <3> HIDE DEF Rest
    <3> QED BY <3>11
  <2>3. CASE ~(d <= m)
    BY <2>3
  <2>4. d = 0 \/ (d > 0 /\ d <= m) \/ ~(d <= m)
    BY <1>1
  <2> HIDE DEF T
  <2> QED BY <2>1, <2>2, <2>3, <2>4
<1>12. Rest(0)
  <2>1. Nat \subseteq T
    <3> HIDE DEF T
    <3> QED BY <1>11, StrongInduction
  <2>2. m \in Nat /\ m <= m /\ m - m = 0
    BY <1>1
  <2> HIDE DEF Rest
  <2> QED BY <2>1, <2>2
<1>13. Len(u[0]) + 1 = 1 /\ SubSeq(bytes, 0 + 1, m) = bytes
  <2>1. Len(u[0]) = 0 /\ 0 + 1 = 1
    BY <1>7
  <2> QED BY <2>1, SubSeqFull DEF m
<1>14. from[1] = bytes
  BY <1>12, <1>13
<1> QED BY <1>9, <1>14 DEF text, pieces

(***************************************************************************)
(* The answers                                                             *)
(***************************************************************************)
\* A page is one of the site, and what was answered is what its parser returns.
Answered ==
    /\ page \in Row \cup Link \cup Title \cup Variants \cup Filename
    /\ Parsed("row") => answer.value = episodeIDs(page.code, page.token)
    /\ Parsed("link") => answer.value = normalizeSeriesLink(page.text)
    /\ Parsed("title") => answer.value = parseFeedTitle(TrimSpace(page.text))
    /\ Parsed("variants") => answer.value = parseTorrentVariants(page.items)
    /\ Parsed("filename") =>
          answer.value = [plain |-> safeFilename(BaseName(page.text)),
                          extended |-> rfc5987Value(BaseName(page.text))]

\* A page that was not read has no answer.
LEMMA NothingIsAnswered ==
    ASSUME answer = NoAnswer, NEW kind
    PROVE  ~Parsed(kind)
BY DEF Parsed, NoAnswer

\* What was answered stays what the parser of the page returns.
LEMMA AnswersAreTheParsers == PageSpec => []Answered
<1>1. PageInit => Answered
  BY NothingIsAnswered DEF PageInit, Answered
<1>2. Answered /\ [PageNext]_pageVars => Answered'
  <2> SUFFICES ASSUME Answered, [PageNext]_pageVars PROVE Answered'
    OBVIOUS
  <2>1. ASSUME NEW kind, NEW a, Answer(kind, a)
        PROVE  page.kind = kind /\ page' = page /\ answer'.value = a
    BY <2>1 DEF Answer
  <2>2. CASE ReadRow
    BY <2>1, <2>2 DEF Answered, Parsed, ReadRow
  <2>3. CASE ReadLink
    BY <2>1, <2>3 DEF Answered, Parsed, ReadLink
  <2>4. CASE ReadTitle
    BY <2>1, <2>4 DEF Answered, Parsed, ReadTitle
  <2>5. CASE ReadVariants
    BY <2>1, <2>5 DEF Answered, Parsed, ReadVariants
  <2>6. CASE NameFile
    BY <2>1, <2>6 DEF Answered, Parsed, NameFile
  <2>7. CASE UNCHANGED pageVars
    BY <2>7 DEF Answered, Parsed, pageVars
  <2> QED BY <2>2, <2>3, <2>4, <2>5, <2>6, <2>7 DEF PageNext
<1> QED BY <1>1, <1>2, PTL DEF PageSpec

\* The kinds of the pages tell their sets apart.
LEMMA KindsTellPages ==
    ASSUME page \in Row \cup Link \cup Title \cup Variants \cup Filename
    PROVE  /\ page.kind = "row" => page \in RowPage
           /\ page.kind = "link" => page \in LinkPage
           /\ page.kind = "title" => page \in TitlePage
           /\ page.kind = "variants" => page \in VariantsPage
           /\ page.kind = "filename" => page \in FilenamePage
<1>1. page \in RowPage => page.kind = "row"
  BY DEF RowPage
<1>2. page \in LinkPage => page.kind = "link"
  BY DEF LinkPage
<1>3. page \in TitlePage => page.kind = "title"
  BY DEF TitlePage
<1>4. page \in VariantsPage => page.kind = "variants"
  BY DEF VariantsPage
<1>5. page \in FilenamePage => page.kind = "filename"
  BY DEF FilenamePage
<1>6. \/ page \in RowPage \/ page \in LinkPage \/ page \in TitlePage
      \/ page \in VariantsPage \/ page \in FilenamePage
  BY PagesAssumption
<1> QED BY <1>1, <1>2, <1>3, <1>4, <1>5, <1>6

\* EpisodeIdsAgree, for every row: no token is sliced out of its range, data-code
\* and a packed token give the ids of their episode whatever its numbers, and a
\* row with neither gives none (episodeIDs, splitPlayToken).
THEOREM EpisodeIdsAgreeOnEveryRow == PageSpec => []EpisodeIdsAgree
<1>1. Answered => EpisodeIdsAgree
  <2> SUFFICES ASSUME Answered, Parsed("row") PROVE RowIsRead(page, answer.value)
    BY DEF EpisodeIdsAgree, RowIsRead, IdsOrNothing
  <2>1. answer.value = episodeIDs(page.code, page.token) /\ page \in RowPage
    BY KindsTellPages DEF Answered, Parsed
  <2> QED BY <2>1, RowsAreRead
<1> QED BY <1>1, AnswersAreTheParsers, PTL

\* LinkSpellings, for every link: any number of spaces around it, the first slash,
\* the last one and the seasons page leave the same link (normalizeSeriesLink).
THEOREM EverySpellingIsTheLink == PageSpec => []LinkSpellings
<1>1. Answered => LinkSpellings
  <2> SUFFICES ASSUME Answered, Parsed("link") PROVE answer.value = page.about
    BY DEF LinkSpellings
  <2>1. answer.value = normalizeSeriesLink(page.text) /\ page \in LinkPage
    BY KindsTellPages DEF Answered, Parsed
  <2> QED BY <2>1, LinkIsNormalized DEF LinkPage
<1> QED BY <1>1, AnswersAreTheParsers, PTL

\* TitleSplits, for every title: its parts come out as they went in, however many
\* parentheses, full stops and markers of its own episode are in them
\* (parseFeedTitle).
THEOREM EveryTitleIsSplit == PageSpec => []TitleSplits
<1>1. Answered => TitleSplits
  <2> SUFFICES ASSUME Answered, Parsed("title") PROVE answer.value = page.about
    BY DEF TitleSplits
  <2>1. answer.value = parseFeedTitle(TrimSpace(page.text)) /\ page \in TitlePage
    BY KindsTellPages DEF Answered, Parsed
  <2> QED BY <2>1, TitlesAreSplit
<1> QED BY <1>1, AnswersAreTheParsers, PTL

\* SizesAreTheStated, for every page: each item with a link is answered once, in its
\* place and with its own link, and its size is the one on the page to the byte,
\* whatever its number, decimal sign and unit, or 0 if none can be read
\* (parseTorrentVariants, parseSize, unitMultiplier).
THEOREM EverySizeIsTheStated == PageSpec => []SizesAreTheStated
<1>1. Answered => SizesAreTheStated
  <2> SUFFICES ASSUME Answered, Parsed("variants") PROVE SizesAreTheStated
    BY DEF SizesAreTheStated
  <2> DEFINE items == page.items
  <2>1. answer.value = parseTorrentVariants(items) /\ page \in VariantsPage
    BY KindsTellPages DEF Answered, Parsed
  <2>2. items \in Seq(ItemOf)
    BY <2>1 DEF VariantsPage
  <2>3. DOMAIN items = 1..Len(items) /\ Len(items) \in Nat
    BY <2>2
  <2>4. /\ LinkedItems = LinkedUpTo(items, Len(items))
        /\ \A k \in LinkedItems : Place(k) = Count(items, k)
    BY <2>3 DEF LinkedItems, LinkedUpTo, Place, Count
  <2>5. /\ Len(answer.value) = Count(items, Len(items))
        /\ \A k \in LinkedItems : answer.value[Place(k)] = VariantOf(items[k])
    BY <2>1, <2>2, <2>4, VariantsAre
  <2>6. Len(answer.value) = Cardinality(LinkedItems)
    BY <2>4, <2>5 DEF Count
  <2>7. ASSUME NEW k \in LinkedItems
        PROVE  /\ answer.value[Place(k)].url = Href(items[k])
               /\ answer.value[Place(k)].size.bytes
                    = IF items[k].stated = <<>> THEN 0 ELSE SizeInBytes(items[k].stated[1])
    <3>1. items[k] \in ItemOf
      BY <2>2, <2>3 DEF LinkedItems
    <3> QED BY <2>5, <3>1, SizeIsStated
  <2> QED BY <2>6, <2>7 DEF SizesAreTheStated
<1> QED BY <1>1, AnswersAreTheParsers, PTL

\* FilenameIsUsable, for every name: the plain form has a letter or a digit and
\* safe characters only, and the extended form is decoded to the bytes of the base
\* name (safeFilename, rfc5987Value, path.Base).
THEOREM EveryFilenameIsUsable == PageSpec => []FilenameIsUsable
<1>1. Answered => FilenameIsUsable
  <2> SUFFICES ASSUME Answered, Parsed("filename") PROVE FilenameIsUsable
    BY DEF FilenameIsUsable
  <2> DEFINE name == BaseName(page.text)
             bytes == FlattenSeq([k \in DOMAIN name |-> Utf8[name[k]]])
  <2>1. /\ answer.value = [plain |-> safeFilename(name), extended |-> rfc5987Value(name)]
        /\ page \in FilenamePage
    BY KindsTellPages DEF Answered, Parsed
  <2>2. answer.value.plain = safeFilename(name) /\ answer.value.extended = rfc5987Value(name)
    BY <2>1
  <2>3. name \in Seq(DOMAIN Utf8)
    BY <2>1, BaseNameType DEF FilenamePage
  <2> HIDE DEF name
  <2>4. bytes \in Seq(ByteOf)
    <3> DEFINE pieces == [k \in DOMAIN name |-> Utf8[name[k]]]
    <3>1. pieces \in Seq(Seq(ByteOf))
      <4>1. \A k \in DOMAIN name : Utf8[name[k]] \in Seq(ByteOf)
        BY <2>3, BytesAre
      <4>2. DOMAIN name = 1..Len(name) /\ Len(name) \in Nat
        BY <2>3
      <4>3. pieces \in [1..Len(name) -> Seq(ByteOf)]
        BY <4>1, <4>2
      <4> HIDE DEF pieces
      <4> QED BY <4>2, <4>3
    <3> HIDE DEF pieces
    <3>2. PICK u : Joins(u, ByteOf, pieces) /\ FlattenSeq(pieces) = u[Len(pieces)]
      BY <3>1, FlattenJoins
    <3>3. Len(pieces) \in 0..Len(pieces)
      BY <3>1
    <3> QED BY <3>2, <3>3 DEF Joins, pieces
  <2>5. rfc5987Value(name) = FlattenSeq([k \in DOMAIN bytes |-> Written(bytes[k])])
    BY DEF rfc5987Value, Written
  <2> HIDE DEF bytes
  <2>6. PathUnescape(answer.value.extended) = bytes
    BY <2>2, <2>4, <2>5, WrittenIsRead
  <2>7. /\ ToSet(answer.value.plain) \cap Alphanumeric # {}
        /\ ToSet(answer.value.plain) \subseteq SafeChars
    BY <2>2, PlainIsSafe
  <2> QED BY <2>6, <2>7 DEF FilenameIsUsable, bytes, name
<1> QED BY <1>1, AnswersAreTheParsers, PTL
=============================================================================
