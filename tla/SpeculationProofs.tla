-------------------------- MODULE SpeculationProofs --------------------------
(***************************************************************************)
(* Theorems about Speculation, for every vocabulary, target model, prompt, *)
(* limit, draft length and cache size: the rollback leaves                 *)
(* exactly the committed context, a sequence ends where single-token       *)
(* decoding would end it, and tree verification over the paged cache is    *)
(* lossless.                                                               *)
(***************************************************************************)
EXTENDS Speculation, SequenceTheorems, WellFoundedInduction, TLAPS

-----------------------------------------------------------------------------
(* Smallest and largest elements.                                          *)

\* A non-empty set of natural numbers has a least element.
LEMMA NatMin ==
  ASSUME NEW T, T \subseteq Nat, T # {}
  PROVE  \E x \in T : \A y \in T : x <= y
<1>1. IsWellFoundedOn(OpToRel(<, Nat), Nat)
  BY NatLessThanWellFounded
<1>2. PICK x \in T : \A y \in T : ~(<<y, x>> \in OpToRel(<, Nat))
  BY <1>1, WFMin
<1>3. \A y \in T : y < x => <<y, x>> \in OpToRel(<, Nat)
  BY DEF OpToRel
<1>4. \A y \in T : ~(y < x)
  BY <1>2, <1>3, Zenon
<1> QED
  BY <1>4

\* Min is that element.
LEMMA MinIsLeast ==
  ASSUME NEW T, T \subseteq Nat, T # {}
  PROVE  Min(T) \in T /\ \A y \in T : Min(T) <= y
<1>1. \E x \in T : \A y \in T : x <= y
  BY NatMin
<1> QED
  BY <1>1 DEF Min

\* Leading stops at the first FALSE.
LEMMA LeadingIs ==
  ASSUME NEW ok, NEW m \in Nat, Len(ok) = m
  PROVE  /\ Leading(ok) \in 0..m
         /\ \A i \in 1..Leading(ok) : ok[i]
<1> DEFINE S == {n \in 0..m : \A i \in 1..n : ok[i]}
           T == {j \in Nat : \E n \in S : j = m - n}
<1>1. T \subseteq Nat /\ T # {}
  <2>1. 0 \in S
    OBVIOUS
  <2>2. m \in T
    BY <2>1
  <2> QED
    BY <2>2
<1>2. PICK x \in T : \A y \in T : x <= y
  BY <1>1, NatMin
<1>3. PICK n \in S : x = m - n
  BY <1>2
<1>4. \A j \in S : n >= j
  <2> SUFFICES ASSUME NEW j \in S PROVE n >= j
    OBVIOUS
  <2>1. m - j \in T
    OBVIOUS
  <2>2. m - n <= m - j
    BY <1>2, <1>3, <2>1
  <2> QED
    BY <2>2
<1>5. Max(S) \in S
  BY <1>4 DEF Max
<1>6. Leading(ok) = Max(S)
  BY DEF Leading
<1> QED
  BY <1>5, <1>6
-----------------------------------------------------------------------------
(* Sequences.                                                              *)

\* The elements of a concatenation, by part.
LEMMA ConcatIndex ==
  ASSUME NEW V, NEW p \in Seq(V), NEW g \in Seq(V)
  PROVE  /\ p \o g \in Seq(V) /\ Len(p \o g) = Len(p) + Len(g)
         /\ Len(p) \in Nat /\ Len(g) \in Nat
         /\ \A i \in 1..Len(p) : (p \o g)[i] = p[i]
         /\ \A j \in 1..Len(g) : (p \o g)[Len(p) + j] = g[j]
<1>1. Len(p) \in Nat /\ Len(g) \in Nat
  BY LenProperties
<1>2. /\ p \o g \in Seq(V) /\ Len(p \o g) = Len(p) + Len(g)
      /\ \A i \in 1..Len(p) + Len(g) :
           (p \o g)[i] = IF i <= Len(p) THEN p[i] ELSE g[i - Len(p)]
  BY ConcatProperties, Zenon
<1>3. ASSUME NEW i \in 1..Len(p) PROVE (p \o g)[i] = p[i]
  <2>1. i \in 1..Len(p) + Len(g) /\ i <= Len(p)
    BY <1>1
  <2> QED
    BY <1>2, <2>1
<1>4. ASSUME NEW j \in 1..Len(g) PROVE (p \o g)[Len(p) + j] = g[j]
  <2>1. /\ Len(p) + j \in 1..Len(p) + Len(g) /\ ~(Len(p) + j <= Len(p))
        /\ Len(p) + j - Len(p) = j
    BY <1>1
  <2> QED
    BY <1>2, <2>1
<1> QED
  BY <1>1, <1>2, <1>3, <1>4

\* The first n elements of a sequence.
LEMMA Prefix ==
  ASSUME NEW V, NEW d \in Seq(V), NEW n \in 0..Len(d)
  PROVE  /\ SubSeq(d, 1, n) \in Seq(V) /\ Len(SubSeq(d, 1, n)) = n
         /\ \A i \in 1..n : SubSeq(d, 1, n)[i] = d[i]
<1>1. Len(d) \in Nat /\ n \in Int
  BY LenProperties
<1>2. \A i \in 1..n : d[i] \in V
  <2> SUFFICES ASSUME NEW i \in 1..n PROVE d[i] \in V
    OBVIOUS
  <2>1. i \in 1..Len(d)
    BY <1>1
  <2> QED
    BY <2>1, ElementOfSeq
<1>3. /\ SubSeq(d, 1, n) \in Seq(V)
      /\ Len(SubSeq(d, 1, n)) = IF 1 <= n THEN n - 1 + 1 ELSE 0
      /\ \A i \in 1..n - 1 + 1 : SubSeq(d, 1, n)[i] = d[1 + i - 1]
  BY <1>1, <1>2, SubSeqProperties
<1> QED
  BY <1>1, <1>3

\* A prefix of a concatenation that reaches into its second part.
LEMMA ConcatPrefix ==
  ASSUME NEW V, NEW g \in Seq(V), NEW toks \in Seq(V), NEW m \in 0..Len(toks), NEW l \in 0..m
  PROVE  SubSeq(g \o SubSeq(toks, 1, m), 1, Len(g) + l) = g \o SubSeq(toks, 1, l)
<1> DEFINE s == SubSeq(toks, 1, m)
           t == SubSeq(toks, 1, l)
           N == Len(g)
           Q == SubSeq(g \o s, 1, N + l)
<1>1. N \in Nat /\ Len(toks) \in Nat /\ m \in Nat /\ l \in Nat /\ l \in 0..Len(toks)
  BY LenProperties
<1>2. s \in Seq(V) /\ Len(s) = m /\ \A i \in 1..m : s[i] = toks[i]
  BY Prefix
<1>3. t \in Seq(V) /\ Len(t) = l /\ \A i \in 1..l : t[i] = toks[i]
  BY <1>1, Prefix
<1> HIDE DEF s, t
<1>4. g \o s \in Seq(V) /\ Len(g \o s) = N + Len(s)
  BY <1>2, ConcatIndex
<1>5. /\ \A i \in 1..N : (g \o s)[i] = g[i]
      /\ \A j \in 1..Len(s) : (g \o s)[N + j] = s[j]
  BY <1>2, ConcatIndex
<1>6. g \o t \in Seq(V) /\ Len(g \o t) = N + Len(t)
  BY <1>3, ConcatIndex
<1>7. /\ \A i \in 1..N : (g \o t)[i] = g[i]
      /\ \A j \in 1..Len(t) : (g \o t)[N + j] = t[j]
  BY <1>3, ConcatIndex
<1>8. Q \in Seq(V) /\ Len(Q) = N + l /\ \A i \in 1..N + l : Q[i] = (g \o s)[i]
  <2>1. N + l \in 0..Len(g \o s)
    BY <1>1, <1>2, <1>4
  <2> QED
    BY <1>4, <2>1, Prefix
<1> HIDE DEF Q
<1>9. ASSUME NEW i \in 1..N + l PROVE Q[i] = (g \o t)[i]
  <2>1. CASE i <= N
    <3>1. i \in 1..N
      BY <1>1, <2>1
    <3> QED
      BY <1>5, <1>7, <1>8, <3>1
  <2>2. CASE ~(i <= N)
    <3>1. i - N \in 1..l /\ i - N \in 1..m /\ i = N + (i - N)
      BY <1>1, <2>2
    <3>2. Q[i] = toks[i - N]
      BY <1>2, <1>5, <1>8, <3>1
    <3>3. (g \o t)[i] = toks[i - N]
      BY <1>3, <1>7, <3>1
    <3> QED
      BY <3>2, <3>3
  <2> QED
    BY <2>1, <2>2
<1>10. Len(Q) = Len(g \o t)
  BY <1>3, <1>6, <1>8
<1>11. Q = g \o t
  BY <1>6, <1>8, <1>9, <1>10, SeqEqual
<1> QED
  BY <1>11 DEF Q, s, t

\* The input followed by the draft.
LEMMA InputAndDraft ==
  ASSUME NEW V, NEW x \in V, NEW d \in Seq(V)
  PROVE  /\ <<x>> \o d \in Seq(V) /\ Len(<<x>> \o d) = Len(d) + 1
         /\ (<<x>> \o d)[1] = x
         /\ \A j \in 1..Len(d) : (<<x>> \o d)[j + 1] = d[j]
<1>1. <<x>> \in Seq(V) /\ Len(<<x>>) = 1 /\ <<x>>[1] = x /\ Len(d) \in Nat
  BY LenProperties
<1>2. /\ <<x>> \o d \in Seq(V)
      /\ Len(<<x>> \o d) = Len(<<x>>) + Len(d)
      /\ \A i \in 1..Len(<<x>>) + Len(d) :
           (<<x>> \o d)[i] = IF i <= Len(<<x>>) THEN <<x>>[i] ELSE d[i - Len(<<x>>)]
  BY <1>1, ConcatProperties, Zenon
<1>3. /\ Len(<<x>> \o d) = 1 + Len(d)
      /\ \A i \in 1..1 + Len(d) :
           (<<x>> \o d)[i] = IF i <= 1 THEN <<x>>[i] ELSE d[i - 1]
  BY <1>1, <1>2, Zenon
<1>4. (<<x>> \o d)[1] = x
  BY <1>1, <1>3
<1>5. ASSUME NEW j \in 1..Len(d) PROVE (<<x>> \o d)[j + 1] = d[j]
  <2>1. j + 1 \in 1..1 + Len(d) /\ ~(j + 1 <= 1) /\ j + 1 - 1 = j
    BY <1>1
  <2> QED
    BY <1>3, <2>1
<1> QED
  BY <1>1, <1>2, <1>3, <1>4, <1>5

-----------------------------------------------------------------------------
(* Caches.                                                                 *)

\* The fields of a cache.
LEMMA CacheFields ==
  ASSUME NEW V, NEW c \in CacheOf(V)
  PROVE  /\ c.rows \in Seq([tok : V, pos : Nat, whole : BOOLEAN])
         /\ c.high \in Nat /\ SeqLen(c) = Len(c.rows) /\ SeqLen(c) \in Nat
BY LenProperties DEF CacheOf, SeqLen

\* Row i stands for the same token at the same position in both caches.
SameRow(a, c, i) == a.rows[i].tok = c.rows[i].tok /\ a.rows[i].pos = c.rows[i].pos

\* A forward pass appends one row for every token, at its position, and keeps
\* the rows before.
LEMMA AppendKVRows ==
  ASSUME NEW V, NEW c \in CacheOf(V), NEW toks \in Seq(V), NEW at \in Nat
  PROVE  LET a == AppendKV(c, toks, at)
         IN  /\ a \in CacheOf(V)
             /\ SeqLen(a) = SeqLen(c) + Len(toks)
             /\ SeqLen(a) <= a.high /\ c.high <= a.high
             /\ a.high = c.high \/ a.high = SeqLen(a)
             /\ \A i \in 1..SeqLen(c) : SameRow(a, c, i)
             /\ \A i \in 1..Len(toks) :
                  /\ a.rows[SeqLen(c) + i].tok = toks[i]
                  /\ a.rows[SeqLen(c) + i].pos = at + i - 1
             /\ cache = "paged" /\ Whole(c) => Whole(a)
<1> DEFINE R == [tok : V, pos : Nat, whole : BOOLEAN]
           a == AppendKV(c, toks, at)
           n == SeqLen(c) + Len(toks)
<1>1. c.rows \in Seq(R) /\ c.high \in Nat
  BY DEF CacheOf
<1>2. Len(c.rows) \in Nat /\ Len(toks) \in Nat
  BY <1>1, LenProperties
<1>3. PICK w \in BOOLEAN :
        w = (SeqLen(c) = 0 \/ (SeesCache(Len(toks)) /\ Whole(c)))
  BY Zenon
<1> DEFINE old == [i \in 1..SeqLen(c) |-> [c.rows[i] EXCEPT !.whole = @ /\ Spared(i, n)]]
           new == [i \in 1..Len(toks) |->
                     [tok |-> toks[i], pos |-> at + i - 1, whole |-> w /\ Spared(SeqLen(c) + i, n)]]
<1>4. new \in Seq(R) /\ Len(new) = Len(toks)
  <2>1. \A i \in 1..Len(toks) :
          [tok |-> toks[i], pos |-> at + i - 1, whole |-> w /\ Spared(SeqLen(c) + i, n)] \in R
    <3> SUFFICES ASSUME NEW i \in 1..Len(toks)
                 PROVE  /\ toks[i] \in V /\ at + i - 1 \in Nat
                        /\ (w /\ Spared(SeqLen(c) + i, n)) \in BOOLEAN
      OBVIOUS
    <3> HIDE DEF n
    <3> QED
      BY <1>2, ElementOfSeq DEF Spared
  <2>2. new \in [1..Len(toks) -> R]
    BY <2>1
  <2> QED
    BY <1>2, <2>2
<1>4a. /\ old \in Seq(R) /\ Len(old) = Len(c.rows) /\ SeqLen(c) = Len(c.rows)
       /\ \A i \in 1..Len(c.rows) : /\ old[i].tok = c.rows[i].tok /\ old[i].pos = c.rows[i].pos
                                     /\ old[i].whole = (c.rows[i].whole /\ Spared(i, n))
  <2>1. SeqLen(c) = Len(c.rows)
    BY DEF SeqLen
  <2>2. ASSUME NEW i \in 1..Len(c.rows)
        PROVE  /\ old[i] \in R /\ old[i].tok = c.rows[i].tok /\ old[i].pos = c.rows[i].pos
               /\ old[i].whole = (c.rows[i].whole /\ Spared(i, n))
    <3>1. c.rows[i] \in R
      BY <1>1, <2>2, ElementOfSeq
    <3>2. PICK x \in V, y \in Nat, z \in BOOLEAN : c.rows[i] = [tok |-> x, pos |-> y, whole |-> z]
      BY <3>1
    <3>3. PICK b \in BOOLEAN : b = (z /\ Spared(i, n))
      BY Zenon DEF Spared
    <3>4. old[i] = [c.rows[i] EXCEPT !.whole = c.rows[i].whole /\ Spared(i, n)]
      BY <2>1, <2>2
    <3> HIDE DEF old, n
    <3>5. c.rows[i].whole = z
      BY <3>2
    <3>6. old[i] = [tok |-> x, pos |-> y, whole |-> b]
      BY <3>2, <3>3, <3>4, <3>5
    <3> QED
      BY <3>2, <3>3, <3>5, <3>6
  <2>3. old \in [1..Len(c.rows) -> R]
    <3>1. old = [i \in 1..Len(c.rows) |-> old[i]]
      BY <2>1
    <3> HIDE DEF old, R
    <3> QED
      BY <2>2, <3>1
  <2>4. Len(old) = Len(c.rows)
    BY <1>2, <2>1
  <2> HIDE DEF old, R
  <2> QED
    BY <1>2, <2>1, <2>2, <2>3, <2>4
<1>5. a.rows = old \o new /\ a.high = IF n > c.high THEN n ELSE c.high
  BY <1>3 DEF AppendKV
<1>6. /\ old \o new \in Seq(R)
      /\ Len(old \o new) = Len(c.rows) + Len(toks)
      /\ \A i \in 1..Len(c.rows) + Len(toks) :
           (old \o new)[i] = IF i <= Len(c.rows) THEN old[i] ELSE new[i - Len(c.rows)]
  <2> HIDE DEF old, new, R
  <2>1. /\ old \o new \in Seq(R)
        /\ Len(old \o new) = Len(old) + Len(new)
        /\ \A i \in 1..Len(old) + Len(new) :
             (old \o new)[i] = IF i <= Len(old) THEN old[i] ELSE new[i - Len(old)]
    <3>1. old \in Seq(R) /\ new \in Seq(R)
      BY <1>4, <1>4a
    <3> QED
      BY <3>1, ConcatProperties, Zenon
  <2>2. Len(old) = Len(c.rows) /\ Len(new) = Len(toks)
    BY <1>4, <1>4a
  <2> QED
    BY <2>1, <2>2, Zenon
<1>7. a \in CacheOf(V)
  <2>1. a = [rows |-> old \o new, high |-> IF n > c.high THEN n ELSE c.high]
    BY <1>3 DEF AppendKV
  <2>2. (IF n > c.high THEN n ELSE c.high) \in Nat
    BY <1>1, <1>2 DEF SeqLen
  <2> HIDE DEF old, new, n, a
  <2> QED
    BY <1>6, <2>1, <2>2 DEF CacheOf
<1>8. SeqLen(a) = SeqLen(c) + Len(toks) /\ SeqLen(c) = Len(c.rows) /\ SeqLen(a) = n
  BY <1>5, <1>6 DEF SeqLen
<1>9. \A i \in 1..SeqLen(c) : a.rows[i] = old[i]
  <2> HIDE DEF old, new, a
  <2> QED
    BY <1>2, <1>5, <1>6, <1>8
<1>10. \A i \in 1..Len(toks) : a.rows[SeqLen(c) + i] = new[i]
  <2> HIDE DEF old, new, a
  <2> SUFFICES ASSUME NEW i \in 1..Len(toks) PROVE a.rows[SeqLen(c) + i] = new[i]
    OBVIOUS
  <2>1. /\ Len(c.rows) + i \in 1..Len(c.rows) + Len(toks)
        /\ ~(Len(c.rows) + i <= Len(c.rows)) /\ (Len(c.rows) + i) - Len(c.rows) = i
    BY <1>2
  <2> QED
    BY <1>5, <1>6, <1>8, <2>1
<1>11. cache = "paged" /\ Whole(c) => Whole(a)
  <2> SUFFICES ASSUME cache = "paged", Whole(c), NEW i \in 1..Len(a.rows)
               PROVE  a.rows[i].whole
    BY DEF Whole
  <2>1. w /\ \A j, m : Spared(j, m)
    BY <1>3, Zenon DEF SeesCache, Spared
  <2>2. CASE i <= SeqLen(c)
    <3>1. i \in 1..Len(c.rows)
      BY <1>2, <1>8, <2>2
    <3>2. c.rows[i].whole
      BY <3>1 DEF Whole
    <3> HIDE DEF a, old, n
    <3> QED
      BY <1>4a, <1>8, <1>9, <2>1, <3>1, <3>2
  <2>3. CASE ~(i <= SeqLen(c))
    <3>1. PICK j \in 1..Len(toks) : i = SeqLen(c) + j
      <4>1. Len(a.rows) = Len(c.rows) + Len(toks) /\ SeqLen(c) = Len(c.rows)
        BY <1>8 DEF SeqLen
      <4> HIDE DEF a
      <4>2. i - SeqLen(c) \in 1..Len(toks)
        BY <1>2, <2>3, <4>1
      <4>3. i = SeqLen(c) + (i - SeqLen(c))
        BY <1>2, <4>1
      <4> QED
        BY <4>2, <4>3
    <3>2. new[j].whole = (w /\ Spared(SeqLen(c) + j, n))
      OBVIOUS
    <3> HIDE DEF a, new, n
    <3> QED
      BY <1>10, <2>1, <3>1, <3>2
  <2> QED
    BY <2>2, <2>3
<1>11a. \A i \in 1..SeqLen(c) : SameRow(a, c, i)
  <2> HIDE DEF a, old, n
  <2> QED
    BY <1>4a, <1>9 DEF SameRow
<1>12. \A i \in 1..Len(toks) : new[i].tok = toks[i] /\ new[i].pos = at + i - 1
  OBVIOUS
<1>13. /\ SeqLen(a) <= a.high /\ c.high <= a.high
       /\ a.high = c.high \/ a.high = SeqLen(a)
  <2>1. n \in Nat /\ a.high = IF n > c.high THEN n ELSE c.high
    BY <1>2, <1>5 DEF SeqLen
  <2> HIDE DEF a, n
  <2> QED
    BY <1>1, <1>8, <2>1
<1> HIDE DEF a, old, new
<1>14. \A i \in 1..Len(toks) :
         /\ a.rows[SeqLen(c) + i].tok = toks[i]
         /\ a.rows[SeqLen(c) + i].pos = at + i - 1
  BY <1>10, <1>12
<1>15. /\ a \in CacheOf(V)
       /\ SeqLen(a) = SeqLen(c) + Len(toks)
       /\ SeqLen(a) <= a.high /\ c.high <= a.high
       /\ a.high = c.high \/ a.high = SeqLen(a)
       /\ \A i \in 1..SeqLen(c) : SameRow(a, c, i)
       /\ \A i \in 1..Len(toks) :
            /\ a.rows[SeqLen(c) + i].tok = toks[i]
            /\ a.rows[SeqLen(c) + i].pos = at + i - 1
       /\ cache = "paged" /\ Whole(c) => Whole(a)
  BY <1>7, <1>8, <1>11, <1>11a, <1>13, <1>14
<1> QED
  BY <1>15, Zenon DEF a

\* Truncate keeps the first rows and never moves the high-water mark.
LEMMA TruncateRows ==
  ASSUME NEW V, NEW c \in CacheOf(V), NEW n \in Nat, n <= SeqLen(c)
  PROVE  /\ Truncate(c, n) \in CacheOf(V)
         /\ SeqLen(Truncate(c, n)) = n
         /\ Truncate(c, n).high = c.high
         /\ \A i \in 1..n : Truncate(c, n).rows[i] = c.rows[i]
<1> DEFINE R == [tok : V, pos : Nat, whole : BOOLEAN]
<1>1. c.rows \in Seq(R) /\ c.high \in Nat /\ Len(c.rows) \in Nat /\ SeqLen(c) = Len(c.rows)
  BY LenProperties DEF CacheOf, SeqLen
<1>2. \A i \in 1..n : c.rows[i] \in R
  <2> HIDE DEF R
  <2> SUFFICES ASSUME NEW i \in 1..n PROVE c.rows[i] \in R
    OBVIOUS
  <2>1. i \in 1..Len(c.rows)
    BY <1>1
  <2> QED
    BY <1>1, <2>1, ElementOfSeq
<1> HIDE DEF R
<1>3. /\ SubSeq(c.rows, 1, n) \in Seq(R) /\ Len(SubSeq(c.rows, 1, n)) = n
      /\ \A i \in 1..n : SubSeq(c.rows, 1, n)[i] = c.rows[i]
  BY <1>2, SubSeqProperties
<1>4. Truncate(c, n) = [c EXCEPT !.rows = SubSeq(c.rows, 1, n)]
  <2>1. ~(n > Len(c.rows)) \/ n = Len(c.rows)
    BY <1>1
  <2>2. (IF n > Len(c.rows) THEN Len(c.rows) ELSE n) = n
    BY <2>1
  <2> QED
    BY <2>2, Zenon DEF Truncate
<1>5. PICK rs, h : c = [rows |-> rs, high |-> h] /\ h \in Nat
  BY DEF CacheOf
<1>6. Truncate(c, n) = [rows |-> SubSeq(c.rows, 1, n), high |-> c.high]
  BY <1>4, <1>5
<1>7. Truncate(c, n).rows = SubSeq(c.rows, 1, n) /\ Truncate(c, n).high = c.high
  BY <1>6
<1>8. Truncate(c, n) \in CacheOf(V)
  BY <1>1, <1>3, <1>6 DEF CacheOf, R
<1>9. SeqLen(Truncate(c, n)) = n
  BY <1>3, <1>7 DEF SeqLen
<1> QED
  BY <1>3, <1>7, <1>8, <1>9

\* Truncate to any length: it never lengthens a cache.
LEMMA TruncateAny ==
  ASSUME NEW V, NEW c \in CacheOf(V), NEW n \in Nat
  PROVE  /\ Truncate(c, n) \in CacheOf(V)
         /\ SeqLen(Truncate(c, n)) <= n /\ SeqLen(Truncate(c, n)) <= SeqLen(c)
         /\ SeqLen(Truncate(c, n)) \in Nat
         /\ Truncate(c, n).high = c.high
<1> DEFINE R == [tok : V, pos : Nat, whole : BOOLEAN]
<1>1. c.rows \in Seq(R) /\ Len(c.rows) \in Nat /\ SeqLen(c) = Len(c.rows)
  BY LenProperties DEF CacheOf, SeqLen
<1>2. CASE n <= SeqLen(c)
  BY <1>1, <1>2, TruncateRows
<1>3. CASE ~(n <= SeqLen(c))
  <2>1. SubSeq(c.rows, 1, Len(c.rows)) = c.rows
    <3> HIDE DEF R
    <3> QED
      BY <1>1, SubSeqFull
  <2>2. n > Len(c.rows)
    BY <1>1, <1>3
  <2>3. Truncate(c, n) = [c EXCEPT !.rows = c.rows]
    BY <2>1, <2>2, Zenon DEF Truncate
  <2>4. Truncate(c, n) = c
    BY <2>3 DEF CacheOf
  <2> QED
    BY <1>1, <1>3, <2>4
<1> QED
  BY <1>2, <1>3

\* Reset empties a cache.
LEMMA ResetRows ==
  ASSUME NEW V, NEW c
  PROVE  /\ Reset(c) \in CacheOf(V) /\ SeqLen(Reset(c)) = 0
         /\ Reset(c).high = 0 /\ Whole(Reset(c))
<1>1. Reset(c).rows = <<>> /\ Reset(c).high = 0
  BY DEF Reset, EmptyCache
<1>2. Reset(c) \in CacheOf(V)
  <2> DEFINE R == [tok : V, pos : Nat, whole : BOOLEAN]
  <2>1. CacheOf(V) = [rows : Seq(R), high : Nat]
    BY DEF CacheOf
  <2> HIDE DEF R
  <2>2. <<>> \in Seq(R)
    BY EmptySeq
  <2> QED
    BY <2>1, <2>2 DEF Reset, EmptyCache
<1>3. SeqLen(Reset(c)) = 0
  BY <1>1 DEF SeqLen
<1>4. Whole(Reset(c))
  BY <1>1 DEF Whole
<1> QED
  BY <1>1, <1>2, <1>3, <1>4

\* k is the cache c after the input x and all of toks but the last token.
Extended(c, k, x, toks) ==
  /\ k \in CacheOf(Vocab)
  /\ SeqLen(k) = SeqLen(c) + Len(toks) /\ SeqLen(k) <= k.high
  /\ \A i \in 1..SeqLen(c) : SameRow(k, c, i)
  /\ k.rows[SeqLen(c) + 1].tok = x /\ k.rows[SeqLen(c) + 1].pos = SeqLen(c)
  /\ \A j \in 1..Len(toks) - 1 :
       /\ k.rows[SeqLen(c) + 1 + j].tok = toks[j]
       /\ k.rows[SeqLen(c) + 1 + j].pos = SeqLen(c) + j
  /\ cache = "paged" /\ Whole(c) => Whole(k)

\* c holds the tokens of the prompt p and the output g but the last one, each
\* at its own position.
Holds(c, p, g) ==
  /\ SeqLen(c) = Len(p) + Len(g) - 1
  /\ \A i \in 1..SeqLen(c) : c.rows[i].tok = (p \o g)[i] /\ c.rows[i].pos = i - 1

\* A plain decode step extends the cache by its input.
LEMMA DecodeExtends ==
  ASSUME NEW c \in CacheOf(Vocab), NEW x \in Vocab, NEW t
  PROVE  LET k == AppendKV(c, <<x>>, SeqLen(c))
         IN  /\ Extended(c, k, x, <<t>>)
             /\ k.high = c.high \/ k.high = SeqLen(c) + 1
<1>1. SeqLen(c) \in Nat
  BY CacheFields
<1>2. <<x>> \in Seq(Vocab) /\ Len(<<x>>) = 1 /\ <<x>>[1] = x /\ Len(<<t>>) = 1
  OBVIOUS
<1> DEFINE k == AppendKV(c, <<x>>, SeqLen(c))
<1>4. /\ k \in CacheOf(Vocab)
      /\ SeqLen(k) = SeqLen(c) + Len(<<x>>)
      /\ SeqLen(k) <= k.high /\ c.high <= k.high
      /\ k.high = c.high \/ k.high = SeqLen(k)
      /\ \A i \in 1..SeqLen(c) : SameRow(k, c, i)
      /\ \A i \in 1..Len(<<x>>) :
           /\ k.rows[SeqLen(c) + i].tok = <<x>>[i]
           /\ k.rows[SeqLen(c) + i].pos = SeqLen(c) + i - 1
      /\ cache = "paged" /\ Whole(c) => Whole(k)
  BY <1>1, <1>2, AppendKVRows, Zenon
<1> HIDE DEF k
<1>5. /\ k.rows[SeqLen(c) + 1].tok = x
      /\ k.rows[SeqLen(c) + 1].pos = SeqLen(c)
  BY <1>1, <1>2, <1>4
<1>6. Extended(c, k, x, <<t>>)
  <2>1. SeqLen(k) = SeqLen(c) + Len(<<t>>)
    BY <1>2, <1>4
  <2>2. \A j \in 1..Len(<<t>>) - 1 : FALSE
    BY <1>2
  <2> QED
    BY <1>4, <1>5, <2>1, <2>2, Zenon DEF Extended
<1>7. k.high = c.high \/ k.high = SeqLen(c) + 1
  BY <1>2, <1>4
<1> QED
  BY <1>6, <1>7, Zenon DEF k

\* The accepted part of a draft and the final token.
LEMMA AcceptedAndFinal ==
  ASSUME NEW V, NEW d \in Seq(V), NEW n \in 0..Len(d), NEW f \in V
  PROVE  LET toks == Append(SubSeq(d, 1, n), f)
         IN  /\ toks \in Seq(V) /\ Len(toks) = n + 1
             /\ \A j \in 1..n : toks[j] = d[j]
             /\ toks[n + 1] = f
<1>1. /\ SubSeq(d, 1, n) \in Seq(V) /\ Len(SubSeq(d, 1, n)) = n
      /\ \A i \in 1..n : SubSeq(d, 1, n)[i] = d[i]
  BY Prefix
<1> DEFINE s == SubSeq(d, 1, n)
<1> HIDE DEF s
<1>2. /\ Append(s, f) \in Seq(V)
      /\ Len(Append(s, f)) = Len(s) + 1
      /\ \A i \in 1..Len(s) : Append(s, f)[i] = s[i]
      /\ Append(s, f)[Len(s) + 1] = f
  BY <1>1, AppendProperties DEF s
<1>3. Len(s) = n /\ \A i \in 1..n : s[i] = d[i]
  BY <1>1 DEF s
<1>4. /\ Append(s, f) \in Seq(V) /\ Len(Append(s, f)) = n + 1
      /\ \A j \in 1..n : Append(s, f)[j] = d[j]
      /\ Append(s, f)[n + 1] = f
  BY <1>2, <1>3
<1> QED
  BY <1>4, Zenon DEF s

\* Verify and roll back: the input and the accepted drafts stay, the rejected
\* rows are gone, and no row beyond the draft was ever written.
LEMMA VerifyExtends ==
  ASSUME NEW c \in CacheOf(Vocab), NEW x \in Vocab, NEW d \in Seq(Vocab),
         NEW n \in 0..Len(d), NEW f \in Vocab
  PROVE  LET k == CutTarget(AppendKV(c, <<x>> \o d, SeqLen(c)), SeqLen(c), n)
         IN  /\ Extended(c, k, x, Append(SubSeq(d, 1, n), f))
             /\ k.high = c.high \/ k.high = SeqLen(c) + 1 + Len(d)
<1> DEFINE L == SeqLen(c)
           pass == <<x>> \o d
           a == AppendKV(c, pass, L)
           k == CutTarget(a, L, n)
           toks == Append(SubSeq(d, 1, n), f)
<1>1. L \in Nat /\ Len(d) \in Nat
  BY CacheFields, LenProperties
<1>2. /\ pass \in Seq(Vocab) /\ Len(pass) = Len(d) + 1
      /\ pass[1] = x /\ \A j \in 1..Len(d) : pass[j + 1] = d[j]
  BY InputAndDraft
<1>3. /\ toks \in Seq(Vocab) /\ Len(toks) = n + 1
      /\ \A j \in 1..n : toks[j] = d[j]
  BY AcceptedAndFinal
<1> HIDE DEF toks, pass
<1>4. /\ a \in CacheOf(Vocab)
      /\ SeqLen(a) = L + Len(pass)
      /\ SeqLen(a) <= a.high /\ c.high <= a.high
      /\ a.high = c.high \/ a.high = SeqLen(a)
      /\ \A i \in 1..L : SameRow(a, c, i)
      /\ \A i \in 1..Len(pass) :
           a.rows[L + i].tok = pass[i] /\ a.rows[L + i].pos = L + i - 1
      /\ cache = "paged" /\ Whole(c) => Whole(a)
  BY <1>1, <1>2, AppendKVRows, Zenon
<1> HIDE DEF a
<1>5. L + 1 + n \in Nat /\ L + 1 + n <= SeqLen(a) /\ SeqLen(a) = L + 1 + Len(d)
  BY <1>1, <1>2, <1>4
<1>6. /\ k \in CacheOf(Vocab) /\ SeqLen(k) = L + 1 + n /\ k.high = a.high
      /\ \A i \in 1..L + 1 + n : k.rows[i] = a.rows[i]
  BY <1>4, <1>5, TruncateRows, Zenon DEF CutTarget
<1> HIDE DEF k, L
<1>7. SeqLen(k) = L + Len(toks) /\ SeqLen(k) <= k.high
  <2>1. a.high \in Nat
    BY <1>4, CacheFields
  <2>2. L + 1 + n = L + (n + 1) /\ L + 1 + n <= a.high
    BY <1>1, <1>4, <1>5, <2>1
  <2> QED
    BY <1>3, <1>6, <2>2, Zenon
<1>8. \A i \in 1..L : SameRow(k, c, i)
  BY <1>1, <1>4, <1>6 DEF SameRow
<1>9. k.rows[L + 1].tok = x /\ k.rows[L + 1].pos = L
  <2>1. 1 \in 1..Len(pass) /\ L + 1 \in 1..L + 1 + n /\ L + 1 - 1 = L
    BY <1>1, <1>2
  <2> QED
    BY <1>2, <1>4, <1>6, <2>1
<1>10. \A j \in 1..Len(toks) - 1 :
         k.rows[L + 1 + j].tok = toks[j] /\ k.rows[L + 1 + j].pos = L + j
  <2> SUFFICES ASSUME NEW j \in 1..Len(toks) - 1
               PROVE  k.rows[L + 1 + j].tok = toks[j] /\ k.rows[L + 1 + j].pos = L + j
    OBVIOUS
  <2>1. j \in 1..n /\ j \in 1..Len(d)
    BY <1>1, <1>3
  <2>2. /\ j + 1 \in 1..Len(pass) /\ L + 1 + j \in 1..L + 1 + n
        /\ L + (j + 1) = L + 1 + j /\ L + (j + 1) - 1 = L + j
    BY <1>1, <1>2, <2>1
  <2>3. a.rows[L + (j + 1)].tok = pass[j + 1] /\ a.rows[L + (j + 1)].pos = L + (j + 1) - 1
    BY <1>4, <2>2
  <2> QED
    BY <1>2, <1>3, <1>6, <2>1, <2>2, <2>3
<1>11. cache = "paged" /\ Whole(c) => Whole(k)
  <2> SUFFICES ASSUME cache = "paged", Whole(c), NEW i \in 1..Len(k.rows)
               PROVE  k.rows[i].whole
    BY DEF Whole
  <2>1. Whole(a)
    BY <1>4
  <2>2. Len(k.rows) = L + 1 + n /\ Len(a.rows) = L + 1 + Len(d)
    BY <1>5, <1>6 DEF SeqLen
  <2>3. i \in 1..L + 1 + n /\ i \in 1..Len(a.rows)
    BY <1>1, <2>2
  <2> QED
    BY <1>6, <2>1, <2>3 DEF Whole
<1>12. Extended(c, k, x, toks)
  BY <1>6, <1>7, <1>8, <1>9, <1>10, <1>11, Zenon DEF Extended, L
<1>13. k.high = c.high \/ k.high = L + 1 + Len(d)
  BY <1>4, <1>5, <1>6
<1> QED
  BY <1>12, <1>13, Zenon DEF k, L, a, pass, toks

-----------------------------------------------------------------------------
(* The context.                                                            *)

\* A cache that holds a context and is extended by a step's input and tokens
\* holds the longer context.
LEMMA ExtendedHolds ==
  ASSUME NEW c, NEW k, NEW p \in Seq(Vocab), NEW g \in Seq(Vocab), g # <<>>,
         NEW toks \in Seq(Vocab), toks # <<>>,
         Holds(c, p, g), Extended(c, k, g[Len(g)], toks)
  PROVE  Holds(k, p, g \o toks)
<1> DEFINE G == g \o toks
<1>1. /\ G \in Seq(Vocab) /\ Len(G) = Len(g) + Len(toks)
      /\ Len(g) \in Nat \ {0} /\ Len(toks) \in Nat \ {0}
      /\ \A i \in 1..Len(g) : G[i] = g[i]
      /\ \A j \in 1..Len(toks) : G[Len(g) + j] = toks[j]
  BY ConcatIndex, EmptySeq
<1>2. /\ Len(p) \in Nat
      /\ \A i \in 1..Len(p) : (p \o g)[i] = p[i]
      /\ \A j \in 1..Len(g) : (p \o g)[Len(p) + j] = g[j]
  BY ConcatIndex
<1> HIDE DEF G
<1>3. /\ \A i \in 1..Len(p) : (p \o G)[i] = p[i]
      /\ \A j \in 1..Len(G) : (p \o G)[Len(p) + j] = G[j]
  BY <1>1, ConcatIndex
<1>4. SeqLen(c) = Len(p) + Len(g) - 1 /\ SeqLen(k) = SeqLen(c) + Len(toks)
  BY DEF Holds, Extended
<1>5. SeqLen(k) = Len(p) + Len(G) - 1
  BY <1>1, <1>2, <1>4
<1>6. ASSUME NEW i \in 1..SeqLen(k)
      PROVE  k.rows[i].tok = (p \o G)[i] /\ k.rows[i].pos = i - 1
  <2>1. CASE i <= SeqLen(c)
    <3>1. i \in 1..SeqLen(c)
      BY <1>1, <1>2, <1>4, <2>1
    <3>2. k.rows[i].tok = (p \o g)[i] /\ k.rows[i].pos = i - 1
      BY <3>1 DEF Holds, Extended, SameRow
    <3>3. (p \o G)[i] = (p \o g)[i]
      <4>1. CASE i <= Len(p)
        <5>1. i \in 1..Len(p)
          BY <1>2, <4>1
        <5> QED
          BY <1>2, <1>3, <5>1
      <4>2. CASE ~(i <= Len(p))
        <5>1. PICK j \in 1..Len(g) : i = Len(p) + j
          <6>1. i - Len(p) \in 1..Len(g) /\ i = Len(p) + (i - Len(p))
            BY <1>1, <1>2, <1>4, <3>1, <4>2
          <6> QED
            BY <6>1
        <5>2. j \in 1..Len(G)
          BY <1>1
        <5> QED
          BY <1>1, <1>2, <1>3, <5>1, <5>2
      <4> QED
        BY <4>1, <4>2
    <3> QED
      BY <3>2, <3>3
  <2>2. CASE i = SeqLen(c) + 1
    <3>1. k.rows[i].tok = g[Len(g)] /\ k.rows[i].pos = SeqLen(c)
      BY <2>2 DEF Extended
    <3>2. i = Len(p) + Len(g) /\ Len(g) \in 1..Len(G) /\ Len(g) \in 1..Len(g) /\ SeqLen(c) = i - 1
      BY <1>1, <1>2, <1>4, <2>2
    <3> QED
      BY <1>1, <1>3, <3>1, <3>2
  <2>3. CASE ~(i <= SeqLen(c)) /\ i # SeqLen(c) + 1
    <3>1. PICK j \in 1..Len(toks) - 1 : i = SeqLen(c) + 1 + j
      <4>1. i - (SeqLen(c) + 1) \in 1..Len(toks) - 1 /\ i = SeqLen(c) + 1 + (i - (SeqLen(c) + 1))
        BY <1>1, <1>2, <1>4, <2>3
      <4> QED
        BY <4>1
    <3>2. k.rows[i].tok = toks[j] /\ k.rows[i].pos = SeqLen(c) + j
      BY <3>1 DEF Extended
    <3>3. /\ j \in 1..Len(toks) /\ Len(g) + j \in 1..Len(G) /\ SeqLen(c) + j = i - 1
          /\ i = Len(p) + (Len(g) + j)
      BY <1>1, <1>2, <1>4, <3>1
    <3> QED
      BY <1>1, <1>3, <3>2, <3>3
  <2> QED
    BY <2>1, <2>2, <2>3
<1>7. Holds(k, p, G)
  BY <1>5, <1>6 DEF Holds
<1> QED
  BY <1>7 DEF G

\* The tokens a cache holds are the context before the last token.
LEMMA ContextHolds ==
  ASSUME NEW c \in CacheOf(Vocab), NEW p \in Seq(Vocab), NEW g \in Seq(Vocab), g # <<>>,
         Holds(c, p, g)
  PROVE  /\ Context(c, SeqLen(c)) = p \o SubSeq(g, 1, Len(g) - 1)
         /\ p \o SubSeq(g, 1, Len(g) - 1) \in Seq(Vocab)
         /\ Len(p \o SubSeq(g, 1, Len(g) - 1)) = SeqLen(c)
<1> DEFINE h == SubSeq(g, 1, Len(g) - 1)
           L == SeqLen(c)
<1>1. Len(g) \in Nat \ {0} /\ Len(p) \in Nat
  BY EmptySeq, LenProperties
<1>2. /\ h \in Seq(Vocab) /\ Len(h) = Len(g) - 1
      /\ \A i \in 1..Len(g) - 1 : h[i] = g[i]
  <2>1. Len(g) - 1 \in 0..Len(g)
    BY <1>1
  <2> QED
    BY <2>1, Prefix
<1> HIDE DEF h
<1>3. /\ p \o h \in Seq(Vocab) /\ Len(p \o h) = Len(p) + Len(h)
      /\ \A i \in 1..Len(p) : (p \o h)[i] = p[i]
      /\ \A j \in 1..Len(h) : (p \o h)[Len(p) + j] = h[j]
  <2>1. p \o h \in Seq(Vocab) /\ Len(p \o h) = Len(p) + Len(h)
    BY <1>2, ConcatIndex
  <2>2. /\ \A i \in 1..Len(p) : (p \o h)[i] = p[i]
        /\ \A j \in 1..Len(h) : (p \o h)[Len(p) + j] = h[j]
    BY <1>2, ConcatIndex
  <2> QED
    BY <2>1, <2>2
<1>4. /\ \A i \in 1..Len(p) : (p \o g)[i] = p[i]
      /\ \A j \in 1..Len(g) : (p \o g)[Len(p) + j] = g[j]
  BY ConcatIndex
<1>5. L = Len(p) + Len(h) /\ L \in Nat
  BY <1>1, <1>2, CacheFields DEF Holds
<1>6. ASSUME NEW i \in 1..L PROVE c.rows[i].tok = (p \o h)[i]
  <2>1. c.rows[i].tok = (p \o g)[i]
    BY DEF Holds
  <2>2. CASE i <= Len(p)
    <3>1. i \in 1..Len(p)
      BY <1>1, <1>5, <2>2
    <3> QED
      BY <1>3, <1>4, <2>1, <3>1
  <2>3. CASE ~(i <= Len(p))
    <3>1. PICK j \in 1..Len(h) : i = Len(p) + j
      <4>1. i - Len(p) \in 1..Len(h) /\ i = Len(p) + (i - Len(p))
        BY <1>1, <1>2, <1>5, <2>3
      <4> QED
        BY <4>1
    <3>2. j \in 1..Len(g) /\ j \in 1..Len(g) - 1
      BY <1>1, <1>2
    <3> QED
      BY <1>2, <1>3, <1>4, <2>1, <3>1, <3>2
  <2> QED
    BY <2>2, <2>3
<1> HIDE DEF L
<1>7. [i \in 1..L |-> c.rows[i].tok] = [i \in 1..L |-> (p \o h)[i]]
  BY <1>6
<1>8. p \o h = [i \in 1..L |-> (p \o h)[i]]
  <2>1. p \o h \in [1..Len(p \o h) -> Vocab]
    BY <1>3, LenProperties
  <2> QED
    BY <1>3, <1>5, <2>1
<1>9. Context(c, L) = p \o h
  BY <1>7, <1>8, Zenon DEF Context
<1>10. Len(p \o h) = L
  BY <1>3, <1>5
<1> QED
  BY <1>3, <1>9, <1>10, Zenon DEF h, L

\* The target's choice after a context within the bound is a token.
LEMMA TargetToken ==
  ASSUME NEW s \in Seq(Vocab), Len(s) >= 1, Len(s) <= MaxContext
  PROVE  Target(s) \in Vocab
<1>1. Len(s) \in Nat /\ s \in [1..Len(s) -> Vocab]
  BY LenProperties
<1>2. Len(s) \in 1..MaxContext
  BY <1>1, ContextAssumption
<1> QED
  BY <1>1, <1>2, VocabAssumption

-----------------------------------------------------------------------------
(* Emitting tokens.                                                        *)

\* The loop over the accepted tokens stops at the first one that ends the
\* sequence and takes all of them when none does.
LEMMA TakenFirst ==
  ASSUME NEW n \in Nat, NEW toks \in Seq(Vocab), toks # <<>>
  PROVE  /\ Taken(n, toks) \in 1..Len(toks)
         /\ \A i \in 1..Taken(n, toks) - 1 : ~EndsAt(n, toks, i)
         /\ Ending(n, toks) = {} =>
              /\ Taken(n, toks) = Len(toks)
              /\ \A i \in 1..Len(toks) : ~EndsAt(n, toks, i)
         /\ Ending(n, toks) # {} => EndsAt(n, toks, Taken(n, toks))
<1>1. Len(toks) \in Nat \ {0}
  BY EmptySeq
<1>2. CASE Ending(n, toks) = {}
  <2>1. Taken(n, toks) = Len(toks)
    BY <1>2, Zenon DEF Taken
  <2>2. \A i \in 1..Len(toks) : ~EndsAt(n, toks, i)
    BY <1>2 DEF Ending
  <2> QED
    BY <1>1, <1>2, <2>1, <2>2
<1>3. CASE Ending(n, toks) # {}
  <2>1. Ending(n, toks) \subseteq Nat
    BY <1>1 DEF Ending
  <2>2. Taken(n, toks) = Min(Ending(n, toks))
    BY <1>3, Zenon DEF Taken
  <2>3. /\ Taken(n, toks) \in Ending(n, toks)
        /\ \A i \in Ending(n, toks) : Taken(n, toks) <= i
    BY <1>3, <2>1, <2>2, MinIsLeast
  <2>4. Taken(n, toks) \in 1..Len(toks) /\ EndsAt(n, toks, Taken(n, toks))
    BY <2>3, Zenon DEF Ending
  <2>5. ASSUME NEW i \in 1..Taken(n, toks) - 1 PROVE ~EndsAt(n, toks, i)
    <3>1. i \in 1..Len(toks) /\ ~(Taken(n, toks) <= i)
      BY <1>1, <2>4
    <3> QED
      BY <2>3, <3>1, Zenon DEF Ending
  <2> QED
    BY <1>3, <2>4, <2>5
<1> QED
  BY <1>2, <1>3

\* An unfinished output: tokens, none of them a stop token, and room for one
\* more unless the limit is a single token.
Open(g) ==
  /\ g \in Seq(Vocab) /\ g # <<>>
  /\ \A i \in 1..Len(g) : g[i] \notin StopTokens
  /\ Len(g) = 1 \/ Len(g) < Limit

\* Emit appends a non-empty prefix of the tokens, all of them when the
\* sequence goes on, ends the sequence on time and sends what it must.
LEMMA EmitOutput ==
  ASSUME NEW g, Open(g), NEW at \in Nat, NEW toks \in Seq(Vocab), toks # <<>>,
         Emit(g, at, g, toks)
  PROVE  /\ \E m \in 1..Len(toks) : gen' = g \o SubSeq(toks, 1, m) /\ position' = at + m
         /\ state' \in {"Decoding", "Finished"}
         /\ state' = "Finished" <=> Ending(Len(g), toks) # {}
         /\ state' = "Decoding" =>
              gen' = g \o toks /\ position' = at + Len(toks) /\ Open(gen')
         /\ gen' \in Seq(Vocab) /\ gen' # <<>> /\ pushed' \in Seq(Vocab)
         /\ served' = served /\ prompt' = prompt
         /\ OnTime'
<1> DEFINE n == Taken(Len(g), toks)
           s == SubSeq(toks, 1, n)
           G == g \o s
           ends == Ending(Len(g), toks) # {}
           N == Len(g)
<1>1. /\ g \in Seq(Vocab) /\ N \in Nat \ {0} /\ Len(toks) \in Nat \ {0}
      /\ \A i \in 1..N : g[i] \notin StopTokens
      /\ N = 1 \/ N < Limit
  BY EmptySeq DEF Open
<1>2. /\ n \in 1..Len(toks)
      /\ \A i \in 1..n - 1 : ~EndsAt(N, toks, i)
      /\ ~ends => n = Len(toks) /\ \A i \in 1..Len(toks) : ~EndsAt(N, toks, i)
      /\ ends => EndsAt(N, toks, n)
  BY <1>1, TakenFirst, Zenon
<1>3. /\ gen' = G /\ position' = at + n
      /\ state' = IF ends THEN "Finished" ELSE "Decoding"
      /\ pushed' = g \o SubSeq(toks, 1, IF ends THEN n - 1 ELSE n)
      /\ served' = served /\ prompt' = prompt
  BY DEF Emit
<1> HIDE DEF n, ends
<1>4. s \in Seq(Vocab) /\ Len(s) = n /\ \A i \in 1..n : s[i] = toks[i]
  <2>1. n \in 0..Len(toks)
    BY <1>1, <1>2
  <2> QED
    BY <2>1, Prefix
<1>5. ~ends => s = toks
  BY <1>2, SubSeqFull
<1> HIDE DEF s
<1>6. /\ G \in Seq(Vocab) /\ Len(G) = N + n
      /\ \A i \in 1..N : G[i] = g[i]
      /\ \A j \in 1..n : G[N + j] = toks[j]
  <2>1. /\ G \in Seq(Vocab) /\ Len(G) = N + Len(s)
        /\ \A i \in 1..N : G[i] = g[i]
        /\ \A j \in 1..Len(s) : G[N + j] = s[j]
    <3>1. G \in Seq(Vocab) /\ Len(G) = N + Len(s)
      BY <1>1, <1>4, ConcatIndex
    <3>2. /\ \A i \in 1..N : G[i] = g[i]
          /\ \A j \in 1..Len(s) : G[N + j] = s[j]
      BY <1>1, <1>4, ConcatIndex
    <3> QED
      BY <3>1, <3>2
  <2> QED
    BY <1>4, <2>1
<1> HIDE DEF G
<1>7. \A i \in 1..n - 1 : toks[i] \notin StopTokens /\ N + i < Limit
  <2> SUFFICES ASSUME NEW i \in 1..n - 1
               PROVE  toks[i] \notin StopTokens /\ N + i < Limit
    OBVIOUS
  <2>1. i \in Nat /\ ~(toks[i] \in StopTokens \/ N + i >= Limit)
    BY <1>1, <1>2 DEF EndsAt
  <2> QED
    BY <1>1, <2>1, SizeAssumption
<1>8. \A i \in 1..N + n - 1 : G[i] \notin StopTokens
  <2> SUFFICES ASSUME NEW i \in 1..N + n - 1 PROVE G[i] \notin StopTokens
    OBVIOUS
  <2>1. CASE i <= N
    <3>1. i \in 1..N
      BY <1>1, <1>2, <2>1
    <3> QED
      BY <1>1, <1>6, <3>1
  <2>2. CASE ~(i <= N)
    <3>1. i - N \in 1..n - 1 /\ i - N \in 1..n /\ i = N + (i - N)
      BY <1>1, <1>2, <2>2
    <3> QED
      BY <1>6, <1>7, <3>1
  <2> QED
    BY <2>1, <2>2
<1>9. N + n <= IF Limit < 2 THEN 2 ELSE Limit
  <2>1. CASE n = 1
    BY <1>1, <2>1, SizeAssumption
  <2>2. CASE n # 1
    <3>1. n - 1 \in 1..n - 1
      BY <1>1, <1>2, <2>2
    <3>2. N + (n - 1) < Limit
      BY <1>7, <3>1
    <3> QED
      BY <1>1, <1>2, <3>2, SizeAssumption
  <2> QED
    BY <2>1, <2>2
<1>10. G[N + n] = toks[n] /\ N + n \in Nat \ {0} /\ n \in Nat
  BY <1>1, <1>2, <1>6
<1>11. CASE ends
  <2>1. /\ state' = "Finished"
        /\ pushed' = g \o SubSeq(toks, 1, n - 1)
    BY <1>3, <1>11, Zenon
  <2>2. G[N + n] \in StopTokens \/ N + n >= Limit
    BY <1>2, <1>10, <1>11 DEF EndsAt
  <2>3. pushed' = SubSeq(G, 1, N + n - 1) /\ pushed' \in Seq(Vocab)
    <3>1. n \in 0..Len(toks) /\ n - 1 \in 0..n /\ N + (n - 1) = N + n - 1
      BY <1>1, <1>2
    <3>2. SubSeq(G, 1, N + (n - 1)) = g \o SubSeq(toks, 1, n - 1)
      BY <1>1, <3>1, ConcatPrefix DEF G, s
    <3>3. N + n - 1 \in 0..Len(G)
      BY <1>1, <1>2, <1>6
    <3>4. SubSeq(G, 1, N + n - 1) \in Seq(Vocab)
      BY <1>6, <3>3, Prefix
    <3> QED
      BY <2>1, <3>1, <3>2, <3>4
  <2>4. OnTime'
    <3>1. /\ \A i \in 1..Len(gen') - 1 : gen'[i] \notin StopTokens
          /\ Len(gen') <= IF Limit < 2 THEN 2 ELSE Limit
          /\ pushed' = SubSeq(gen', 1, Len(gen') - 1)
          /\ gen'[Len(gen')] \in StopTokens \/ Len(gen') >= Limit
      <4>1. Len(gen') = N + n
        BY <1>3, <1>6
      <4>2. gen' = G
        BY <1>3
      <4> HIDE DEF N
      <4>3. \A i \in 1..Len(gen') - 1 : gen'[i] \notin StopTokens
        BY <1>1, <1>8, <1>10, <4>1, <4>2
      <4>4. Len(gen') <= IF Limit < 2 THEN 2 ELSE Limit
        BY <1>9, <4>1
      <4>5. pushed' = SubSeq(gen', 1, Len(gen') - 1)
        BY <1>1, <1>10, <2>3, <4>1, <4>2
      <4>6. gen'[Len(gen')] \in StopTokens \/ Len(gen') >= Limit
        BY <2>2, <4>1, <4>2
      <4> QED
        BY <4>3, <4>4, <4>5, <4>6
    <3> QED
      BY <2>1, <3>1 DEF OnTime
  <2>5. \E m \in 1..Len(toks) : gen' = g \o SubSeq(toks, 1, m) /\ position' = at + m
    BY <1>2, <1>3, Zenon DEF G, s
  <2>6. gen' \in Seq(Vocab) /\ gen' # <<>>
    BY <1>3, <1>6, <1>10, EmptySeq
  <2> QED
    BY <1>3, <1>11, <2>1, <2>3, <2>4, <2>5, <2>6 DEF ends
<1>12. CASE ~ends
  <2>1. state' = "Decoding" /\ pushed' = G
    BY <1>3, <1>12, Zenon DEF G, s
  <2>2. G[N + n] \notin StopTokens /\ N + n < Limit
    <3>1. ~EndsAt(N, toks, n)
      BY <1>2, <1>12
    <3> QED
      BY <1>1, <1>10, <3>1, SizeAssumption DEF EndsAt
  <2>3. SubSeq(G, 1, Len(G)) = G
    BY <1>6, SubSeqFull
  <2>4. OnTime'
    <3>1. /\ \A i \in 1..Len(gen') - 1 : gen'[i] \notin StopTokens
          /\ Len(gen') <= IF Limit < 2 THEN 2 ELSE Limit
          /\ pushed' = SubSeq(gen', 1, Len(gen'))
          /\ gen'[Len(gen')] \notin StopTokens
      <4>1. Len(gen') = N + n
        BY <1>3, <1>6
      <4>2. gen' = G
        BY <1>3
      <4> HIDE DEF N
      <4>3. \A i \in 1..Len(gen') - 1 : gen'[i] \notin StopTokens
        BY <1>1, <1>8, <1>10, <4>1, <4>2
      <4>4. Len(gen') <= IF Limit < 2 THEN 2 ELSE Limit
        BY <1>9, <4>1
      <4>5. pushed' = SubSeq(gen', 1, Len(gen'))
        BY <2>1, <2>3, <4>2
      <4>6. gen'[Len(gen')] \notin StopTokens
        BY <2>2, <4>1, <4>2
      <4> QED
        BY <4>3, <4>4, <4>5, <4>6
    <3> QED
      BY <2>1, <3>1 DEF OnTime
  <2>5. \E m \in 1..Len(toks) : gen' = g \o SubSeq(toks, 1, m) /\ position' = at + m
    BY <1>2, <1>3, Zenon DEF G, s
  <2>6. gen' \in Seq(Vocab) /\ gen' # <<>>
    BY <1>3, <1>6, <1>10, EmptySeq
  <2>7. Open(gen')
    <3>1. \A i \in 1..N + n : G[i] \notin StopTokens
      <4> SUFFICES ASSUME NEW i \in 1..N + n PROVE G[i] \notin StopTokens
        OBVIOUS
      <4>1. i = N + n \/ i \in 1..N + n - 1
        BY <1>10
      <4> QED
        BY <1>8, <2>2, <4>1
    <3> QED
      BY <1>3, <1>6, <2>2, <2>6, <3>1 DEF Open
  <2>8. gen' = g \o toks /\ position' = at + Len(toks)
    BY <1>2, <1>3, <1>5, <1>12 DEF G
  <2> QED
    BY <1>3, <1>12, <2>1, <2>4, <2>5, <2>6, <2>7, <2>8 DEF ends
<1> QED
  BY <1>11, <1>12

-----------------------------------------------------------------------------
(* Greedy decoding.                                                        *)

\* g is what greedy decoding produces after the prompt p.
GreedyFrom(p, g) == \A i \in 1..Len(g) : g[i] = Target(p \o SubSeq(g, 1, i - 1))

\* Tokens that are each the target's choice after the output so far keep the
\* output greedy, wherever they are cut.
LEMMA GreedyExtend ==
  ASSUME NEW p \in Seq(Vocab), NEW g \in Seq(Vocab), GreedyFrom(p, g),
         NEW toks \in Seq(Vocab), NEW m \in 0..Len(toks),
         \A j \in 1..m : toks[j] = Target(p \o (g \o SubSeq(toks, 1, j - 1)))
  PROVE  GreedyFrom(p, g \o SubSeq(toks, 1, m))
<1> DEFINE s == SubSeq(toks, 1, m)
           G == g \o s
           N == Len(g)
<1>1. N \in Nat /\ Len(toks) \in Nat /\ m \in Nat
  BY LenProperties
<1>2. s \in Seq(Vocab) /\ Len(s) = m /\ \A i \in 1..m : s[i] = toks[i]
  BY Prefix
<1> HIDE DEF s
<1>3. /\ G \in Seq(Vocab) /\ Len(G) = N + m
      /\ \A i \in 1..N : G[i] = g[i]
      /\ \A j \in 1..m : G[N + j] = toks[j]
  <2>1. G \in Seq(Vocab) /\ Len(G) = N + Len(s)
    BY <1>2, ConcatIndex
  <2>2. /\ \A i \in 1..N : G[i] = g[i]
        /\ \A j \in 1..Len(s) : G[N + j] = s[j]
    BY <1>2, ConcatIndex
  <2> QED
    BY <1>2, <2>1, <2>2
<1> HIDE DEF G
<1>4. ASSUME NEW i \in 1..N PROVE G[i] = Target(p \o SubSeq(G, 1, i - 1))
  <2>1. i - 1 \in 0..N /\ i - 1 \in 0..Len(G)
    BY <1>1, <1>3
  <2>2. /\ SubSeq(g, 1, i - 1) \in Seq(Vocab) /\ Len(SubSeq(g, 1, i - 1)) = i - 1
        /\ \A k \in 1..i - 1 : SubSeq(g, 1, i - 1)[k] = g[k]
    BY <2>1, Prefix
  <2>3. /\ SubSeq(G, 1, i - 1) \in Seq(Vocab) /\ Len(SubSeq(G, 1, i - 1)) = i - 1
        /\ \A k \in 1..i - 1 : SubSeq(G, 1, i - 1)[k] = G[k]
    BY <1>3, <2>1, Prefix
  <2>4. \A k \in 1..i - 1 : G[k] = g[k]
    <3>1. \A k \in 1..i - 1 : k \in 1..N
      BY <1>1
    <3> QED
      BY <1>3, <3>1
  <2>5. SubSeq(G, 1, i - 1) = SubSeq(g, 1, i - 1)
    BY <2>2, <2>3, <2>4, SeqEqual
  <2>6. g[i] = Target(p \o SubSeq(g, 1, i - 1))
    BY DEF GreedyFrom
  <2> QED
    BY <1>3, <2>5, <2>6, Zenon
<1>5. ASSUME NEW j \in 1..m PROVE G[N + j] = Target(p \o SubSeq(G, 1, N + j - 1))
  <2>1. j - 1 \in 0..m /\ N + (j - 1) = N + j - 1
    BY <1>1
  <2>2. SubSeq(G, 1, N + (j - 1)) = g \o SubSeq(toks, 1, j - 1)
    BY <1>1, <2>1, ConcatPrefix DEF G, s
  <2>3. toks[j] = Target(p \o (g \o SubSeq(toks, 1, j - 1)))
    OBVIOUS
  <2> QED
    BY <1>3, <2>1, <2>2, <2>3
<1>6. ASSUME NEW i \in 1..Len(G) PROVE G[i] = Target(p \o SubSeq(G, 1, i - 1))
  <2>1. CASE i <= N
    <3>1. i \in 1..N
      BY <1>1, <1>3, <2>1
    <3> QED
      BY <1>4, <3>1
  <2>2. CASE ~(i <= N)
    <3>1. PICK j \in 1..m : i = N + j
      <4>1. i - N \in 1..m /\ i = N + (i - N)
        BY <1>1, <1>3, <2>2
      <4> QED
        BY <4>1
    <3>2. G[N + j] = Target(p \o SubSeq(G, 1, N + j - 1))
      BY <1>5
    <3>3. N + j - 1 = i - 1
      BY <1>1, <3>1
    <3> HIDE DEF N
    <3> QED
      BY <3>1, <3>2, <3>3
  <2> QED
    BY <2>1, <2>2
<1> QED
  BY <1>6 DEF GreedyFrom, G, s

-----------------------------------------------------------------------------
(* One scheduling step.                                                    *)

\* The conjuncts of SpecInv about the sequence and the target's cache.
SequenceInv ==
  OnTime /\ InService /\ TargetContext /\ PagedWhole /\ HiddenFresh /\ TreeLossless

\* What SpecInv says of a sequence that is being decoded, in the terms of the
\* lemmas above; the context of a verification pass over it is within the bound.
LEMMA DecodingState ==
  ASSUME SpecInv, state = "Decoding"
  PROVE  /\ prompt \in Prompts /\ prompt \in Seq(Vocab) /\ Len(prompt) \in Nat \ {0}
         /\ Open(gen) /\ Len(gen) \in Nat \ {0} /\ gen[Len(gen)] \in Vocab
         /\ pushed = gen
         /\ targetKV \in CacheOf(Vocab) /\ Holds(targetKV, prompt, gen)
         /\ SeqLen(targetKV) = position /\ position \in Nat
         /\ position = Len(prompt) + Len(gen) - 1
         /\ position + 1 + MaxDraft <= MaxContext
<1>1. /\ gen \in Seq(Vocab) /\ targetKV \in CacheOf(Vocab) /\ position \in Nat
  BY DEF SpecInv, EndsOnTime, TypeOK
<1>2. /\ prompt \in Prompts /\ gen # <<>>
      /\ Len(gen) = 1 \/ Len(gen) < Limit
  BY DEF SpecInv, InService
<1>3. prompt \in Seq(Vocab) /\ prompt # <<>>
  BY <1>2, VocabAssumption
<1>4. Len(prompt) \in Nat \ {0} /\ Len(gen) \in Nat \ {0}
  BY <1>1, <1>2, <1>3, EmptySeq
<1>5. /\ \A i \in 1..Len(gen) - 1 : gen[i] \notin StopTokens
      /\ gen[Len(gen)] \notin StopTokens
      /\ pushed = SubSeq(gen, 1, Len(gen))
  BY DEF SpecInv, EndsOnTime, OnTime
<1>6. pushed = gen
  BY <1>1, <1>5, SubSeqFull
<1>7. Open(gen)
  <2>1. \A i \in 1..Len(gen) : gen[i] \notin StopTokens
    <3> SUFFICES ASSUME NEW i \in 1..Len(gen) PROVE gen[i] \notin StopTokens
      OBVIOUS
    <3>1. i = Len(gen) \/ i \in 1..Len(gen) - 1
      BY <1>4
    <3> QED
      BY <1>5, <3>1
  <2> QED
    BY <1>1, <1>2, <2>1 DEF Open
<1>8. /\ position = Len(prompt) + Len(gen) - 1 /\ SeqLen(targetKV) = position
      /\ \A i \in 1..position :
           targetKV.rows[i].tok = (prompt \o gen)[i] /\ targetKV.rows[i].pos = i - 1
  BY DEF SpecInv, TargetContext
<1>9. Holds(targetKV, prompt, gen)
  BY <1>8 DEF Holds
<1>10. gen[Len(gen)] \in Vocab
  BY <1>1, <1>4, ElementOfSeq
<1>11. position + 1 + MaxDraft <= MaxContext
  <2>1. Len(prompt) + (IF Limit < 2 THEN 2 ELSE Limit) - 1 + MaxDraft <= MaxContext
    BY <1>2, ContextAssumption
  <2>2. Limit \in Nat \ {0} /\ MaxDraft \in Nat /\ MaxContext \in Nat
    BY SizeAssumption, ContextAssumption
  <2>3. PICK M \in Nat : M = IF Limit < 2 THEN 2 ELSE Limit
    BY <2>2
  <2>4. Limit <= M /\ 2 <= M /\ Len(prompt) + M - 1 + MaxDraft <= MaxContext
    BY <2>1, <2>2, <2>3
  <2>5. Len(gen) <= M - 1
    <3>1. PICK N \in Nat \ {0} : N = Len(gen)
      BY <1>4
    <3>2. N = 1 \/ N < Limit
      BY <1>2, <3>1, Zenon
    <3>3. N <= M - 1
      BY <2>2, <2>4, <3>2
    <3> QED
      BY <3>1, <3>3
  <2>6. position = Len(prompt) + Len(gen) - 1
    BY <1>8
  <2> QED
    BY <1>4, <2>2, <2>4, <2>5, <2>6
<1> QED
  BY <1>1, <1>2, <1>3, <1>4, <1>6, <1>7, <1>8, <1>9, <1>10, <1>11

\* A step that emits tokens after extending the cache by its input and all of
\* them but the last keeps the sequence's part of the invariant.
LEMMA Advance ==
  ASSUME prompt \in Prompts, NEW g, Open(g),
         NEW c \in CacheOf(Vocab), Holds(c, prompt, g), cache = "paged" => Whole(c),
         NEW toks \in Seq(Vocab), toks # <<>>,
         Extended(c, targetKV', g[Len(g)], toks),
         Emit(g, SeqLen(c), g, toks),
         UNCHANGED config,
         drafter # "model" /\ cache = "paged" /\ state' = "Decoding" =>
           lastHidden' = prompt \o (g \o SubSeq(toks, 1, Len(toks) - 1)),
         drafter = "tree" /\ cache = "paged" =>
           /\ GreedyFrom(prompt, g)
           /\ \A j \in 1..Len(toks) :
                toks[j] = Target(prompt \o (g \o SubSeq(toks, 1, j - 1)))
  PROVE  /\ SequenceInv'
         /\ prompt' = prompt /\ served' = served
         /\ state' \in {"Decoding", "Finished"}
         /\ position' \in Nat /\ gen' \in Seq(Vocab) /\ pushed' \in Seq(Vocab)
         /\ SeqLen(c) < position'
<1>1. /\ g \in Seq(Vocab) /\ g # <<>> /\ Len(g) \in Nat \ {0} /\ Len(toks) \in Nat \ {0}
  BY EmptySeq DEF Open
<1>2. prompt \in Seq(Vocab) /\ Len(prompt) \in Nat /\ SeqLen(c) \in Nat
  BY VocabAssumption, LenProperties, CacheFields
<1>3. /\ \E m \in 1..Len(toks) : gen' = g \o SubSeq(toks, 1, m) /\ position' = SeqLen(c) + m
      /\ state' \in {"Decoding", "Finished"}
      /\ state' = "Decoding" =>
           gen' = g \o toks /\ position' = SeqLen(c) + Len(toks) /\ Open(gen')
      /\ gen' \in Seq(Vocab) /\ gen' # <<>> /\ pushed' \in Seq(Vocab)
      /\ served' = served /\ prompt' = prompt
      /\ OnTime'
  BY <1>2, EmitOutput
<1>4. PICK m \in 1..Len(toks) : gen' = g \o SubSeq(toks, 1, m) /\ position' = SeqLen(c) + m
  BY <1>3
<1>5. position' \in Nat /\ SeqLen(c) < position'
  BY <1>1, <1>2, <1>4
<1>6. InService'
  BY <1>3 DEF InService, Open
<1>7. PagedWhole'
  BY DEF PagedWhole, Extended, config
<1>8. TargetContext'
  <2> SUFFICES ASSUME state' = "Decoding"
               PROVE  /\ position' = Len(prompt') + Len(gen') - 1
                      /\ SeqLen(targetKV)' = position'
                      /\ \A i \in 1..position' :
                           /\ targetKV'.rows[i].tok = (prompt' \o gen')[i]
                           /\ targetKV'.rows[i].pos = i - 1
    BY DEF TargetContext
  <2>1. Holds(targetKV', prompt, g \o toks)
    BY <1>1, <1>2, ExtendedHolds
  <2>2. SeqLen(targetKV') = position' /\ gen' = g \o toks
    BY <1>3 DEF Extended
  <2>3. SeqLen(targetKV') = SeqLen(targetKV)'
    BY DEF SeqLen
  <2> QED
    BY <1>3, <2>1, <2>2, <2>3 DEF Holds
<1>9. HiddenFresh'
  <2> SUFFICES ASSUME drafter # "model", cache = "paged", state' = "Decoding"
               PROVE  lastHidden' = prompt' \o SubSeq(gen', 1, Len(gen') - 1)
    BY DEF HiddenFresh, config
  <2>1. gen' = g \o toks /\ SubSeq(toks, 1, Len(toks)) = toks
    BY <1>3, SubSeqFull
  <2>2. Len(gen') = Len(g) + Len(toks)
    BY <1>1, <2>1, ConcatIndex
  <2>3. /\ Len(toks) \in 0..Len(toks) /\ Len(toks) - 1 \in 0..Len(toks)
        /\ Len(g) + (Len(toks) - 1) = Len(gen') - 1
    BY <1>1, <2>2
  <2>4. SubSeq(g \o SubSeq(toks, 1, Len(toks)), 1, Len(g) + (Len(toks) - 1))
          = g \o SubSeq(toks, 1, Len(toks) - 1)
    BY <1>1, <2>3, ConcatPrefix, SMTT(30)
  <2> QED
    BY <1>3, <2>1, <2>3, <2>4
<1>10. TreeLossless'
  <2> SUFFICES ASSUME drafter = "tree", cache = "paged" PROVE Greedy'
    BY DEF TreeLossless, config
  <2>1. m \in 0..Len(toks) /\ \A j \in 1..m : j \in 1..Len(toks)
    BY <1>1
  <2>2. GreedyFrom(prompt, g \o SubSeq(toks, 1, m))
    BY <1>1, <1>2, <2>1, GreedyExtend
  <2>3. GreedyFrom(prompt', gen')
    BY <1>3, <1>4, <2>2
  <2> QED
    BY <2>3 DEF Greedy, GreedyFrom
<1> QED
  BY <1>3, <1>5, <1>6, <1>7, <1>8, <1>9, <1>10 DEF SequenceInv

\* Two ways to group four sequences.
SameGroups(p, h, y, d) == (p \o h) \o (y \o d) = p \o ((h \o y) \o d)

\* They are the same sequence.
LEMMA Regroup ==
  ASSUME NEW V, NEW p \in Seq(V), NEW h \in Seq(V), NEW y \in Seq(V), NEW d \in Seq(V)
  PROVE  SameGroups(p, h, y, d)
<1>1. PICK w \in Seq(V) : w = y \o d
  BY ConcatIndex
<1>2. (p \o h) \o w = p \o (h \o w)
  BY ConcatAssociative, SMTT(60)
<1>3. (h \o y) \o d = h \o (y \o d)
  BY ConcatAssociative, SMTT(60)
<1> QED
  BY <1>1, <1>2, <1>3, Zenon DEF SameGroups

\* The tokens before the last one and the last one.
LEMMA LastSplit ==
  ASSUME NEW V, NEW g \in Seq(V), g # <<>>
  PROVE  /\ SubSeq(g, 1, Len(g) - 1) \in Seq(V) /\ g[Len(g)] \in V
         /\ g = SubSeq(g, 1, Len(g) - 1) \o <<g[Len(g)]>>
<1>1. Len(g) \in Nat \ {0}
  BY EmptySeq
<1>2. /\ Len(g) - 1 \in 0..Len(g) /\ Len(g) \in 1..Len(g) /\ 1 \in 1..Len(g)
      /\ SubSeq(g, 1, Len(g)) = g
  BY <1>1, SubSeqFull
<1>3. SubSeq(g, 1, Len(g) - 1) \in Seq(V) /\ g[Len(g)] \in V
  BY <1>2, Prefix, ElementOfSeq, SMTT(30)
<1>4. SubSeq(g, 1, Len(g)) = SubSeq(g, 1, Len(g) - 1) \o <<g[Len(g)]>>
  BY <1>2, SubSeqRecursiveSecond
<1> QED
  BY <1>2, <1>3, <1>4

\* What position i of a verification pass attends to: the whole output so far
\* and the drafts before i when the pass sees the cache, and in any case a
\* context that fits.
LEMMA AttendedIs ==
  ASSUME SpecInv, state = "Decoding",
         NEW d \in Seq(Vocab), Len(d) >= 1, Len(d) <= MaxDraft,
         NEW i \in 1..Len(d) + 1
  PROVE  /\ Target(Attended(d, i)) \in Vocab
         /\ Attended(d, i) \in Seq(Vocab)
         /\ cache = "paged" =>
              Attended(d, i) = prompt \o (gen \o SubSeq(d, 1, i - 1))
<1> DEFINE x == gen[Len(gen)]
           pass == SubSeq(<<x>> \o d, 1, i)
           e == SubSeq(d, 1, i - 1)
<1>1. /\ prompt \in Seq(Vocab) /\ Len(prompt) \in Nat \ {0}
      /\ gen \in Seq(Vocab) /\ gen # <<>> /\ Len(gen) \in Nat \ {0} /\ x \in Vocab
      /\ targetKV \in CacheOf(Vocab) /\ Holds(targetKV, prompt, gen)
      /\ SeqLen(targetKV) = position /\ position \in Nat
      /\ position + 1 + MaxDraft <= MaxContext
  BY DecodingState DEF Open
<1>2. Len(d) \in Nat /\ MaxDraft \in Nat /\ MaxContext \in Nat
  BY LenProperties, SizeAssumption, ContextAssumption
<1>3. /\ <<x>> \o d \in Seq(Vocab) /\ Len(<<x>> \o d) = Len(d) + 1
  BY <1>1, InputAndDraft
<1>4. pass \in Seq(Vocab) /\ Len(pass) = i
  <2>1. i \in 0..Len(<<x>> \o d)
    BY <1>2, <1>3
  <2> QED
    BY <1>3, <2>1, Prefix
<1>5. pass = <<x>> \o e /\ e \in Seq(Vocab)
  <2>1. /\ <<x>> \in Seq(Vocab) /\ Len(<<x>>) = 1
        /\ Len(d) \in 0..Len(d) /\ i - 1 \in 0..Len(d) /\ 1 + (i - 1) = i
    BY <1>1, <1>2
  <2>2. SubSeq(d, 1, Len(d)) = d
    BY SubSeqFull
  <2>3. SubSeq(<<x>> \o SubSeq(d, 1, Len(d)), 1, Len(<<x>>) + (i - 1)) = <<x>> \o e
    BY <2>1, ConcatPrefix
  <2>4. e \in Seq(Vocab)
    BY <2>1, Prefix
  <2> QED
    BY <2>1, <2>2, <2>3, <2>4
<1> DEFINE ctx == Context(targetKV, SeqLen(targetKV))
<1>6. Attended(d, i) = IF SeesCache(Len(d) + 1) THEN ctx \o pass ELSE pass
  BY DEF Attended, InputToken
<1> HIDE DEF pass
<1>7. /\ ctx = prompt \o SubSeq(gen, 1, Len(gen) - 1)
      /\ ctx \in Seq(Vocab) /\ Len(ctx) = position
  BY <1>1, ContextHolds
<1>8. (prompt \o SubSeq(gen, 1, Len(gen) - 1)) \o (<<x>> \o e) = prompt \o (gen \o e)
  <2>1. PICK h \in Seq(Vocab) : h = SubSeq(gen, 1, Len(gen) - 1)
    BY <1>1, LastSplit
  <2>2. PICK y \in Seq(Vocab) : y = <<x>>
    <3>1. x \in Vocab
      BY <1>1
    <3> HIDE DEF x
    <3>2. <<x>> \in Seq(Vocab)
      BY <3>1
    <3> QED
      BY <3>2
  <2>3. PICK w \in Seq(Vocab) : w = e
    BY <1>5
  <2>4. gen = h \o y
    BY <1>1, <2>1, <2>2, LastSplit
  <2>5. (prompt \o h) \o (y \o w) = prompt \o ((h \o y) \o w)
    <3>1. SameGroups(prompt, h, y, w)
      BY <1>1, Regroup
    <3> QED
      BY <3>1, Zenon DEF SameGroups
  <2> HIDE DEF e, x
  <2> QED
    BY <2>1, <2>2, <2>3, <2>4, <2>5, Zenon
<1> HIDE DEF ctx, e, x
<1>9. ctx \o pass = prompt \o (gen \o e)
  BY <1>5, <1>7, <1>8, Zenon
<1>10. ctx \o pass \in Seq(Vocab) /\ Len(ctx \o pass) = position + i
  BY <1>4, <1>7, ConcatIndex
<1>11. /\ i >= 1 /\ i <= MaxContext
       /\ position + i >= 1 /\ position + i <= MaxContext
  BY <1>1, <1>2
<1>12. Target(pass) \in Vocab /\ Target(ctx \o pass) \in Vocab
  BY <1>4, <1>10, <1>11, TargetToken
<1>13. Target(Attended(d, i)) \in Vocab /\ Attended(d, i) \in Seq(Vocab)
  <2>1. CASE SeesCache(Len(d) + 1)
    BY <1>6, <1>10, <1>12, <2>1, Zenon
  <2>2. CASE ~SeesCache(Len(d) + 1)
    BY <1>4, <1>6, <1>12, <2>2, Zenon
  <2> QED
    BY <2>1, <2>2
<1>14. cache = "paged" => Attended(d, i) = prompt \o (gen \o e)
  BY <1>6, <1>9, Zenon DEF SeesCache
<1> QED
  BY <1>13, <1>14 DEF e

\* A verified draft is committed: the accepted drafts and the final token.
LEMMA CommitStep ==
  ASSUME SpecInv, state = "Decoding", drafter # "model",
         NEW d \in Seq(Vocab), Len(d) >= 1, Len(d) <= MaxDraft,
         NEW n \in 0..Len(d), NEW f \in Vocab,
         Commit(d, n, f), UNCHANGED config,
         drafter = "tree" =>
           /\ \A i \in 1..n : d[i] = Target(Attended(d, i))
           /\ f = Target(Attended(d, n + 1))
  PROVE  /\ SequenceInv'
         /\ prompt' = prompt /\ served' = served
         /\ state' \in {"Decoding", "Finished"}
         /\ position' \in Nat /\ gen' \in Seq(Vocab) /\ pushed' \in Seq(Vocab)
         /\ targetKV' \in CacheOf(Vocab) /\ SeqLen(targetKV)' <= targetKV'.high
         /\ targetKV'.high <= position' + MaxDraft
         /\ lastHidden' \in Seq(Vocab) \cup {None}
         /\ accepted' = Push(accepted, n, AcceptWindow)
<1> DEFINE x == gen[Len(gen)]
           toks == Append(SubSeq(d, 1, n), f)
<1>1. /\ prompt \in Prompts /\ Open(gen) /\ x \in Vocab /\ pushed = gen
      /\ targetKV \in CacheOf(Vocab) /\ Holds(targetKV, prompt, gen)
      /\ SeqLen(targetKV) = position /\ position \in Nat
      /\ position + 1 + MaxDraft <= MaxContext
  BY DecodingState
<1>2. Len(d) \in Nat /\ MaxDraft \in Nat /\ MaxContext \in Nat /\ n \in Nat
  BY LenProperties, SizeAssumption, ContextAssumption
<1>3. /\ toks \in Seq(Vocab) /\ Len(toks) = n + 1
      /\ \A j \in 1..n : toks[j] = d[j]
      /\ toks[n + 1] = f
  BY AcceptedAndFinal
<1>4. /\ targetKV' = CutTarget(AppendKV(targetKV, <<x>> \o d, SeqLen(targetKV)), SeqLen(targetKV), n)
      /\ accepted' = Push(accepted, n, AcceptWindow)
      /\ Emit(gen, SeqLen(targetKV), gen, toks)
      /\ lastHidden' = IF Ending(Len(gen), toks) # {} THEN None ELSE HiddenAfter(d, n)
  BY <1>1 DEF Commit, Verified, InputToken
<1>5. /\ Extended(targetKV, targetKV', x, toks)
      /\ targetKV'.high = targetKV.high \/ targetKV'.high = SeqLen(targetKV) + 1 + Len(d)
  BY <1>1, <1>4, VerifyExtends
<1>6. targetKV' \in CacheOf(Vocab) /\ SeqLen(targetKV)' <= targetKV'.high
  BY <1>5 DEF Extended, SeqLen
<1>7. targetKV.high <= position + MaxDraft /\ targetKV.high \in Nat
  BY <1>1, CacheFields DEF SpecInv, WriteAhead
<1> HIDE DEF toks
<1>8. toks # <<>>
  BY <1>2, <1>3, EmptySeq
<1>9. n + 1 \in 1..Len(d) + 1 /\ \A i \in 1..n : i \in 1..Len(d) + 1
  BY <1>2
<1>10. \A j \in 1..n + 1 : SubSeq(toks, 1, j - 1) = SubSeq(d, 1, j - 1)
  <2> SUFFICES ASSUME NEW j \in 1..n + 1 PROVE SubSeq(toks, 1, j - 1) = SubSeq(d, 1, j - 1)
    OBVIOUS
  <2>1. /\ j - 1 \in 0..Len(d) /\ j - 1 \in 0..Len(toks)
        /\ \A i \in 1..j - 1 : i \in 1..n
    BY <1>2, <1>3
  <2>2. /\ SubSeq(toks, 1, j - 1) \in Seq(Vocab) /\ Len(SubSeq(toks, 1, j - 1)) = j - 1
        /\ \A i \in 1..j - 1 : SubSeq(toks, 1, j - 1)[i] = toks[i]
    BY <1>3, <2>1, Prefix
  <2>3. /\ SubSeq(d, 1, j - 1) \in Seq(Vocab) /\ Len(SubSeq(d, 1, j - 1)) = j - 1
        /\ \A i \in 1..j - 1 : SubSeq(d, 1, j - 1)[i] = d[i]
    BY <2>1, Prefix
  <2>4. \A i \in 1..j - 1 : SubSeq(toks, 1, j - 1)[i] = SubSeq(d, 1, j - 1)[i]
    BY <1>3, <2>1, <2>2, <2>3
  <2> QED
    BY <2>2, <2>3, <2>4, SeqEqual
<1>11. lastHidden' \in Seq(Vocab) \cup {None}
  <2>1. HiddenAfter(d, n) \in Seq(Vocab)
    BY <1>9, AttendedIs DEF HiddenAfter
  <2> QED
    BY <1>4, <2>1
<1>12. cache = "paged" /\ state' = "Decoding" =>
         lastHidden' = prompt \o (gen \o SubSeq(toks, 1, Len(toks) - 1))
  <2> SUFFICES ASSUME cache = "paged", state' = "Decoding"
               PROVE  lastHidden' = prompt \o (gen \o SubSeq(toks, 1, Len(toks) - 1))
    OBVIOUS
  <2>1. Ending(Len(gen), toks) = {}
    BY <1>4 DEF Emit
  <2>2. lastHidden' = Attended(d, n + 1)
    BY <1>4, <2>1 DEF HiddenAfter
  <2>3. Attended(d, n + 1) = prompt \o (gen \o SubSeq(d, 1, n + 1 - 1))
    <3>1. PICK i \in 1..Len(d) + 1 : i = n + 1
      BY <1>9
    <3>2. Attended(d, i) = prompt \o (gen \o SubSeq(d, 1, i - 1))
      BY AttendedIs
    <3> QED
      BY <3>1, <3>2
  <2>4. n + 1 - 1 = Len(toks) - 1 /\ n + 1 \in 1..n + 1
    BY <1>2, <1>3
  <2>5. SubSeq(toks, 1, n + 1 - 1) = SubSeq(d, 1, n + 1 - 1)
    BY <1>10, <2>4
  <2> QED
    BY <2>2, <2>3, <2>4, <2>5
<1>13. drafter = "tree" /\ cache = "paged" =>
         /\ GreedyFrom(prompt, gen)
         /\ \A j \in 1..Len(toks) :
              toks[j] = Target(prompt \o (gen \o SubSeq(toks, 1, j - 1)))
  <2> SUFFICES ASSUME drafter = "tree", cache = "paged"
               PROVE  /\ GreedyFrom(prompt, gen)
                      /\ \A j \in 1..Len(toks) :
                           toks[j] = Target(prompt \o (gen \o SubSeq(toks, 1, j - 1)))
    OBVIOUS
  <2>1. GreedyFrom(prompt, gen)
    BY DEF SpecInv, TreeLossless, Greedy, GreedyFrom
  <2>2. ASSUME NEW j \in 1..Len(toks)
        PROVE  toks[j] = Target(prompt \o (gen \o SubSeq(toks, 1, j - 1)))
    <3>1. j \in 1..n + 1 /\ j \in 1..Len(d) + 1
      BY <1>2, <1>3
    <3>2. toks[j] = Target(Attended(d, j))
      <4>1. CASE j = n + 1
        BY <1>3, <4>1
      <4>2. CASE j # n + 1
        <5>1. j \in 1..n
          BY <1>2, <3>1, <4>2
        <5> QED
          BY <1>3, <5>1
      <4> QED
        BY <4>1, <4>2
    <3>3. Attended(d, j) = prompt \o (gen \o SubSeq(d, 1, j - 1))
      BY <3>1, AttendedIs
    <3> QED
      BY <1>10, <3>1, <3>2, <3>3
  <2> QED
    BY <2>1, <2>2
<1>14. cache = "paged" => Whole(targetKV)
  BY DEF SpecInv, PagedWhole
<1>15. /\ SequenceInv'
       /\ prompt' = prompt /\ served' = served
       /\ state' \in {"Decoding", "Finished"}
       /\ position' \in Nat /\ gen' \in Seq(Vocab) /\ pushed' \in Seq(Vocab)
       /\ SeqLen(targetKV) < position'
  BY <1>1, <1>3, <1>4, <1>5, <1>8, <1>12, <1>13, <1>14, Advance
<1>16. targetKV'.high <= position' + MaxDraft
  BY <1>1, <1>2, <1>5, <1>7, <1>15, SMTT(30)
<1> QED
  BY <1>4, <1>6, <1>11, <1>15, <1>16

\* A plain decode step.
LEMMA DecodeOne ==
  ASSUME prompt \in Prompts, NEW g, Open(g),
         NEW c \in CacheOf(Vocab), c.high <= SeqLen(c) + MaxDraft, SeqLen(c) + 1 <= MaxContext,
         Holds(c, prompt, g), cache = "paged" => Whole(c),
         drafter = "tree" /\ cache = "paged" => GreedyFrom(prompt, g),
         DecodeStep(c, g, SeqLen(c), g), UNCHANGED config
  PROVE  /\ SequenceInv'
         /\ prompt' = prompt /\ served' = served
         /\ state' \in {"Decoding", "Finished"}
         /\ position' \in Nat /\ gen' \in Seq(Vocab) /\ pushed' \in Seq(Vocab)
         /\ targetKV' \in CacheOf(Vocab) /\ SeqLen(targetKV)' <= targetKV'.high
         /\ targetKV'.high <= position' + MaxDraft
         /\ lastHidden' \in Seq(Vocab)
<1> DEFINE x == g[Len(g)]
           k == AppendKV(c, <<x>>, SeqLen(c))
<1>1. /\ g \in Seq(Vocab) /\ g # <<>> /\ Len(g) \in Nat \ {0} /\ x \in Vocab
      /\ SeqLen(c) \in Nat
      /\ prompt \in Seq(Vocab) /\ Len(prompt) \in Nat
  <2>1. g \in Seq(Vocab) /\ g # <<>> /\ Len(g) \in Nat \ {0}
    BY EmptySeq DEF Open
  <2>2. Len(g) \in 1..Len(g)
    BY <2>1
  <2>3. x \in Vocab
    BY <2>1, <2>2, ElementOfSeq
  <2> QED
    BY <2>1, <2>3, CacheFields, VocabAssumption, LenProperties
<1>2. targetKV' = k /\ lastHidden' = Context(k, SeqLen(k))
  BY DEF DecodeStep
<1>3. PICK t \in Preferred(k) : Emit(g, SeqLen(c), g, <<t>>)
  BY DEF DecodeStep
<1> HIDE DEF x
<1>4. /\ Extended(c, k, x, <<x>>) /\ Extended(c, k, x, <<t>>)
      /\ k.high = c.high \/ k.high = SeqLen(c) + 1
  BY <1>1, DecodeExtends
<1> HIDE DEF k
<1>5. k \in CacheOf(Vocab) /\ SeqLen(k) <= k.high /\ SeqLen(k) = SeqLen(c) + 1
  BY <1>4 DEF Extended
<1>6. Context(k, SeqLen(k)) = prompt \o g /\ prompt \o g \in Seq(Vocab) /\ Len(prompt \o g) = SeqLen(k)
  <2>1. <<x>> \in Seq(Vocab) /\ <<x>> # <<>> /\ Len(<<x>>) = 1
    BY <1>1
  <2>2. Holds(k, prompt, g \o <<x>>)
    BY <1>1, <1>4, <2>1, ExtendedHolds DEF x
  <2>3. PICK y \in Seq(Vocab) : y = <<x>>
    BY <2>1
  <2>4. g \o y \in Seq(Vocab) /\ Len(g \o y) = Len(g) + 1
    BY <1>1, <2>1, <2>3, ConcatIndex
  <2>5. g \o y # <<>>
    BY <1>1, <2>4, EmptySeq
  <2>6. SubSeq(g \o y, 1, Len(g \o y) - 1) = g
    <3>1. /\ SubSeq(y, 1, Len(y)) = y /\ Len(y) \in 0..Len(y) /\ 0 \in 0..Len(y)
          /\ Len(g) + 0 = Len(g \o y) - 1
      <4>1. Len(y) = 1
        BY <2>1, <2>3, Zenon
      <4>2. SubSeq(y, 1, Len(y)) = y
        BY SubSeqFull
      <4>3. Len(g) + 0 = Len(g \o y) - 1
        BY <1>1, <2>4
      <4> QED
        BY <4>1, <4>2, <4>3
    <3>2. SubSeq(g \o SubSeq(y, 1, Len(y)), 1, Len(g) + 0) = g \o SubSeq(y, 1, 0)
      BY <1>1, <3>1, ConcatPrefix
    <3>3. SubSeq(y, 1, 0) = <<>> /\ g \o <<>> = g
      BY <1>1, SubSeqEmpty, ConcatEmptySeq
    <3> QED
      BY <3>1, <3>2, <3>3
  <2>7. PICK G \in Seq(Vocab) : G = g \o y
    BY <2>4
  <2>8. /\ Context(k, SeqLen(k)) = prompt \o SubSeq(G, 1, Len(G) - 1)
        /\ prompt \o SubSeq(G, 1, Len(G) - 1) \in Seq(Vocab)
        /\ Len(prompt \o SubSeq(G, 1, Len(G) - 1)) = SeqLen(k)
    <3>1. Holds(k, prompt, G) /\ G # <<>>
      BY <2>2, <2>3, <2>5, <2>7, Zenon
    <3> QED
      BY <1>1, <1>5, <3>1, ContextHolds
  <2> QED
    BY <2>6, <2>7, <2>8
<1>7. Target(prompt \o g) \in Vocab
  <2>1. MaxContext \in Nat
    BY SizeAssumption, ContextAssumption
  <2>2. Len(prompt \o g) >= 1 /\ Len(prompt \o g) <= MaxContext
    BY <1>1, <1>5, <1>6, <2>1
  <2> QED
    BY <1>6, <2>2, TargetToken
<1>8. t \in Vocab /\ (Whole(k) => t = Target(prompt \o g))
  BY <1>3, <1>6, <1>7 DEF Preferred
<1>9. <<t>> \in Seq(Vocab) /\ <<t>> # <<>> /\ Len(<<t>>) = 1 /\ <<t>>[1] = t
  BY <1>8
<1>10. SubSeq(<<t>>, 1, 0) = <<>> /\ g \o <<>> = g
  BY <1>1, SubSeqEmpty, ConcatEmptySeq
<1>11. g \o SubSeq(<<t>>, 1, 0) = g
  BY <1>10, Zenon
<1>12. PICK toks \in Seq(Vocab) : toks = <<t>>
  BY <1>9
<1>13. /\ toks # <<>> /\ Len(toks) = 1 /\ toks[1] = t
       /\ g \o SubSeq(toks, 1, 0) = g
       /\ Extended(c, targetKV', g[Len(g)], toks)
       /\ Emit(g, SeqLen(c), g, toks)
  BY <1>2, <1>3, <1>4, <1>9, <1>11, <1>12 DEF x
<1>14. lastHidden' = prompt \o (g \o SubSeq(toks, 1, Len(toks) - 1))
  <2>1. Len(toks) - 1 = 0
    BY <1>13
  <2>2. lastHidden' = prompt \o g
    BY <1>2, <1>6
  <2>3. lastHidden' = prompt \o (g \o SubSeq(toks, 1, 0))
    BY <1>13, <2>2, Zenon
  <2> QED
    BY <2>1, <2>3, Zenon
<1>15. drafter = "tree" /\ cache = "paged" =>
         \A j \in 1..Len(toks) :
           toks[j] = Target(prompt \o (g \o SubSeq(toks, 1, j - 1)))
  <2> SUFFICES ASSUME cache = "paged", NEW j \in 1..Len(toks)
               PROVE  toks[j] = Target(prompt \o (g \o SubSeq(toks, 1, j - 1)))
    OBVIOUS
  <2>1. j = 1 /\ j - 1 = 0
    BY <1>13
  <2>2. Whole(k)
    BY <1>4 DEF Extended
  <2>3. toks[1] = Target(prompt \o g)
    BY <1>8, <1>13, <2>2
  <2>4. toks[1] = Target(prompt \o (g \o SubSeq(toks, 1, 0)))
    BY <1>13, <2>3, Zenon
  <2> QED
    BY <2>1, <2>4, Zenon
<1>16. /\ SequenceInv'
       /\ prompt' = prompt /\ served' = served
       /\ state' \in {"Decoding", "Finished"}
       /\ position' \in Nat /\ gen' \in Seq(Vocab) /\ pushed' \in Seq(Vocab)
       /\ SeqLen(c) < position'
  BY <1>13, <1>14, <1>15, Advance
<1>17. /\ targetKV' \in CacheOf(Vocab) /\ SeqLen(targetKV)' <= targetKV'.high
       /\ targetKV'.high <= position' + MaxDraft
  <2>1. targetKV' \in CacheOf(Vocab) /\ SeqLen(targetKV)' <= targetKV'.high
    BY <1>2, <1>5 DEF SeqLen
  <2>2. MaxDraft \in Nat /\ c.high \in Nat
    BY SizeAssumption, CacheFields
  <2>3. targetKV'.high = c.high \/ targetKV'.high = SeqLen(c) + 1
    BY <1>2, <1>4
  <2> QED
    BY <1>1, <1>16, <2>1, <2>2, <2>3
<1>18. lastHidden' \in Seq(Vocab)
  BY <1>2, <1>6
<1> QED
  BY <1>16, <1>17, <1>18

\* Prefill fills the emptied cache with the prompt; the first token is the
\* target's choice after it.
LEMMA Prefilled ==
  ASSUME SpecInv, state = "Pending"
  PROVE  /\ prompt \in Prompts /\ Len(prompt) \in Nat \ {0}
         /\ PrefilledTarget \in CacheOf(Vocab)
         /\ SeqLen(PrefilledTarget) = Len(prompt)
         /\ SeqLen(PrefilledTarget) <= PrefilledTarget.high
         /\ PrefilledTarget.high = Len(prompt)
         /\ Len(prompt) + 1 <= MaxContext
         /\ FirstToken = Target(prompt) /\ FirstToken \in Vocab
         /\ Holds(PrefilledTarget, prompt, <<FirstToken>>)
         /\ cache = "paged" => Whole(PrefilledTarget)
         /\ GreedyFrom(prompt, <<FirstToken>>)
<1> DEFINE k == PrefilledTarget
<1>1. prompt \in Prompts
  BY DEF SpecInv, InService
<1>2. prompt \in Seq(Vocab) /\ Len(prompt) \in Nat \ {0}
  BY <1>1, VocabAssumption, EmptySeq
<1>3. Len(prompt) + 1 <= MaxContext /\ MaxContext \in Nat
  <2>1. Len(prompt) + (IF Limit < 2 THEN 2 ELSE Limit) - 1 + MaxDraft <= MaxContext
    BY <1>1, ContextAssumption
  <2>2. Limit \in Nat \ {0} /\ MaxDraft \in Nat /\ MaxContext \in Nat
    BY SizeAssumption, ContextAssumption
  <2> QED
    BY <1>2, <2>1, <2>2
<1>4. PICK c \in CacheOf(Vocab) :
        /\ c = Reset(targetKV) /\ SeqLen(c) = 0 /\ c.high = 0 /\ Whole(c)
  BY ResetRows
<1>5. /\ k \in CacheOf(Vocab)
      /\ SeqLen(k) = SeqLen(c) + Len(prompt)
      /\ SeqLen(k) <= k.high /\ c.high <= k.high
      /\ k.high = c.high \/ k.high = SeqLen(k)
      /\ \A i \in 1..Len(prompt) :
           /\ k.rows[SeqLen(c) + i].tok = prompt[i]
           /\ k.rows[SeqLen(c) + i].pos = 0 + i - 1
      /\ cache = "paged" /\ Whole(c) => Whole(k)
  <2>1. k = AppendKV(c, prompt, 0)
    BY <1>4 DEF PrefilledTarget
  <2>2. PICK p \in Seq(Vocab), z \in Nat : p = prompt /\ z = 0
    BY <1>2
  <2> DEFINE a == AppendKV(c, p, z)
  <2>3. /\ a \in CacheOf(Vocab)
        /\ SeqLen(a) = SeqLen(c) + Len(p)
        /\ SeqLen(a) <= a.high /\ c.high <= a.high
        /\ a.high = c.high \/ a.high = SeqLen(a)
        /\ \A i \in 1..SeqLen(c) : SameRow(a, c, i)
        /\ \A i \in 1..Len(p) :
             /\ a.rows[SeqLen(c) + i].tok = p[i]
             /\ a.rows[SeqLen(c) + i].pos = z + i - 1
        /\ cache = "paged" /\ Whole(c) => Whole(a)
    BY AppendKVRows, Zenon
  <2>4. k = a
    BY <2>1, <2>2, Zenon
  <2> HIDE DEF k, a
  <2> QED
    BY <2>2, <2>3, <2>4
<1> HIDE DEF k
<1>6. /\ SeqLen(k) = Len(prompt) /\ k.high = Len(prompt)
      /\ \A i \in 1..Len(prompt) : k.rows[i].tok = prompt[i] /\ k.rows[i].pos = i - 1
  <2>1. SeqLen(k) = Len(prompt)
    BY <1>2, <1>4, <1>5
  <2>2. k.high = Len(prompt)
    BY <1>2, <1>4, <1>5, <2>1
  <2>3. \A i \in 1..Len(prompt) : SeqLen(c) + i = i /\ 0 + i - 1 = i - 1
    BY <1>2, <1>4
  <2> QED
    BY <1>5, <2>1, <2>2, <2>3
<1>7. cache = "paged" => Whole(k)
  BY <1>4, <1>5
<1>8. Context(k, Len(prompt)) = prompt
  <2>1. prompt = [i \in 1..Len(prompt) |-> prompt[i]]
    BY <1>2, LenProperties
  <2>2. [i \in 1..Len(prompt) |-> k.rows[i].tok] = [i \in 1..Len(prompt) |-> prompt[i]]
    BY <1>6
  <2> QED
    BY <2>1, <2>2, Zenon DEF Context
<1>9. FirstToken = Target(prompt)
  BY <1>8, Zenon DEF FirstToken, k
<1>10. FirstToken \in Vocab
  <2>1. Len(prompt) >= 1 /\ Len(prompt) <= MaxContext
    BY <1>2, <1>3
  <2> QED
    BY <1>2, <1>9, <2>1, TargetToken
<1>11. PICK f \in Vocab : f = FirstToken
  BY <1>10
<1>12. PICK y \in Seq(Vocab) : y = <<f>> /\ Len(y) = 1 /\ y[1] = f
  <2>1. <<f>> \in Seq(Vocab) /\ Len(<<f>>) = 1 /\ <<f>>[1] = f
    OBVIOUS
  <2> QED
    BY <2>1
<1>13. Holds(k, prompt, y)
  <2>1. \A i \in 1..Len(prompt) : (prompt \o y)[i] = prompt[i]
    BY <1>2, ConcatIndex
  <2>2. Len(prompt) = Len(prompt) + Len(y) - 1
    BY <1>2, <1>12
  <2> QED
    BY <1>6, <2>1, <2>2 DEF Holds
<1>14. GreedyFrom(prompt, y)
  <2> SUFFICES ASSUME NEW i \in 1..Len(y) PROVE y[i] = Target(prompt \o SubSeq(y, 1, i - 1))
    BY DEF GreedyFrom
  <2>1. i = 1 /\ i - 1 = 0
    BY <1>12
  <2>2. SubSeq(y, 1, 0) = <<>> /\ prompt \o <<>> = prompt
    BY <1>2, SubSeqEmpty, ConcatEmptySeq
  <2>3. y[1] = Target(prompt \o SubSeq(y, 1, 0))
    BY <1>9, <1>11, <1>12, <2>2, Zenon
  <2> QED
    BY <2>1, <2>3, Zenon
<1>15. Holds(k, prompt, <<FirstToken>>) /\ GreedyFrom(prompt, <<FirstToken>>)
  BY <1>11, <1>12, <1>13, <1>14, Zenon
<1> QED
  BY <1>1, <1>2, <1>3, <1>5, <1>6, <1>7, <1>9, <1>10, <1>15 DEF k

-----------------------------------------------------------------------------
(* The circular buffers.                                                   *)

\* A circular buffer never grows beyond its size.
LEMMA PushType ==
  ASSUME NEW S, NEW buf \in Seq(S), NEW e \in S, NEW n \in Nat \ {0}, Len(buf) <= n
  PROVE  Push(buf, e, n) \in Seq(S) /\ Len(Push(buf, e, n)) <= n
<1>1. Len(buf) \in Nat
  BY LenProperties
<1>2. CASE Len(buf) < n
  <2>1. Push(buf, e, n) = Append(buf, e)
    BY <1>2 DEF Push
  <2> QED
    BY <1>1, <1>2, <2>1, AppendProperties
<1>3. CASE ~(Len(buf) < n)
  <2>1. Push(buf, e, n) = Append(Tail(buf), e)
    BY <1>3 DEF Push
  <2>2. buf # <<>>
    BY <1>1, <1>3
  <2>3. Tail(buf) \in Seq(S) /\ Len(Tail(buf)) = Len(buf) - 1
    BY <2>2, HeadTailProperties
  <2>4. PICK t \in Seq(S) : t = Tail(buf)
    BY <2>3
  <2>5. Append(t, e) \in Seq(S) /\ Len(Append(t, e)) = Len(t) + 1
    BY AppendProperties
  <2> QED
    BY <1>1, <1>3, <2>1, <2>3, <2>4, <2>5
<1> QED
  BY <1>2, <1>3

\* The draft length stays within its bounds, whatever the acceptance rate.
LEMMA AdaptType ==
  ASSUME NEW w, NEW cur \in MinDraft..MaxDraft
  PROVE  Adapt(w, cur) \in MinDraft..MaxDraft
<1>1. MinDraft \in Nat /\ MaxDraft \in Nat /\ MinDraft <= MaxDraft
  BY SizeAssumption
<1>2. \A y \in Int : Clamp(y, MinDraft, MaxDraft) \in MinDraft..MaxDraft
  BY <1>1 DEF Clamp
<1>3. cur \in Int /\ cur + 1 \in Int /\ cur - 1 \in Int
  BY <1>1
<1> DEFINE up == 10 * WindowRate(w) > 8 * (Scale * WindowSize)
           down == 10 * WindowRate(w) < 4 * (Scale * WindowSize)
           y == IF up THEN cur + 1 ELSE IF down THEN cur - 1 ELSE cur
<1>4. Adapt(w, cur) = IF Len(w) < WindowSize THEN cur ELSE Clamp(y, MinDraft, MaxDraft)
  BY Zenon DEF Adapt
<1> HIDE DEF up, down
<1>5. y \in Int
  BY <1>3
<1> HIDE DEF y
<1>6. Clamp(y, MinDraft, MaxDraft) \in MinDraft..MaxDraft
  BY <1>2, <1>5
<1> QED
  BY <1>4, <1>6

\* A probe keeps its counter and the acceptance window in range.
LEMMA ProbeType ==
  ASSUME SpecInv, Probe
  PROVE  /\ accepted' \in Seq(0..MaxDraft) /\ Len(accepted)' <= AcceptWindow
         /\ probes' \in 0..ProbeInterval
<1>1. /\ accepted \in Seq(0..MaxDraft) /\ Len(accepted) <= AcceptWindow
      /\ probes \in 0..ProbeInterval
  BY DEF SpecInv, EndsOnTime, TypeOK
<1>2. /\ ProbeInterval \in Nat \ {0} /\ AcceptWindow \in Nat \ {0}
      /\ 0 \in 0..MaxDraft /\ 1 \in 0..MaxDraft
  BY SizeAssumption
<1>3. \/ UNCHANGED accepted
      \/ \E hit \in {0, 1} : accepted' = Push(accepted, hit, AcceptWindow)
  BY DEF Probe
<1>4. \/ UNCHANGED probes
      \/ probes' = 0
      \/ probes + 1 < ProbeInterval /\ probes' = probes + 1
  BY DEF Probe
<1>5. accepted' \in Seq(0..MaxDraft) /\ Len(accepted)' <= AcceptWindow
  <2>1. \A hit \in {0, 1} : /\ Push(accepted, hit, AcceptWindow) \in Seq(0..MaxDraft)
                            /\ Len(Push(accepted, hit, AcceptWindow)) <= AcceptWindow
    BY <1>1, <1>2, PushType
  <2> QED
    BY <1>1, <1>3, <2>1
<1>6. probes' \in 0..ProbeInterval
  BY <1>1, <1>2, <1>4
<1> QED
  BY <1>5, <1>6

-----------------------------------------------------------------------------
(* The actions.                                                            *)

\* A step of MedusaScheduler that advances the sequence keeps the invariant.
LEMMA MedusaFrame ==
  ASSUME SpecInv, drafter # "model", UNCHANGED <<config, draftKV, adaptVars, hot>>,
         SequenceInv', prompt' = prompt, served' = served,
         state' \in {"Decoding", "Finished"},
         position' \in Nat, gen' \in Seq(Vocab), pushed' \in Seq(Vocab),
         targetKV' \in CacheOf(Vocab), SeqLen(targetKV)' <= targetKV'.high,
         targetKV'.high <= position' + MaxDraft,
         lastHidden' \in Seq(Vocab) \cup {None},
         accepted' \in Seq(0..MaxDraft), Len(accepted)' <= AcceptWindow,
         probes' \in 0..ProbeInterval
  PROVE  SpecInv'
<1>1. TypeOK
  BY DEF SpecInv, EndsOnTime
<1>2. TypeOK'
  BY <1>1 DEF TypeOK, config, adaptVars, SeqLen
<1>3. WriteAhead'
  BY DEF WriteAhead, config
<1>4. DraftNeverAhead'
  BY DEF DraftNeverAhead, config
<1> QED
  BY <1>2, <1>3, <1>4 DEF SpecInv, EndsOnTime, SequenceInv

\* The first token ends the sequence.
LEMMA StopKeeps ==
  ASSUME SpecInv, state = "Pending", StopAfterPrefill, UNCHANGED config,
         targetKV' = PrefilledTarget
  PROVE  /\ SequenceInv'
         /\ prompt' = prompt /\ served' = served /\ state' = "Finished"
         /\ position' \in Nat /\ gen' \in Seq(Vocab) /\ pushed' \in Seq(Vocab)
<1>1. /\ prompt \in Prompts /\ Len(prompt) \in Nat \ {0} /\ FirstToken \in Vocab
      /\ cache = "paged" => Whole(PrefilledTarget)
      /\ GreedyFrom(prompt, <<FirstToken>>)
  BY Prefilled
<1>2. /\ FirstToken \in StopTokens /\ state' = "Finished" /\ pushed' = <<>>
      /\ gen' = <<FirstToken>> /\ position' = Len(prompt)
      /\ served' = served /\ prompt' = prompt
  BY DEF StopAfterPrefill
<1>3. PICK f \in Vocab : f = FirstToken
  BY <1>1
<1>4. /\ <<f>> \in Seq(Vocab) /\ Len(<<f>>) = 1 /\ <<f>>[1] = f /\ <<f>> # <<>>
      /\ <<>> \in Seq(Vocab)
  OBVIOUS
<1>5. SubSeq(<<f>>, 1, 0) = <<>>
  BY SubSeqEmpty
<1>6. OnTime'
  <2>1. gen' = <<f>> /\ Len(gen') = 1 /\ Len(gen') - 1 = 0 /\ gen'[1] \in StopTokens
    BY <1>2, <1>3, <1>4
  <2>2. pushed' = SubSeq(gen', 1, 0)
    BY <1>2, <1>5, <2>1
  <2>3. 1 <= IF Limit < 2 THEN 2 ELSE Limit
    BY SizeAssumption
  <2> QED
    BY <1>2, <2>1, <2>2, <2>3 DEF OnTime
<1>7. InService'
  BY <1>1, <1>2, <1>3, <1>4 DEF InService
<1>8. TargetContext' /\ HiddenFresh'
  BY <1>2 DEF TargetContext, HiddenFresh
<1>9. PagedWhole'
  BY <1>1 DEF PagedWhole, config
<1>10. TreeLossless'
  <2>1. GreedyFrom(prompt', gen')
    BY <1>1, <1>2
  <2> QED
    BY <2>1 DEF TreeLossless, Greedy, GreedyFrom
<1>11. position' \in Nat /\ gen' \in Seq(Vocab) /\ pushed' \in Seq(Vocab)
  BY <1>1, <1>2, <1>3, <1>4
<1> QED
  BY <1>2, <1>6, <1>7, <1>8, <1>9, <1>10, <1>11 DEF SequenceInv

\* A request arrives.
LEMMA AddKeeps ==
  ASSUME SpecInv, NEW p \in Prompts, AddSequence(p)
  PROVE  SpecInv'
<1>1. TypeOK /\ PagedWhole
  BY DEF SpecInv, EndsOnTime
<1>2. /\ served < MaxSequences /\ served' = served + 1
      /\ prompt' = p /\ state' = "Pending"
      /\ position' = 0 /\ gen' = <<>> /\ pushed' = <<>>
      /\ UNCHANGED <<drafter, cache, targetKV, draftKV, numDraft, window,
                     lastHidden, accepted, probes, hot>>
  BY DEF AddSequence, config, adaptVars, medusaVars
<1>3. TypeOK'
  <2>1. served' \in 0..MaxSequences
    BY <1>1, <1>2, SizeAssumption DEF TypeOK
  <2>2. <<>> \in Seq(Vocab)
    OBVIOUS
  <2> QED
    BY <1>1, <1>2, <2>1, <2>2 DEF TypeOK, SeqLen
<1>4. WriteAhead' /\ PagedWhole'
  BY <1>1, <1>2 DEF WriteAhead, PagedWhole, Whole
<1>5. OnTime' /\ InService' /\ TargetContext' /\ DraftNeverAhead' /\ HiddenFresh'
  BY <1>2 DEF OnTime, InService, TargetContext, DraftNeverAhead, HiddenFresh
<1>6. TreeLossless'
  <2>1. Len(gen') = 0
    BY <1>2
  <2> QED
    BY <2>1 DEF TreeLossless, Greedy
<1> QED
  BY <1>3, <1>4, <1>5, <1>6 DEF SpecInv, EndsOnTime

\* The heads become ready, or nothing happens.
LEMMA IdleKeeps ==
  ASSUME SpecInv, hot' \in BOOLEAN,
         UNCHANGED <<config, seqVars, targetKV, draftKV, adaptVars, lastHidden, accepted, probes>>
  PROVE  SpecInv'
<1>1. TypeOK'
  BY DEF SpecInv, EndsOnTime, TypeOK, config, seqVars, adaptVars, SeqLen
<1>2. OnTime' /\ InService'
  BY DEF SpecInv, EndsOnTime, OnTime, InService, seqVars
<1>3. TargetContext' /\ DraftNeverAhead' /\ WriteAhead'
  BY DEF SpecInv, TargetContext, DraftNeverAhead, WriteAhead, SeqLen, seqVars, config
<1>4. PagedWhole' /\ HiddenFresh' /\ TreeLossless'
  BY DEF SpecInv, PagedWhole, HiddenFresh, TreeLossless, Greedy, Whole, seqVars, config
<1> QED
  BY <1>1, <1>2, <1>3, <1>4 DEF SpecInv, EndsOnTime

\* MedusaScheduler prefills.
LEMMA MedusaPrefillKeeps ==
  ASSUME SpecInv, MedusaPrefill
  PROVE  SpecInv'
<1>1. /\ drafter # "model" /\ state = "Pending"
      /\ UNCHANGED <<config, draftKV, adaptVars, hot>>
  BY DEF MedusaPrefill
<1>2. /\ accepted' \in Seq(0..MaxDraft) /\ Len(accepted)' <= AcceptWindow
      /\ probes' \in 0..ProbeInterval
  <2>1. CASE Speculates
    <3>1. accepted' = <<>> /\ probes' = probes
      BY <2>1 DEF MedusaPrefill
    <3>2. probes \in 0..ProbeInterval /\ AcceptWindow \in Nat
      BY SizeAssumption DEF SpecInv, EndsOnTime, TypeOK
    <3> QED
      BY <3>1, <3>2
  <2>2. CASE ~Speculates
    <3>1. Probe
      BY <2>2 DEF MedusaPrefill
    <3> QED
      BY <3>1, ProbeType
  <2> QED
    BY <2>1, <2>2
<1>3. /\ prompt \in Prompts /\ Len(prompt) \in Nat \ {0}
      /\ PrefilledTarget \in CacheOf(Vocab)
      /\ SeqLen(PrefilledTarget) = Len(prompt)
      /\ SeqLen(PrefilledTarget) <= PrefilledTarget.high
      /\ PrefilledTarget.high = Len(prompt)
      /\ Len(prompt) + 1 <= MaxContext
      /\ FirstToken \in Vocab
      /\ Holds(PrefilledTarget, prompt, <<FirstToken>>)
      /\ cache = "paged" => Whole(PrefilledTarget)
      /\ GreedyFrom(prompt, <<FirstToken>>)
  BY <1>1, Prefilled
<1>4. CASE StopAfterPrefill /\ targetKV' = PrefilledTarget /\ UNCHANGED lastHidden
  <2>1. lastHidden' \in Seq(Vocab) \cup {None}
    BY <1>4 DEF SpecInv, EndsOnTime, TypeOK
  <2>2. /\ targetKV' \in CacheOf(Vocab) /\ SeqLen(targetKV)' <= targetKV'.high
        /\ targetKV'.high = Len(prompt)
    BY <1>3, <1>4 DEF SeqLen
  <2>3. /\ SequenceInv'
        /\ prompt' = prompt /\ served' = served /\ state' = "Finished"
        /\ position' \in Nat /\ gen' \in Seq(Vocab) /\ pushed' \in Seq(Vocab)
    BY <1>1, <1>4, StopKeeps DEF config
  <2>4. targetKV'.high <= position' + MaxDraft
    <3>1. position' = Len(prompt)
      BY <1>4 DEF StopAfterPrefill
    <3>2. MaxDraft \in Nat
      BY SizeAssumption
    <3> QED
      BY <1>3, <2>2, <3>1, <3>2
  <2> QED
    BY <1>1, <1>2, <2>1, <2>2, <2>3, <2>4, MedusaFrame
<1>5. CASE /\ FirstToken \notin StopTokens
           /\ DecodeStep(PrefilledTarget, <<FirstToken>>, Len(prompt), <<FirstToken>>)
  <2>1. PICK f \in Vocab : f = FirstToken
    BY <1>3
  <2>2. PICK g \in Seq(Vocab) : g = <<f>> /\ Len(g) = 1 /\ g[1] = f /\ g # <<>>
    <3>1. <<f>> \in Seq(Vocab) /\ Len(<<f>>) = 1 /\ <<f>>[1] = f /\ <<f>> # <<>>
      OBVIOUS
    <3> QED
      BY <3>1
  <2>3. Open(g)
    BY <1>5, <2>1, <2>2 DEF Open
  <2>4. PICK c \in CacheOf(Vocab) : c = PrefilledTarget
    BY <1>3
  <2>5. /\ c.high <= SeqLen(c) + MaxDraft /\ SeqLen(c) + 1 <= MaxContext
        /\ Holds(c, prompt, g)
        /\ cache = "paged" => Whole(c)
        /\ drafter = "tree" /\ cache = "paged" => GreedyFrom(prompt, g)
        /\ DecodeStep(c, g, SeqLen(c), g)
    BY <1>3, <1>5, <2>1, <2>2, <2>4, SizeAssumption
  <2>6. UNCHANGED config
    BY <1>1
  <2>7. /\ SequenceInv'
        /\ prompt' = prompt /\ served' = served
        /\ state' \in {"Decoding", "Finished"}
        /\ position' \in Nat /\ gen' \in Seq(Vocab) /\ pushed' \in Seq(Vocab)
        /\ targetKV' \in CacheOf(Vocab) /\ SeqLen(targetKV)' <= targetKV'.high
        /\ targetKV'.high <= position' + MaxDraft
        /\ lastHidden' \in Seq(Vocab)
    BY <1>3, <2>3, <2>5, <2>6, DecodeOne
  <2> QED
    BY <1>1, <1>2, <2>7, MedusaFrame
<1> QED
  BY <1>4, <1>5 DEF MedusaPrefill

\* MedusaScheduler decodes one token.
LEMMA MedusaDecodeKeeps ==
  ASSUME SpecInv, MedusaDecode
  PROVE  SpecInv'
<1>1. /\ drafter # "model" /\ state = "Decoding" /\ Probe
      /\ DecodeStep(targetKV, gen, position, pushed)
      /\ UNCHANGED <<config, draftKV, adaptVars, hot>>
  BY DEF MedusaDecode
<1>2. /\ accepted' \in Seq(0..MaxDraft) /\ Len(accepted)' <= AcceptWindow
      /\ probes' \in 0..ProbeInterval
  BY <1>1, ProbeType
<1>3. /\ prompt \in Prompts /\ Open(gen) /\ pushed = gen
      /\ targetKV \in CacheOf(Vocab) /\ Holds(targetKV, prompt, gen)
      /\ SeqLen(targetKV) = position /\ position \in Nat
      /\ position + 1 + MaxDraft <= MaxContext
  BY <1>1, DecodingState
<1>4. targetKV.high <= SeqLen(targetKV) + MaxDraft /\ SeqLen(targetKV) + 1 <= MaxContext
  BY <1>1, <1>3, SizeAssumption, ContextAssumption DEF SpecInv, WriteAhead
<1>5. cache = "paged" => Whole(targetKV)
  BY DEF SpecInv, PagedWhole
<1>6. drafter = "tree" /\ cache = "paged" => GreedyFrom(prompt, gen)
  BY DEF SpecInv, TreeLossless, Greedy, GreedyFrom
<1>7. DecodeStep(targetKV, gen, SeqLen(targetKV), gen) /\ UNCHANGED config
  BY <1>1, <1>3
<1>8. /\ SequenceInv'
      /\ prompt' = prompt /\ served' = served
      /\ state' \in {"Decoding", "Finished"}
      /\ position' \in Nat /\ gen' \in Seq(Vocab) /\ pushed' \in Seq(Vocab)
      /\ targetKV' \in CacheOf(Vocab) /\ SeqLen(targetKV)' <= targetKV'.high
      /\ targetKV'.high <= position' + MaxDraft
      /\ lastHidden' \in Seq(Vocab)
  BY <1>3, <1>4, <1>5, <1>6, <1>7, DecodeOne
<1> QED
  BY <1>1, <1>2, <1>8, MedusaFrame

\* Committing a verified path keeps the invariant.
LEMMA CommitKeeps ==
  ASSUME SpecInv, drafter # "model", state = "Decoding",
         UNCHANGED <<config, draftKV, adaptVars, probes, hot>>,
         NEW d \in Seq(Vocab), Len(d) >= 1, Len(d) <= NumHeads,
         NEW n \in 0..Len(d), NEW f \in Vocab, Commit(d, n, f),
         drafter = "tree" =>
           /\ \A i \in 1..n : d[i] = Target(Attended(d, i))
           /\ f = Target(Attended(d, n + 1))
  PROVE  SpecInv'
<1>1. /\ Len(d) \in Nat /\ NumHeads \in Nat /\ MaxDraft \in Nat /\ NumHeads <= MaxDraft
      /\ AcceptWindow \in Nat \ {0}
  BY LenProperties, SizeAssumption
<1>2. Len(d) <= MaxDraft /\ n \in 0..MaxDraft
  BY <1>1
<1>3. UNCHANGED config
  OBVIOUS
<1>4. /\ SequenceInv'
      /\ prompt' = prompt /\ served' = served
      /\ state' \in {"Decoding", "Finished"}
      /\ position' \in Nat /\ gen' \in Seq(Vocab) /\ pushed' \in Seq(Vocab)
      /\ targetKV' \in CacheOf(Vocab) /\ SeqLen(targetKV)' <= targetKV'.high
      /\ targetKV'.high <= position' + MaxDraft
      /\ lastHidden' \in Seq(Vocab) \cup {None}
      /\ accepted' = Push(accepted, n, AcceptWindow)
  BY <1>2, <1>3, CommitStep
<1>5. /\ accepted \in Seq(0..MaxDraft) /\ Len(accepted) <= AcceptWindow
      /\ probes \in 0..ProbeInterval
  BY DEF SpecInv, EndsOnTime, TypeOK
<1>6. accepted' \in Seq(0..MaxDraft) /\ Len(accepted') <= AcceptWindow
  BY <1>1, <1>2, <1>4, <1>5, PushType
<1>7. probes' \in 0..ProbeInterval
  BY <1>5
<1> QED
  BY <1>4, <1>6, <1>7, MedusaFrame

\* Tree verification.
LEMMA TreeKeeps ==
  ASSUME SpecInv, TreeStep
  PROVE  SpecInv'
<1>1. /\ drafter = "tree" /\ state = "Decoding"
      /\ UNCHANGED <<config, draftKV, adaptVars, probes, hot>>
  BY DEF TreeStep, CanSpeculate
<1>2. PICK k \in 1..NumHeads : \E d \in [1..k -> Vocab] :
        Commit(d, BestPath(d, TargetRows(d)).accepted, BestPath(d, TargetRows(d)).final)
  BY DEF TreeStep
<1> PICK d \in [1..k -> Vocab] :
      Commit(d, BestPath(d, TargetRows(d)).accepted, BestPath(d, TargetRows(d)).final)
  BY <1>2
<1>3. NumHeads \in Nat /\ MaxDraft \in Nat /\ NumHeads <= MaxDraft
  BY SizeAssumption
<1>4. d \in Seq(Vocab) /\ Len(d) = k
  BY <1>3
<1> DEFINE r == TargetRows(d)
           ok == [i \in 1..Len(d) |-> d[i] = r[i]]
           n == Leading(ok)
           f == r[n + 1]
<1>5. BestPath(d, r).accepted = n /\ BestPath(d, r).final = f
  BY DEF BestPath
<1>6. Len(ok) = k
  BY <1>3, <1>4
<1> HIDE DEF ok
<1>7. n \in 0..k /\ \A i \in 1..n : ok[i]
  BY <1>3, <1>6, LeadingIs
<1> HIDE DEF n
<1>8. n + 1 \in 1..Len(d) + 1 /\ \A i \in 1..n : i \in 1..Len(d) + 1 /\ i \in 1..Len(d)
  BY <1>3, <1>4, <1>7
<1>9. \A i \in 1..Len(d) + 1 : r[i] = Target(Attended(d, i))
  BY DEF TargetRows
<1>10. f = Target(Attended(d, n + 1))
  BY <1>8, <1>9
<1>11. \A i \in 1..n : d[i] = Target(Attended(d, i))
  <2>1. \A i \in 1..n : d[i] = r[i]
    BY <1>7, <1>8 DEF ok
  <2> QED
    BY <1>8, <1>9, <2>1
<1>12. Len(d) >= 1 /\ Len(d) <= NumHeads /\ Len(d) <= MaxDraft
  BY <1>3, <1>4
<1>13. f \in Vocab
  <2>1. PICK i \in 1..Len(d) + 1 : i = n + 1
    BY <1>8
  <2>2. Target(Attended(d, i)) \in Vocab
    BY <1>1, <1>4, <1>12, AttendedIs
  <2> QED
    BY <1>10, <2>1, <2>2
<1>14. Commit(d, n, f) /\ drafter # "model"
  BY <1>1, <1>2, <1>5
<1> HIDE DEF f
<1> QED
  BY <1>1, <1>4, <1>7, <1>10, <1>11, <1>12, <1>13, <1>14, CommitKeeps

\* Verification head by head.
LEMMA LinearKeeps ==
  ASSUME SpecInv, LinearStep
  PROVE  SpecInv'
<1>1. /\ drafter = "heads" /\ state = "Decoding"
      /\ UNCHANGED <<config, draftKV, adaptVars, probes, hot>>
  BY DEF LinearStep, CanSpeculate
<1>2. PICK d \in [1..NumHeads -> Vocab] :
        Commit(d, LinearPath(d, TargetRows(d)).accepted, LinearPath(d, TargetRows(d)).final)
  BY DEF LinearStep
<1>3. NumHeads \in Nat \ {0} /\ MaxDraft \in Nat /\ NumHeads <= MaxDraft
  BY SizeAssumption
<1>4. d \in Seq(Vocab) /\ Len(d) = NumHeads
  BY <1>3
<1> DEFINE r == TargetRows(d)
           ok == [i \in 1..Len(d) |->
                    IF i = 1 THEN d[1] = InputToken ELSE d[i] = r[i - 1]]
           n == Leading(ok)
           f == r[IF n = 0 THEN 1 ELSE n]
<1>5. LinearPath(d, r).accepted = n /\ LinearPath(d, r).final = f
  BY DEF LinearPath
<1>6. Len(ok) = NumHeads
  BY <1>3, <1>4
<1> HIDE DEF ok
<1>7. n \in 0..NumHeads
  BY <1>3, <1>6, LeadingIs
<1> HIDE DEF n
<1>8. PICK i \in 1..Len(d) + 1 : i = IF n = 0 THEN 1 ELSE n
  BY <1>3, <1>4, <1>7
<1>9. Len(d) >= 1 /\ Len(d) <= NumHeads /\ Len(d) <= MaxDraft
  BY <1>3, <1>4
<1>10. f = Target(Attended(d, i))
  BY <1>8 DEF TargetRows
<1>11. f \in Vocab
  <2>1. Target(Attended(d, i)) \in Vocab
    BY <1>1, <1>4, <1>9, AttendedIs
  <2> QED
    BY <1>10, <2>1
<1>12. Commit(d, n, f) /\ drafter # "model" /\ drafter # "tree"
  BY <1>1, <1>2, <1>5
<1> HIDE DEF f
<1> QED
  BY <1>1, <1>4, <1>7, <1>9, <1>11, <1>12, CommitKeeps

\* Blank rows for the draft model.
LEMMA BlankRows ==
  ASSUME NEW n \in Nat
  PROVE  Blank(n) \in Seq({None}) /\ Len(Blank(n)) = n
<1>1. Blank(n) \in [1..n -> {None}]
  BY DEF Blank
<1> QED
  BY <1>1

\* Both models prefill.
LEMMA PrefillBothKeeps ==
  ASSUME SpecInv, PrefillBoth
  PROVE  SpecInv'
<1>1. /\ drafter = "model" /\ state = "Pending" /\ targetKV' = PrefilledTarget
      /\ draftKV' = DraftPrefill
      /\ UNCHANGED <<drafter, cache, numDraft, window, lastHidden, accepted, probes, hot>>
  BY DEF PrefillBoth, config, adaptVars, medusaVars
<1>2. /\ prompt \in Prompts /\ Len(prompt) \in Nat \ {0}
      /\ PrefilledTarget \in CacheOf(Vocab)
      /\ SeqLen(PrefilledTarget) = Len(prompt)
      /\ SeqLen(PrefilledTarget) <= PrefilledTarget.high
      /\ PrefilledTarget.high = Len(prompt)
      /\ Len(prompt) + 1 <= MaxContext
      /\ FirstToken \in Vocab
      /\ Holds(PrefilledTarget, prompt, <<FirstToken>>)
      /\ cache = "paged" => Whole(PrefilledTarget)
      /\ GreedyFrom(prompt, <<FirstToken>>)
  BY <1>1, Prefilled
<1>3. TypeOK
  BY DEF SpecInv, EndsOnTime
<1>4. /\ draftKV' \in CacheOf({None}) /\ SeqLen(draftKV') = Len(prompt)
      /\ SeqLen(draftKV') <= draftKV'.high /\ draftKV'.high = Len(prompt)
  <2>2. PICK c \in CacheOf({None}) :
          c = Reset(draftKV) /\ SeqLen(c) = 0 /\ c.high = 0
    BY ResetRows
  <2>3. PICK b \in Seq({None}), z \in Nat : b = Blank(Len(prompt)) /\ Len(b) = Len(prompt) /\ z = 0
    BY <1>2, BlankRows
  <2>4. draftKV' = AppendKV(c, b, z)
    BY <1>1, <2>2, <2>3, Zenon DEF DraftPrefill
  <2> DEFINE a == AppendKV(c, b, z)
  <2>5. /\ a \in CacheOf({None})
        /\ SeqLen(a) = SeqLen(c) + Len(b)
        /\ SeqLen(a) <= a.high
        /\ a.high = c.high \/ a.high = SeqLen(a)
    BY AppendKVRows, Zenon
  <2> HIDE DEF a
  <2>6. draftKV' = a /\ SeqLen(a) = Len(prompt)
    BY <1>2, <2>2, <2>3, <2>4, <2>5 DEF a
  <2> QED
    BY <1>2, <2>2, <2>5, <2>6
<1>5. /\ targetKV' \in CacheOf(Vocab) /\ SeqLen(targetKV)' <= targetKV'.high
      /\ SeqLen(draftKV)' <= draftKV'.high
  BY <1>1, <1>2, <1>4 DEF SeqLen
<1>7. UNCHANGED config
  BY <1>1 DEF config
<1>8. ASSUME SequenceInv', prompt' = prompt, served' = served,
             state' \in {"Decoding", "Finished"}, position' = Len(prompt),
             gen' \in Seq(Vocab), pushed' \in Seq(Vocab)
      PROVE  SpecInv'
  <2>1. TypeOK'
    BY <1>1, <1>2, <1>3, <1>4, <1>5, <1>8 DEF TypeOK
  <2>2. DraftNeverAhead'
    BY <1>2, <1>4, <1>8 DEF DraftNeverAhead, SeqLen
  <2>3. WriteAhead'
    BY <1>1, <1>2, <1>4, <1>8, SizeAssumption DEF WriteAhead
  <2> QED
    BY <1>8, <2>1, <2>2, <2>3 DEF SpecInv, EndsOnTime, SequenceInv
<1>9. CASE StopAfterPrefill
  <2>1. /\ SequenceInv'
        /\ prompt' = prompt /\ served' = served /\ state' = "Finished"
        /\ gen' \in Seq(Vocab) /\ pushed' \in Seq(Vocab)
    BY <1>1, <1>7, <1>9, StopKeeps
  <2>2. position' = Len(prompt)
    BY <1>9 DEF StopAfterPrefill
  <2> QED
    BY <1>8, <2>1, <2>2
<1>10. CASE /\ FirstToken \notin StopTokens
            /\ state' = "Decoding" /\ pushed' = <<FirstToken>>
            /\ gen' = <<FirstToken>> /\ position' = Len(prompt)
            /\ UNCHANGED <<served, prompt>>
  <2>1. PICK f \in Vocab : f = FirstToken
    BY <1>2
  <2>2. PICK g \in Seq(Vocab) : g = <<f>> /\ Len(g) = 1 /\ g[1] = f /\ g # <<>>
    <3>1. <<f>> \in Seq(Vocab) /\ Len(<<f>>) = 1 /\ <<f>>[1] = f /\ <<f>> # <<>>
      OBVIOUS
    <3> QED
      BY <3>1
  <2>3. /\ gen' = g /\ pushed' = g /\ state' = "Decoding" /\ position' = Len(prompt)
        /\ prompt' = prompt /\ served' = served /\ g[1] \notin StopTokens
        /\ Holds(targetKV', prompt, g) /\ GreedyFrom(prompt, g)
    BY <1>1, <1>2, <1>10, <2>1, <2>2
  <2>4. OnTime'
    <3>1. SubSeq(g, 1, Len(g)) = g
      BY SubSeqFull
    <3>2. 1 <= IF Limit < 2 THEN 2 ELSE Limit
      BY SizeAssumption
    <3> QED
      BY <2>2, <2>3, <3>1, <3>2 DEF OnTime
  <2>5. InService'
    BY <1>2, <2>2, <2>3 DEF InService
  <2>6. TargetContext'
    <3>1. SeqLen(targetKV)' = Len(prompt) /\ Len(prompt) = Len(prompt) + Len(g) - 1
      BY <1>1, <1>2, <2>2 DEF SeqLen
    <3>2. \A i \in 1..Len(prompt) :
            targetKV'.rows[i].tok = (prompt \o g)[i] /\ targetKV'.rows[i].pos = i - 1
      BY <1>1, <1>2, <2>3 DEF Holds
    <3> QED
      BY <2>3, <3>1, <3>2 DEF TargetContext
  <2>7. HiddenFresh' /\ PagedWhole'
    BY <1>1, <1>2 DEF HiddenFresh, PagedWhole
  <2>8. TreeLossless'
    BY <1>1 DEF TreeLossless
  <2>9. SequenceInv'
    BY <2>4, <2>5, <2>6, <2>7, <2>8 DEF SequenceInv
  <2> QED
    BY <1>8, <2>3, <2>9
<1> QED
  BY <1>9, <1>10 DEF PrefillBoth

\* Draft, verify, roll back both caches, emit.
LEMMA SpeculativeKeeps ==
  ASSUME SpecInv, SpeculativeStep
  PROVE  SpecInv'
<1>1. /\ drafter = "model" /\ state = "Decoding"
      /\ UNCHANGED <<drafter, cache, lastHidden, accepted, probes, hot>>
  BY DEF SpeculativeStep, config, medusaVars
<1>2. PICK d \in [1..numDraft -> Vocab] : \E r \in VerifyRows(d) : \E n \in AcceptCounts(d, r) :
        /\ RecordStep(n, numDraft)
        /\ targetKV' = CutTarget(Verified(d, position), position, n)
        /\ draftKV' = CutDraft(Drafted(d), position, n)
        /\ Emit(gen, position, pushed, Append(SubSeq(d, 1, n), r[n + 1]))
  BY DEF SpeculativeStep
<1>3. PICK r \in VerifyRows(d) : \E n \in AcceptCounts(d, r) :
        /\ RecordStep(n, numDraft)
        /\ targetKV' = CutTarget(Verified(d, position), position, n)
        /\ draftKV' = CutDraft(Drafted(d), position, n)
        /\ Emit(gen, position, pushed, Append(SubSeq(d, 1, n), r[n + 1]))
  BY <1>2
<1>4. PICK n \in AcceptCounts(d, r) :
        /\ RecordStep(n, numDraft)
        /\ targetKV' = CutTarget(Verified(d, position), position, n)
        /\ draftKV' = CutDraft(Drafted(d), position, n)
        /\ Emit(gen, position, pushed, Append(SubSeq(d, 1, n), r[n + 1]))
  BY <1>3
<1>5. TypeOK /\ WriteAhead
  BY DEF SpecInv, EndsOnTime
<1>6. /\ numDraft \in MinDraft..MaxDraft /\ MinDraft \in Nat \ {0} /\ MaxDraft \in Nat
      /\ WindowSize \in Nat \ {0}
  BY <1>5, SizeAssumption DEF TypeOK
<1>7. d \in Seq(Vocab) /\ Len(d) = numDraft
  BY <1>6
<1>8. n \in 0..Len(d) /\ n \in Nat /\ Len(d) \in Nat /\ Len(d) <= MaxDraft /\ Len(d) >= 1
  BY <1>6, <1>7 DEF AcceptCounts
<1>9. PICK f \in Vocab : f = r[n + 1]
  <2>1. r \in [1..Len(d) + 1 -> Vocab] /\ n + 1 \in 1..Len(d) + 1
    BY <1>8 DEF VerifyRows
  <2> QED
    BY <2>1
<1>10. /\ prompt \in Prompts /\ Open(gen) /\ gen[Len(gen)] \in Vocab /\ pushed = gen
       /\ targetKV \in CacheOf(Vocab) /\ Holds(targetKV, prompt, gen)
       /\ SeqLen(targetKV) = position /\ position \in Nat
       /\ position + 1 + MaxDraft <= MaxContext
  BY <1>1, DecodingState
<1>11. PICK toks \in Seq(Vocab) : toks = Append(SubSeq(d, 1, n), f) /\ Len(toks) = n + 1
  <2>1. PICK e \in Seq(Vocab) : e = d
    BY <1>7
  <2>2. PICK m \in 0..Len(e) : m = n
    BY <1>8, <2>1
  <2>3. Append(SubSeq(e, 1, m), f) \in Seq(Vocab) /\ Len(Append(SubSeq(e, 1, m), f)) = m + 1
    BY AcceptedAndFinal
  <2> QED
    BY <2>1, <2>2, <2>3, Zenon
<1>12. toks # <<>>
  BY <1>8, <1>11, EmptySeq
<1>13. /\ Extended(targetKV, targetKV', gen[Len(gen)], toks)
       /\ targetKV'.high = targetKV.high \/ targetKV'.high = SeqLen(targetKV) + 1 + Len(d)
  <2>1. targetKV' = CutTarget(AppendKV(targetKV, <<gen[Len(gen)]>> \o d, SeqLen(targetKV)),
                              SeqLen(targetKV), n)
    BY <1>4, <1>10 DEF Verified, InputToken
  <2>2. PICK x \in Vocab, c \in CacheOf(Vocab) : x = gen[Len(gen)] /\ c = targetKV
    BY <1>10
  <2> DEFINE k == CutTarget(AppendKV(c, <<x>> \o d, SeqLen(c)), SeqLen(c), n)
  <2>3. /\ Extended(c, k, x, Append(SubSeq(d, 1, n), f))
        /\ k.high = c.high \/ k.high = SeqLen(c) + 1 + Len(d)
    BY <1>7, <1>8, VerifyExtends
  <2>4. targetKV' = k
    BY <2>1, <2>2, Zenon
  <2> HIDE DEF k
  <2> QED
    BY <1>11, <2>2, <2>3, <2>4, Zenon
<1>14. /\ targetKV' \in CacheOf(Vocab) /\ SeqLen(targetKV)' <= targetKV'.high
  BY <1>13 DEF Extended, SeqLen
<1>15. Emit(gen, SeqLen(targetKV), gen, toks) /\ UNCHANGED config
  BY <1>1, <1>4, <1>9, <1>10, <1>11 DEF config
<1>16. cache = "paged" => Whole(targetKV)
  BY DEF SpecInv, PagedWhole
<1>17. /\ SequenceInv'
       /\ prompt' = prompt /\ served' = served
       /\ state' \in {"Decoding", "Finished"}
       /\ position' \in Nat /\ gen' \in Seq(Vocab) /\ pushed' \in Seq(Vocab)
       /\ SeqLen(targetKV) < position'
  <2>1. drafter # "tree" /\ ~(drafter # "model")
    BY <1>1
  <2> QED
    BY <1>10, <1>12, <1>13, <1>15, <1>16, <2>1, Advance
<1>18. /\ draftKV' \in CacheOf({None}) /\ SeqLen(draftKV') <= position + n
       /\ SeqLen(draftKV') <= draftKV'.high /\ draftKV'.high <= position + MaxDraft
       /\ SeqLen(draftKV') \in Nat
  <2>1. PICK c \in CacheOf({None}) : c = draftKV
    BY <1>5 DEF TypeOK
  <2>2. SeqLen(c) <= position /\ SeqLen(c) \in Nat /\ c.high <= position + MaxDraft
    BY <1>1, <1>5, <2>1, CacheFields DEF SpecInv, DraftNeverAhead, WriteAhead
  <2>3. PICK b \in Seq({None}), z \in Nat : b = Blank(Len(d)) /\ Len(b) = Len(d) /\ z = position
    BY <1>8, <1>10, BlankRows
  <2> DEFINE a == AppendKV(c, b, z)
  <2>4. /\ a \in CacheOf({None})
        /\ SeqLen(a) = SeqLen(c) + Len(b)
        /\ SeqLen(a) <= a.high
        /\ a.high = c.high \/ a.high = SeqLen(a)
    BY AppendKVRows
  <2>5. draftKV' = Truncate(a, position + n)
    BY <1>4, <2>1, <2>3, Zenon DEF CutDraft, Drafted
  <2> HIDE DEF a
  <2>6. PICK m \in Nat : m = position + n
    BY <1>8, <1>10
  <2>7. /\ Truncate(a, m) \in CacheOf({None})
        /\ SeqLen(Truncate(a, m)) <= m /\ SeqLen(Truncate(a, m)) <= SeqLen(a)
        /\ SeqLen(Truncate(a, m)) \in Nat
        /\ Truncate(a, m).high = a.high
    BY <2>4, TruncateAny
  <2>8. a.high \in Nat /\ SeqLen(a) \in Nat
    BY <2>4, CacheFields
  <2>9. a.high <= position + MaxDraft
    BY <1>6, <1>8, <1>10, <2>2, <2>3, <2>4
  <2>10. draftKV' = Truncate(a, m)
    BY <2>5, <2>6
  <2>11. SeqLen(Truncate(a, m)) <= a.high
    BY <2>4, <2>7, <2>8
  <2> QED
    BY <2>6, <2>7, <2>9, <2>10, <2>11
<1>19. /\ window' \in Seq([accepted : Nat, drafted : MinDraft..MaxDraft])
       /\ Len(window)' <= WindowSize
       /\ numDraft' \in MinDraft..MaxDraft
  <2> DEFINE E == [accepted : Nat, drafted : MinDraft..MaxDraft]
  <2>1. window \in Seq(E) /\ Len(window) <= WindowSize
    BY <1>5 DEF TypeOK
  <2>2. PICK e \in E : e = [accepted |-> n, drafted |-> numDraft]
    BY <1>6, <1>8
  <2> HIDE DEF E
  <2>3. window' = Push(window, e, WindowSize) /\ numDraft' = Adapt(window', numDraft)
    BY <1>4, <2>2 DEF RecordStep
  <2>4. window' \in Seq(E) /\ Len(window') <= WindowSize
    BY <1>6, <2>1, <2>3, PushType
  <2>5. numDraft' \in MinDraft..MaxDraft
    BY <1>6, <2>3, AdaptType
  <2> QED
    BY <2>4, <2>5 DEF E
<1>20. TypeOK'
  <2>1. SeqLen(draftKV)' <= draftKV'.high
    BY <1>18 DEF SeqLen
  <2> QED
    BY <1>1, <1>5, <1>14, <1>17, <1>18, <1>19, <2>1 DEF TypeOK
<1>21. WriteAhead'
  <2>1. targetKV.high <= position + MaxDraft /\ targetKV.high \in Nat /\ draftKV'.high \in Nat
    BY <1>1, <1>5, <1>10, <1>18, CacheFields DEF WriteAhead
  <2>2. targetKV'.high <= position' + MaxDraft
    <3>1. PICK p \in Nat, q \in Nat, h \in Nat, len \in Nat, m \in Nat :
            p = position /\ q = position' /\ h = targetKV.high /\ len = Len(d) /\ m = MaxDraft
      BY <1>6, <1>8, <1>10, <1>17, <2>1
    <3>2. p < q /\ h <= p + m /\ len <= m
      BY <1>8, <1>10, <1>17, <2>1, <3>1
    <3>3. targetKV'.high = h \/ targetKV'.high = p + 1 + len
      BY <1>10, <1>13, <3>1
    <3> QED
      BY <3>1, <3>2, <3>3
  <2>3. draftKV'.high <= position' + MaxDraft
    BY <1>6, <1>10, <1>17, <1>18, <2>1
  <2> QED
    BY <2>2, <2>3 DEF WriteAhead
<1>22. DraftNeverAhead'
  <2> SUFFICES ASSUME state' = "Decoding" PROVE SeqLen(draftKV') <= position'
    BY DEF DraftNeverAhead, SeqLen
  <2>1. position' = SeqLen(targetKV) + Len(toks)
    BY <1>10, <1>12, <1>15, EmitOutput
  <2> QED
    BY <1>8, <1>10, <1>11, <1>18, <2>1
<1> QED
  BY <1>17, <1>20, <1>21, <1>22 DEF SpecInv, EndsOnTime, SequenceInv

-----------------------------------------------------------------------------
\* SpecInv is an inductive invariant of the speculative schedulers.
THEOREM SpeculationInvariance == Spec => []SpecInv
<1>1. Init => SpecInv
  <2> SUFFICES ASSUME Init PROVE SpecInv
    OBVIOUS
  <2>1. /\ <<>> \in Seq(Vocab) /\ Len(<<>>) = 0
        /\ EmptyCache \in CacheOf(Vocab) /\ EmptyCache \in CacheOf({None})
        /\ SeqLen(EmptyCache) = 0 /\ EmptyCache.high = 0 /\ Whole(EmptyCache)
    <3>1. EmptyCache.rows = <<>> /\ EmptyCache.high = 0
      BY DEF EmptyCache
    <3>2. \A V : EmptyCache \in CacheOf(V)
      <4> TAKE V
      <4> DEFINE R == [tok : V, pos : Nat, whole : BOOLEAN]
      <4>1. CacheOf(V) = [rows : Seq(R), high : Nat]
        BY DEF CacheOf
      <4> HIDE DEF R
      <4>2. <<>> \in Seq(R)
        BY EmptySeq
      <4> QED
        BY <4>1, <4>2 DEF EmptyCache
    <3> QED
      BY <3>1, <3>2 DEF SeqLen, Whole
  <2>2. TypeOK
    <3>1. /\ <<>> \in Seq([accepted : Nat, drafted : MinDraft..MaxDraft])
          /\ <<>> \in Seq(0..MaxDraft)
      BY EmptySeq
    <3>2. /\ 0 \in 0..MaxSequences /\ 0 \in 0..ProbeInterval /\ 0 \in Nat
          /\ InitialDraft \in MinDraft..MaxDraft
          /\ 0 <= WindowSize /\ 0 <= AcceptWindow /\ 0 <= 0
      BY SizeAssumption
    <3>3. /\ drafter \in Drafters /\ cache \in Caches
          /\ served = 0 /\ prompt = <<>> /\ state = "none"
          /\ position = 0 /\ gen = <<>> /\ pushed = <<>>
          /\ targetKV = EmptyCache /\ draftKV = EmptyCache
          /\ numDraft = InitialDraft /\ window = <<>>
          /\ lastHidden = None /\ accepted = <<>> /\ probes = 0 /\ hot = FALSE
      BY DEF Init
    <3>4. /\ SeqLen(targetKV) <= targetKV.high /\ SeqLen(draftKV) <= draftKV.high
          /\ Len(window) <= WindowSize /\ Len(accepted) <= AcceptWindow
      BY <2>1, <3>2, <3>3
    <3> QED
      BY <2>1, <3>1, <3>2, <3>3, <3>4 DEF TypeOK
  <2>3. OnTime /\ InService /\ TargetContext /\ DraftNeverAhead /\ HiddenFresh
    BY DEF Init, OnTime, InService, TargetContext, DraftNeverAhead, HiddenFresh
  <2>4. WriteAhead /\ PagedWhole
    BY <2>1, SizeAssumption DEF Init, WriteAhead, PagedWhole
  <2>5. TreeLossless
    BY <2>1 DEF Init, TreeLossless, Greedy
  <2> QED
    BY <2>2, <2>3, <2>4, <2>5 DEF SpecInv, EndsOnTime
<1>2. SpecInv /\ [Next]_vars => SpecInv'
  <2> SUFFICES ASSUME SpecInv, [Next]_vars PROVE SpecInv'
    OBVIOUS
  <2>1. ASSUME NEW p \in Prompts, AddSequence(p) PROVE SpecInv'
    BY <2>1, AddKeeps
  <2>2. CASE BecomeHot
    BY <2>2, IdleKeeps DEF BecomeHot
  <2>3. CASE PrefillBoth
    BY <2>3, PrefillBothKeeps
  <2>4. CASE SpeculativeStep
    BY <2>4, SpeculativeKeeps
  <2>5. CASE MedusaPrefill
    BY <2>5, MedusaPrefillKeeps
  <2>6. CASE MedusaDecode
    BY <2>6, MedusaDecodeKeeps
  <2>7. CASE TreeStep
    BY <2>7, TreeKeeps
  <2>8. CASE LinearStep
    BY <2>8, LinearKeeps
  <2>9. CASE UNCHANGED vars
    <3>1. hot' \in BOOLEAN
      BY <2>9 DEF SpecInv, EndsOnTime, TypeOK, vars, medusaVars
    <3> QED
      BY <2>9, <3>1, IdleKeeps DEF vars, medusaVars
  <2> QED
    BY <2>1, <2>2, <2>3, <2>4, <2>5, <2>6, <2>7, <2>8, <2>9 DEF Next, Step, Done
<1> QED
  BY <1>1, <1>2, PTL DEF Spec

\* However many drafts a verification rejects, and whichever scheduler runs,
\* the target's cache afterwards holds exactly the committed tokens but the
\* last, each at its own position: Truncate undoes the rest.
THEOREM RollbackExact == Spec => []TargetContext
<1>1. SpecInv => TargetContext
  BY DEF SpecInv
<1> QED
  BY <1>1, SpeculationInvariance, PTL

\* The draft model's cache never reaches past the position the next draft
\* starts from.
THEOREM DraftBehind == Spec => []DraftNeverAhead
<1>1. SpecInv => DraftNeverAhead
  BY DEF SpecInv
<1> QED
  BY <1>1, SpeculationInvariance, PTL

\* AppendKV, which does not test the size of the cache, never writes further
\* than MaxDraft rows past the position of the sequence, whatever the cache
\* size, the prompt and the limit and however many drafts were rejected: only
\* a sequence within MaxDraft rows of the end of its cache can overrun it.
THEOREM WriteAheadBounded == Spec => []WriteAhead
<1>1. SpecInv => WriteAhead
  BY DEF SpecInv
<1> QED
  BY <1>1, SpeculationInvariance, PTL

\* A step of several tokens ends a sequence where single-token decoding would:
\* at the first stop token or at the limit, with every token before sent.
THEOREM EndsInTime == Spec => []EndsOnTime
<1>1. SpecInv => EndsOnTime
  BY DEF SpecInv
<1> QED
  BY <1>1, SpeculationInvariance, PTL

\* Tree verification over the paged cache is lossless for every target model
\* and whatever the heads propose.
THEOREM TreeIsLossless == Spec => []TreeLossless
<1>1. SpecInv => TreeLossless
  BY DEF SpecInv
<1> QED
  BY <1>1, SpeculationInvariance, PTL

\* Over the paged cache the heads always predict from the hidden state of the
\* committed context.
THEOREM HiddenIsFresh == Spec => []HiddenFresh
<1>1. SpecInv => HiddenFresh
  BY DEF SpecInv
<1> QED
  BY <1>1, SpeculationInvariance, PTL
=============================================================================
