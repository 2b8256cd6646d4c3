------------------------- MODULE GPUBlockPoolProofs --------------------------
(***************************************************************************)
(* The GPU block pool, for every number of layers, blocks and sequences    *)
(* and every block size: reference counts and free lists are exact, and    *)
(* the layers of a sequence agree between forward passes, whatever the     *)
(* handlers delete, the passes store, truncate or fail to store.           *)
(***************************************************************************)
EXTENDS GPUBlockPool, FiniteSetTheorems, WellFoundedInduction, TLAPS

\* A set of natural numbers that is not empty has a least element.
LEMMA NatMin ==
  ASSUME NEW T, T \subseteq Nat, T # {}
  PROVE  \E x \in T : \A y \in T : x <= y
<1>1. IsWellFoundedOn(OpToRel(<, Nat), Nat)
  BY NatLessThanWellFounded
<1>2. PICK x \in T : \A y \in T : ~ (<<y, x>> \in OpToRel(<, Nat))
  BY <1>1, WFMin
<1>3. \A y \in T : y < x => <<y, x>> \in OpToRel(<, Nat)
  BY DEF OpToRel
<1>4. \A y \in T : ~(y < x)
  BY <1>2, <1>3, Zenon
<1> QED
  BY <1>4

\* Induction over the natural numbers, for a set.
LEMMA NatInd ==
  ASSUME NEW T, T \subseteq Nat, 0 \in T, \A n \in T : n + 1 \in T
  PROVE  T = Nat
<1> SUFFICES ASSUME Nat \ T # {} PROVE FALSE
  OBVIOUS
<1>1. PICK x \in Nat \ T : \A y \in Nat \ T : x <= y
  BY NatMin
<1>2. x # 0 /\ x - 1 \in Nat /\ x = (x-1) + 1
  OBVIOUS
<1>3. x - 1 \in T
  BY <1>1, <1>2
<1> QED BY <1>2, <1>3

-----------------------------------------------------------------------------
(* Releasing the blocks of a table.                                        *)

\* g[i] is what the counts and the free list rf are after i blocks of t.
Steps(rf, t, g, n) ==
  g = [i \in 0..n |-> IF i = 0 THEN rf ELSE ReleaseOne(g[i - 1], t[i])]

\* The loop is well defined, for every number of blocks.
LEMMA StepsExist ==
  ASSUME NEW rf, NEW t, NEW n \in Nat
  PROVE  \E g : Steps(rf, t, g, n)
<1> DEFINE T == {m \in Nat : \E g : Steps(rf, t, g, m)}
<1>1. 0 \in T
  <2>1. \A i \in 0..0 : i = 0
    OBVIOUS
  <2>2. [i \in 0..0 |-> rf] = [i \in 0..0 |-> IF i = 0 THEN rf ELSE ReleaseOne([k \in 0..0 |-> rf][i - 1], t[i])]
    BY <2>1
  <2>3. Steps(rf, t, [i \in 0..0 |-> rf], 0)
    BY <2>2 DEF Steps
  <2> QED BY <2>3
<1>2. ASSUME NEW m \in T PROVE m + 1 \in T
  <2>1. PICK g : Steps(rf, t, g, m)
    OBVIOUS
  <2> DEFINE h == [i \in 0..m + 1 |-> IF i <= m THEN g[i] ELSE ReleaseOne(g[m], t[m + 1])]
  <2>3. ASSUME NEW i \in 0..m + 1
        PROVE  h[i] = IF i = 0 THEN rf ELSE ReleaseOne(h[i - 1], t[i])
    <3>1. CASE i = 0
      BY <2>1, <3>1 DEF Steps
    <3>2. CASE i \in 1..m
      <4>1. h[i] = g[i] /\ h[i - 1] = g[i - 1]
        BY <3>2
      <4>2. g[i] = ReleaseOne(g[i - 1], t[i])
        BY <2>1, <3>2 DEF Steps
      <4> QED BY <3>2, <4>1, <4>2
    <3>3. CASE i = m + 1
      <4>1. h[i] = ReleaseOne(g[m], t[m + 1]) /\ h[i - 1] = g[m] /\ i # 0
        BY <3>3
      <4> QED BY <3>3, <4>1
    <3> QED BY <3>1, <3>2, <3>3
  <2>5. h = [i \in 0..m + 1 |-> h[i]]
    OBVIOUS
  <2> HIDE DEF h
  <2>6. h = [i \in 0..m + 1 |-> IF i = 0 THEN rf ELSE ReleaseOne(h[i - 1], t[i])]
    BY <2>3, <2>5
  <2>4. Steps(rf, t, h, m + 1)
    BY <2>6 DEF Steps
  <2> QED BY <2>4
<1> HIDE DEF T
<1>3. T = Nat
  <2>1. T \subseteq Nat
    BY DEF T
  <2> QED BY <1>1, <1>2, <2>1, NatInd
<1> QED BY <1>3 DEF T


\* Release is the last of those steps.
LEMMA ReleaseIs ==
  ASSUME NEW l, NEW t, Len(t) \in Nat
  PROVE  \E g : /\ Steps([refs |-> refs[l], free |-> freeList[l]], t, g, Len(t))
                /\ Release(l, t) = g[Len(t)]
<1> DEFINE rf == [refs |-> refs[l], free |-> freeList[l]]
           G == CHOOSE g : g = [i \in 0..Len(t) |->
                                  IF i = 0 THEN rf ELSE ReleaseOne(g[i - 1], t[i])]
<1>1. Release(l, t) = G[Len(t)]
  BY DEF Release
<1> HIDE DEF rf
<1>2. \E g : Steps(rf, t, g, Len(t))
  BY StepsExist
<1>3. \E g : g = [i \in 0..Len(t) |-> IF i = 0 THEN rf ELSE ReleaseOne(g[i - 1], t[i])]
  BY <1>2 DEF Steps
<1>4. Steps(rf, t, G, Len(t))
  BY <1>3 DEF Steps
<1> QED
  BY <1>1, <1>4 DEF rf

\* The entries of E that name block b, when T are the tables of a layer.
Naming(E, T, b) == {e \in E : T[e[1]][e[2]] = b}

\* Counts R and free list F are exact for the entries E: every block is
\* counted as often as it is named, and free, once, exactly if it is not named.
Exact(E, T, R, F) ==
  /\ R \in [Blocks -> Nat] /\ F \in Seq(Blocks)
  /\ \A b \in Blocks : R[b] = Cardinality(Naming(E, T, b))
  /\ \A i, j \in 1..Len(F) : F[i] = F[j] => i = j
  /\ \A b \in Blocks : R[b] = 0 <=> \E i \in 1..Len(F) : F[i] = b

\* The named entries of a finite set are finite, and counted by a number.
LEMMA NamingFinite ==
  ASSUME NEW E, IsFiniteSet(E), NEW T, NEW b
  PROVE  /\ IsFiniteSet(Naming(E, T, b)) /\ Cardinality(Naming(E, T, b)) \in Nat
         /\ Cardinality(Naming(E, T, b)) = 0 <=> Naming(E, T, b) = {}
<1>1. Naming(E, T, b) \in SUBSET E
  BY DEF Naming
<1>2. IsFiniteSet(Naming(E, T, b))
  BY <1>1, FS_Subset
<1> QED
  BY <1>2, FS_CardinalityType, FS_EmptySet

\* releaseBlock, for an entry that leaves its table.
LEMMA ReleaseOneExact ==
  ASSUME NEW E, IsFiniteSet(E), NEW T, NEW R, NEW F, Exact(E, T, R, F),
         NEW x \in E, NEW b \in Blocks, T[x[1]][x[2]] = b,
         NEW q, q = ReleaseOne([refs |-> R, free |-> F], b)
  PROVE  Exact(E \ {x}, T, q.refs, q.free) /\ q = [refs |-> q.refs, free |-> q.free]
<1>1. R \in [Blocks -> Nat] /\ F \in Seq(Blocks)
  BY DEF Exact
<1>2. x \in Naming(E, T, b)
  BY DEF Naming
<1>3. R[b] \in Nat \ {0} /\ R[b] = Cardinality(Naming(E, T, b))
  BY <1>1, <1>2, NamingFinite DEF Exact
<1>4. ASSUME NEW c \in Blocks, c # b
      PROVE  Naming(E \ {x}, T, c) = Naming(E, T, c)
  BY <1>4 DEF Naming
<1>5. Cardinality(Naming(E \ {x}, T, b)) = R[b] - 1
  <2>1. Naming(E \ {x}, T, b) = Naming(E, T, b) \ {x}
    BY DEF Naming
  <2>2. PICK N : N = Naming(E, T, b)
    OBVIOUS
  <2>3. IsFiniteSet(N)
    BY <2>2, NamingFinite
  <2>4. Cardinality(N \ {x}) = Cardinality(N) - 1
    BY <1>2, <2>2, <2>3, FS_RemoveElement
  <2> QED
    BY <1>3, <2>1, <2>2, <2>4
<1>6. CASE R[b] = 1
  <2>1. q = [refs |-> [R EXCEPT ![b] = 0], free |-> Append(F, b)]
    BY <1>6 DEF ReleaseOne
  <2>2. [R EXCEPT ![b] = 0] \in [Blocks -> Nat]
    BY <1>1
  <2>3. Append(F, b) \in Seq(Blocks) /\ Len(Append(F, b)) = Len(F) + 1 /\ Len(F) \in Nat
    BY <1>1
  <2>4. PICK R2 \in [Blocks -> Nat] : R2 = [R EXCEPT ![b] = 0]
    BY <2>2
  <2>5. PICK F2 \in Seq(Blocks) : F2 = Append(F, b)
    BY <2>3
  <2>6. PICK n \in Nat : n = Len(F) /\ Len(F2) = n + 1
    BY <2>3, <2>5
  <2>7. q.refs = R2 /\ q.free = F2 /\ q = [refs |-> R2, free |-> F2]
    <3>1. q = [refs |-> R2, free |-> F2]
      BY <2>1, <2>4, <2>5, Zenon
    <3> QED
      BY <3>1
  <2>8. R2[b] = 0 /\ \A c \in Blocks : c # b => R2[c] = R[c]
    BY <1>1, <2>4
  <2>9. \A c \in Blocks : R2[c] = Cardinality(Naming(E \ {x}, T, c))
    <3>1. \A c \in Blocks : R[c] = Cardinality(Naming(E, T, c))
      BY DEF Exact
    <3>2. Cardinality(Naming(E \ {x}, T, b)) = 0
      BY <1>5, <1>6
    <3> QED
      BY <1>4, <2>8, <3>1, <3>2, Zenon
  <2>10. /\ \A i \in 1..n : F2[i] = F[i]
         /\ F2[n + 1] = b
    BY <1>1, <2>5, <2>6
  <2>14. \A c \in Blocks : R[c] = 0 <=> \E i \in 1..n : F[i] = c
    BY <2>6 DEF Exact
  <2>11. \A i \in 1..n : F[i] # b
    <3>1. R[b] # 0
      BY <1>6
    <3> QED
      BY <2>14, <3>1
  <2>12. \A i, j \in 1..n : F[i] = F[j] => i = j
    BY <2>6 DEF Exact
  <2>13. \A i, j \in 1..n + 1 : F2[i] = F2[j] => i = j
    BY <2>6, <2>10, <2>11, <2>12, SMTT(30)
  <2>15. \A c \in Blocks : R2[c] = 0 <=> \E i \in 1..n + 1 : F2[i] = c
    <3>1. ASSUME NEW c \in Blocks, c # b
          PROVE  R2[c] = 0 <=> \E i \in 1..n + 1 : F2[i] = c
      BY <2>8, <2>6, <2>10, <2>14, <3>1, SMTT(30)
    <3>2. R2[b] = 0 /\ n + 1 \in 1..n + 1
      BY <2>6, <2>8
    <3> QED
      BY <2>10, <3>1, <3>2
  <2>16. Exact(E \ {x}, T, R2, F2)
    BY <2>6, <2>9, <2>13, <2>15 DEF Exact
  <2> QED
    BY <2>7, <2>16
<1>7. CASE R[b] > 1
  <2>1. q = [refs |-> [R EXCEPT ![b] = R[b] - 1], free |-> F]
    BY <1>3, <1>7 DEF ReleaseOne
  <2>2. R[b] - 1 \in Nat \ {0}
    BY <1>3, <1>7
  <2>3. [R EXCEPT ![b] = R[b] - 1] \in [Blocks -> Nat]
    BY <1>1, <2>2
  <2>4. PICK R2 \in [Blocks -> Nat] : R2 = [R EXCEPT ![b] = R[b] - 1]
    BY <2>3
  <2>5. R2[b] = R[b] - 1 /\ \A c \in Blocks : c # b => R2[c] = R[c]
    BY <1>1, <2>4
  <2>6. q.refs = R2 /\ q.free = F /\ q = [refs |-> R2, free |-> F]
    <3>1. q = [refs |-> R2, free |-> F]
      BY <2>1, <2>4, Zenon
    <3> QED
      BY <3>1
  <2>7. \A c \in Blocks : R2[c] = Cardinality(Naming(E \ {x}, T, c))
    <3>1. \A c \in Blocks : R[c] = Cardinality(Naming(E, T, c))
      BY DEF Exact
    <3> QED
      BY <1>4, <1>5, <2>5, <3>1, Zenon
  <2>8. \A c \in Blocks : R2[c] = 0 <=> R[c] = 0
    <3>1. R2[b] # 0 /\ R[b] # 0
      BY <1>3, <2>2, <2>5
    <3> QED
      BY <2>5, <3>1
  <2>9. Exact(E \ {x}, T, R2, F)
    BY <1>1, <2>7, <2>8 DEF Exact
  <2> QED
    BY <2>6, <2>9
<1> QED
  BY <1>3, <1>6, <1>7

\* The same of a record of counts and free list.
ExactRec(E, T, rf) ==
  Exact(E, T, rf.refs, rf.free) /\ rf = [refs |-> rf.refs, free |-> rf.free]

\* releaseBlock again, for such a record.
LEMMA ReleaseOneRec ==
  ASSUME NEW E, IsFiniteSet(E), NEW T, NEW rf, ExactRec(E, T, rf),
         NEW x \in E, NEW b \in Blocks, T[x[1]][x[2]] = b
  PROVE  ExactRec(E \ {x}, T, ReleaseOne(rf, b))
<1>1. PICK R, F : R = rf.refs /\ F = rf.free
  OBVIOUS
<1>2. Exact(E, T, R, F) /\ rf = [refs |-> R, free |-> F]
  BY <1>1 DEF ExactRec
<1>3. PICK q : q = ReleaseOne([refs |-> R, free |-> F], b)
  OBVIOUS
<1>4. Exact(E \ {x}, T, q.refs, q.free) /\ q = [refs |-> q.refs, free |-> q.free]
  BY <1>2, <1>3, ReleaseOneExact, SMTT(30)
<1> QED
  BY <1>2, <1>3, <1>4 DEF ExactRec

\* The entries from + 1 .. from + i of the table of s.
Behind(s, from, i) == {<<s, from + j>> : j \in 1..i}

\* Release drops the entries of t and keeps counts and free list exact.
LEMMA ReleaseExact ==
  ASSUME NEW l, NEW E, IsFiniteSet(E), NEW T, Exact(E, T, refs[l], freeList[l]),
         NEW s, NEW from \in Nat, NEW t \in Seq(Blocks),
         \A j \in 1..Len(t) : <<s, from + j>> \in E /\ T[s][from + j] = t[j]
  PROVE  Exact(E \ Behind(s, from, Len(t)), T, Release(l, t).refs, Release(l, t).free)
<1>1. PICK n \in Nat : n = Len(t)
  OBVIOUS
<1>2. PICK rf : rf = [refs |-> refs[l], free |-> freeList[l]]
  OBVIOUS
<1>3. PICK g : Steps(rf, t, g, n) /\ Release(l, t) = g[n]
  BY <1>1, <1>2, ReleaseIs
<1> DEFINE Good(i) == ExactRec(E \ Behind(s, from, i), T, g[i])
           M == {i \in Nat : i <= n => Good(i)}
<1>4. g[0] = rf /\ \A i \in 1..n : g[i] = ReleaseOne(g[i - 1], t[i])
  BY <1>3 DEF Steps
<1>5. 0 \in M
  <2>1. g[0].refs = refs[l] /\ g[0].free = freeList[l] /\ g[0] = [refs |-> g[0].refs, free |-> g[0].free]
    BY <1>2, <1>4
  <2>2. E \ Behind(s, from, 0) = E
    BY DEF Behind
  <2>3. Good(0)
    BY <2>1, <2>2 DEF ExactRec
  <2> QED
    BY <2>3
<1> HIDE DEF Good
<1>6. ASSUME NEW i \in M PROVE i + 1 \in M
  <2>0. i \in Nat /\ (i <= n => Good(i))
    BY Zenon
  <2>1. CASE i + 1 <= n
    <3>0. i <= n /\ i + 1 \in 1..n /\ (i + 1) - 1 = i
      BY <1>1, <2>0, <2>1
    <3>1. Good(i) /\ i + 1 \in 1..n /\ (i + 1) - 1 = i
      BY <2>0, <3>0
    <3>2. PICK D : D = E \ Behind(s, from, i)
      OBVIOUS
    <3>4. PICK x : x = <<s, from + (i + 1)>>
      OBVIOUS
    <3>5. PICK b \in Blocks : b = t[i + 1]
      BY <1>1, <3>1
    <3>6. x[1] = s /\ x[2] = from + (i + 1) /\ T[x[1]][x[2]] = b /\ x \in E
      BY <1>1, <3>1, <3>4, <3>5
    <3>7. x \notin Behind(s, from, i)
      BY <3>4 DEF Behind
    <3>8. E \ Behind(s, from, i + 1) = D \ {x}
      BY <3>2, <3>4 DEF Behind
    <3>9. IsFiniteSet(D)
      <4>1. D \in SUBSET E
        BY <3>2
      <4> QED
        BY <4>1, FS_Subset
    <3>10. ExactRec(D, T, g[i])
      BY <3>1, <3>2 DEF Good
    <3>11. g[i + 1] = ReleaseOne(g[i], b)
      BY <1>4, <3>1, <3>5
    <3>12. PICK rf2 : rf2 = g[i]
      OBVIOUS
    <3>13. PICK y \in D : y = x
      BY <3>2, <3>6, <3>7
    <3>14. T[y[1]][y[2]] = b /\ ExactRec(D, T, rf2)
      BY <3>6, <3>10, <3>12, <3>13
    <3>15. ExactRec(D \ {y}, T, ReleaseOne(rf2, b))
      BY <3>9, <3>14, ReleaseOneRec
    <3>17. Good(i + 1)
      BY <3>8, <3>11, <3>12, <3>13, <3>15 DEF Good
    <3>18. i + 1 \in Nat
      BY <2>0
    <3> QED
      BY <3>17, <3>18
  <2>2. CASE ~(i + 1 <= n)
    BY <2>0, <2>2
  <2> QED
    BY <2>1, <2>2
<1>7. M = Nat
  <2>1. M \subseteq Nat
    OBVIOUS
  <2> HIDE DEF M
  <2> QED
    BY <1>5, <1>6, <2>1, NatInd
<1>8. n \in M /\ n <= n
  BY <1>7
<1>9. Good(n)
  BY <1>8
<1> QED
  BY <1>1, <1>3, <1>9 DEF Good, ExactRec

\* The entries of the tables T of a layer.
Entries(T) == {e \in Seqs \X (1..MaxLen) : e[2] \in DOMAIN T[e[1]]}

\* There are finitely many entries.
LEMMA EntriesFinite ==
  ASSUME NEW T
  PROVE  IsFiniteSet(Entries(T))
<1>1. IsFiniteSet(Seqs) /\ IsFiniteSet(1..MaxLen)
  BY PoolAssumption, FS_Interval
<1>2. IsFiniteSet(Seqs \X (1..MaxLen))
  BY <1>1, FS_Product
<1>3. Entries(T) \in SUBSET (Seqs \X (1..MaxLen))
  BY DEF Entries
<1> QED
  BY <1>2, <1>3, FS_Subset

\* A table of s is cut after keep blocks, and the rest released.
LEMMA CutExact ==
  ASSUME NEW l, NEW T \in [Seqs -> Seq(Blocks)], \A q \in Seqs : Len(T[q]) <= MaxLen,
         Exact(Entries(T), T, refs[l], freeList[l]),
         NEW s \in Seqs, NEW keep \in 0..Len(T[s]),
         NEW T2, T2 = [T EXCEPT ![s] = SubSeq(T[s], 1, keep)],
         NEW t, t = SubSeq(T[s], keep + 1, Len(T[s]))
  PROVE  Exact(Entries(T2), T2, Release(l, t).refs, Release(l, t).free)
<1>1. PICK u \in Seq(Blocks) : u = T[s]
  OBVIOUS
<1>2. PICK n \in Nat : n = Len(u) /\ n <= MaxLen /\ keep <= n
  BY <1>1
<1>3. t \in Seq(Blocks) /\ Len(t) = n - keep /\ \A j \in 1..n - keep : t[j] = u[keep + j]
  BY <1>1, <1>2
<1>4. \A j \in 1..Len(t) : <<s, keep + j>> \in Entries(T) /\ T[s][keep + j] = t[j]
  <2> TAKE j \in 1..Len(t)
  <2>1. j \in 1..n - keep /\ keep + j \in 1..n
    BY <1>2, <1>3
  <2>2. keep + j \in DOMAIN T[s] /\ keep + j \in 1..MaxLen
    BY <1>1, <1>2, <2>1, PoolAssumption
  <2> QED
    BY <1>1, <1>3, <2>1, <2>2 DEF Entries
<1>5. Exact(Entries(T) \ Behind(s, keep, Len(t)), T, Release(l, t).refs, Release(l, t).free)
  <2>1. IsFiniteSet(Entries(T)) /\ keep \in Nat
    BY <1>1, <1>2, EntriesFinite
  <2> QED
    BY <1>3, <1>4, <2>1, ReleaseExact
<1>6. T2 \in [Seqs -> Seq(Blocks)] /\ T2[s] = SubSeq(u, 1, keep) /\ \A q \in Seqs \ {s} : T2[q] = T[q]
  BY <1>1, <1>2
<1>7. Len(T2[s]) = keep /\ DOMAIN T2[s] = 1..keep /\ \A i \in 1..keep : T2[s][i] = u[i]
  BY <1>1, <1>2, <1>6
<1>8. Entries(T2) = Entries(T) \ Behind(s, keep, Len(t))
  <2>1. ASSUME NEW q \in Seqs, NEW i \in 1..MaxLen, q # s
        PROVE  <<q, i>> \in Entries(T2) <=> <<q, i>> \in Entries(T) \ Behind(s, keep, Len(t))
    BY <1>6, <2>1 DEF Entries, Behind
  <2>2. ASSUME NEW i \in 1..MaxLen
        PROVE  <<s, i>> \in Entries(T2) <=> <<s, i>> \in Entries(T) \ Behind(s, keep, Len(t))
    <3>1. <<s, i>> \in Entries(T2) <=> i \in 1..keep
      BY <1>7 DEF Entries
    <3>2. <<s, i>> \in Entries(T) <=> i \in 1..n
      BY <1>1, <1>2 DEF Entries
    <3>3. <<s, i>> \in Behind(s, keep, Len(t)) <=> i \in keep + 1..n
      <4>1. <<s, i>> \in Behind(s, keep, Len(t)) <=> \E j \in 1..n - keep : i = keep + j
        BY <1>3 DEF Behind
      <4>2. i \in keep + 1..n => i - keep \in 1..n - keep /\ i = keep + (i - keep)
        BY <1>2, PoolAssumption
      <4>3. \A j \in 1..n - keep : keep + j \in keep + 1..n
        BY <1>2
      <4> QED
        BY <4>1, <4>2, <4>3
    <3> QED
      BY <1>2, <3>1, <3>2, <3>3, PoolAssumption
  <2>3. \A e \in Entries(T2) \cup Entries(T) : \E q \in Seqs, i \in 1..MaxLen : e = <<q, i>>
    BY DEF Entries
  <2>4. ASSUME NEW e \in Entries(T2) \cup Entries(T)
        PROVE  e \in Entries(T2) <=> e \in Entries(T) \ Behind(s, keep, Len(t))
    <3>1. PICK q \in Seqs, i \in 1..MaxLen : e = <<q, i>>
      BY <2>3
    <3> QED
      BY <2>1, <2>2, <3>1
  <2> QED
    BY <2>4, Zenon
<1>9. \A b \in Blocks : Naming(Entries(T2), T2, b) = Naming(Entries(T2), T, b)
  <2>1. \A e \in Entries(T2) : T2[e[1]][e[2]] = T[e[1]][e[2]]
    BY <1>1, <1>6, <1>7 DEF Entries
  <2> QED
    BY <2>1 DEF Naming
<1>10. PICK R, F : R = Release(l, t).refs /\ F = Release(l, t).free
  OBVIOUS
<1>11. Exact(Entries(T2), T, R, F)
  BY <1>5, <1>8, <1>10
<1>12. Exact(Entries(T2), T2, R, F)
  BY <1>9, <1>11 DEF Exact
<1> QED
  BY <1>10, <1>12

\* A table with more blocks at its end.
LEMMA Joined ==
  ASSUME NEW t \in Seq(Blocks), NEW u \in Seq(Blocks)
  PROVE  /\ t \o u \in Seq(Blocks) /\ Len(t \o u) = Len(t) + Len(u)
         /\ DOMAIN (t \o u) = 1..Len(t \o u)
         /\ \A i \in 1..Len(t) : (t \o u)[i] = t[i]
         /\ \A i \in 1..Len(u) : (t \o u)[Len(t) + i] = u[i]
OBVIOUS

\* The table of s grows by m blocks off the end of the free list.
Grown(T, R, F, s, m, T2, R2, F2) ==
  \E new : /\ new = [i \in 1..m |-> F[Len(F) + 1 - i]]
           /\ T2 = [T EXCEPT ![s] = T[s] \o new]
           /\ R2 = [b \in Blocks |-> IF \E i \in DOMAIN new : new[i] = b THEN 1 ELSE R[b]]
           /\ F2 = SubSeq(F, 1, Len(F) - m)

\* allocBlock, m times.
LEMMA GrowExact ==
  ASSUME NEW T \in [Seqs -> Seq(Blocks)], \A q \in Seqs : Len(T[q]) <= MaxLen,
         NEW R, NEW F, Exact(Entries(T), T, R, F),
         NEW s \in Seqs, NEW m \in 0..Len(F), Len(T[s]) + m <= MaxLen,
         NEW T2, NEW R2, NEW F2, Grown(T, R, F, s, m, T2, R2, F2)
  PROVE  /\ Exact(Entries(T2), T2, R2, F2)
         /\ T2 \in [Seqs -> Seq(Blocks)] /\ Len(T2[s]) = Len(T[s]) + m
         /\ \A q \in Seqs \ {s} : T2[q] = T[q]
<1>0. PICK new : /\ new = [i \in 1..m |-> F[Len(F) + 1 - i]]
                 /\ T2 = [T EXCEPT ![s] = T[s] \o new]
                 /\ R2 = [b \in Blocks |-> IF \E i \in DOMAIN new : new[i] = b THEN 1 ELSE R[b]]
                 /\ F2 = SubSeq(F, 1, Len(F) - m)
  BY Zenon DEF Grown
<1>1. R \in [Blocks -> Nat] /\ F \in Seq(Blocks)
  BY DEF Exact
<1>2. PICK f \in Nat : f = Len(F) /\ m \in 0..f
  BY <1>1
<1>3. PICK n \in Nat : n = Len(T[s]) /\ n + m <= MaxLen
  OBVIOUS
<1>4. m \in Nat /\ f - m \in Nat
  BY <1>2
<1>5. \A i \in 1..m : f + 1 - i \in 1..f /\ F[f + 1 - i] \in Blocks
  BY <1>1, <1>2
<1>6. new \in Seq(Blocks) /\ Len(new) = m /\ \A i \in 1..m : new[i] = F[f + 1 - i]
  BY <1>0, <1>2, <1>4, <1>5
<1>7. T2 \in [Seqs -> Seq(Blocks)] /\ T2[s] = T[s] \o new /\ \A q \in Seqs \ {s} : T2[q] = T[q]
  <2>1. T[s] \o new \in Seq(Blocks)
    BY <1>6
  <2>2. T2 = [T EXCEPT ![s] = T[s] \o new]
    BY <1>0, Zenon
  <2> QED
    BY <2>1, <2>2
<1>8. Len(T2[s]) = n + m /\ DOMAIN T2[s] = 1..n + m
  <2>1. PICK u \in Seq(Blocks) : u = T[s] /\ T2[s] = u \o new /\ Len(u) = n
    BY <1>3, <1>7
  <2>5. new \in Seq(Blocks)
    BY <1>6
  <2>2. Len(u \o new) = Len(u) + Len(new)
    BY <2>5, Joined, Zenon
  <2>3. DOMAIN (u \o new) = 1..Len(u \o new)
    BY <2>5, Joined, Zenon
  <2>4. Len(u \o new) = n + m
    BY <1>6, <2>1, <2>2
  <2> QED
    BY <2>1, <2>3, <2>4
<1>9. /\ \A i \in 1..n : T2[s][i] = T[s][i]
      /\ \A i \in 1..m : T2[s][n + i] = new[i]
  BY <1>3, <1>6, <1>7
<1>10. \A e \in Entries(T) : e \in Entries(T2) /\ T2[e[1]][e[2]] = T[e[1]][e[2]]
  <2> TAKE e \in Entries(T)
  <2>1. PICK q \in Seqs, j \in 1..MaxLen : e = <<q, j>> /\ j \in DOMAIN T[q]
    BY DEF Entries
  <2>2. CASE q = s
    <3>1. j \in 1..n /\ j \in 1..n + m
      BY <1>3, <1>4, <2>1, <2>2
    <3> QED
      BY <1>8, <1>9, <2>1, <2>2, <3>1 DEF Entries
  <2>3. CASE q # s
    BY <1>7, <2>1, <2>3 DEF Entries
  <2> QED
    BY <2>2, <2>3
<1>11. \A e \in Entries(T2) : e \in Entries(T) \/ \E i \in 1..m : e = <<s, n + i>>
  <2> TAKE e \in Entries(T2)
  <2>1. PICK q \in Seqs, j \in 1..MaxLen : e = <<q, j>> /\ j \in DOMAIN T2[q]
    BY DEF Entries
  <2>2. CASE q = s
    <3>1. j \in 1..n + m
      BY <1>8, <2>1, <2>2
    <3>2. CASE j <= n
      <4>1. j \in DOMAIN T[s]
        BY <1>3, <3>1, <3>2
      <4> QED
        BY <2>1, <2>2, <4>1 DEF Entries
    <3>3. CASE j > n
      <4>1. j - n \in 1..m /\ j = n + (j - n)
        BY <1>4, <3>1, <3>3
      <4> QED
        BY <2>1, <2>2, <4>1
    <3> QED
      BY <3>1, <3>2, <3>3
  <2>3. CASE q # s
    BY <1>7, <2>1, <2>3 DEF Entries
  <2> QED
    BY <2>2, <2>3
<1>12. \A i \in 1..m : <<s, n + i>> \in Entries(T2)
  BY <1>3, <1>4, <1>8, PoolAssumption DEF Entries
<1>13. DOMAIN new = 1..m
  BY <1>6
<1>18. \A i, j \in 1..f : F[i] = F[j] => i = j
  BY <1>2 DEF Exact
<1>14. ASSUME NEW i \in 1..m, NEW j \in 1..m, new[i] = new[j] PROVE i = j
  <2>1. PICK x \in 1..f : x = f + 1 - i
    BY <1>5
  <2>2. PICK y \in 1..f : y = f + 1 - j
    BY <1>5
  <2>3. new[i] = F[x] /\ new[j] = F[y]
    BY <1>6, <2>1, <2>2
  <2>4. x = y
    BY <1>14, <1>18, <2>3
  <2> QED
    BY <1>4, <2>1, <2>2, <2>4
<1>15. R2 \in [Blocks -> Nat]
  BY <1>0, <1>1
<1>16. \A b \in Blocks : R2[b] = Cardinality(Naming(Entries(T2), T2, b))
  <2> TAKE b \in Blocks
  <2>1. R[b] = Cardinality(Naming(Entries(T), T, b))
    BY DEF Exact
  <2>2. CASE \E i \in 1..m : new[i] = b
    <3>1. PICK i \in 1..m : new[i] = b
      BY <2>2
    <3>2. R[b] = 0
      BY <1>1, <1>2, <1>5, <1>6, <3>1 DEF Exact
    <3>3. Naming(Entries(T), T, b) = {}
      BY <2>1, <3>2, EntriesFinite, NamingFinite
    <3>4. \A e \in Naming(Entries(T2), T2, b) : e = <<s, n + i>>
      <4> TAKE e \in Naming(Entries(T2), T2, b)
      <4>1. e \in Entries(T2) /\ T2[e[1]][e[2]] = b
        BY DEF Naming
      <4>2. e \notin Entries(T)
        BY <1>10, <3>3, <4>1 DEF Naming
      <4>3. PICK j \in 1..m : e = <<s, n + j>>
        BY <1>11, <4>1, <4>2
      <4>4. new[j] = b
        BY <1>9, <4>1, <4>3
      <4> QED
        BY <1>14, <3>1, <4>3, <4>4
    <3>5. <<s, n + i>> \in Naming(Entries(T2), T2, b)
      BY <1>9, <1>12, <3>1 DEF Naming
    <3>6. Naming(Entries(T2), T2, b) = {<<s, n + i>>}
      BY <3>4, <3>5
    <3>7. R2[b] = 1
      BY <1>0, <1>13, <3>1
    <3> QED
      BY <3>6, <3>7, FS_Singleton
  <2>3. CASE ~\E i \in 1..m : new[i] = b
    <3>1. ASSUME NEW e \in Naming(Entries(T2), T2, b) PROVE e \in Naming(Entries(T), T, b)
      <4>1. e \in Entries(T2) /\ T2[e[1]][e[2]] = b
        BY DEF Naming
      <4>2. e \in Entries(T)
        <5> SUFFICES ASSUME e \notin Entries(T) PROVE FALSE
          OBVIOUS
        <5>1. PICK j \in 1..m : e = <<s, n + j>>
          BY <1>11, <4>1
        <5>2. new[j] = b
          BY <1>9, <4>1, <5>1
        <5> QED
          BY <2>3, <5>2
      <4> QED
        BY <1>10, <4>1, <4>2 DEF Naming
    <3>2. ASSUME NEW e \in Naming(Entries(T), T, b) PROVE e \in Naming(Entries(T2), T2, b)
      BY <1>10 DEF Naming
    <3>4. Naming(Entries(T2), T2, b) = Naming(Entries(T), T, b)
      BY <3>1, <3>2, Zenon
    <3>3. R2[b] = R[b]
      BY <1>0, <1>13, <2>3
    <3> QED
      BY <2>1, <3>4, <3>3, Zenon
  <2> QED
    BY <2>2, <2>3
<1>17. F2 \in Seq(Blocks) /\ Len(F2) = f - m /\ \A i \in 1..f - m : F2[i] = F[i]
  <2>0. f - m \in Nat /\ f - m <= f
    BY <1>2, <1>4
  <2>1. PICK k \in Nat : k = f - m /\ k <= f
    BY <2>0, Zenon
  <2>2. F2 = SubSeq(F, 1, k)
    BY <1>0, <1>2, <2>1
  <2>3. F2 \in Seq(Blocks) /\ Len(F2) = k /\ \A i \in 1..k : F2[i] = F[i]
    BY <1>1, <1>2, <2>1, <2>2
  <2> QED
    BY <2>1, <2>3
<1>19. \A i \in 1..f - m : i \in 1..f
  BY <1>2
<1>20. \A i, j \in 1..Len(F2) : F2[i] = F2[j] => i = j
  BY <1>17, <1>18, <1>19
<1>21. \A b \in Blocks : R2[b] = 0 <=> \E i \in 1..Len(F2) : F2[i] = b
  <2> TAKE b \in Blocks
  <2>1. R[b] = 0 <=> \E i \in 1..f : F[i] = b
    BY <1>2 DEF Exact
  <2>2. CASE \E i \in 1..m : new[i] = b
    <3>1. PICK i \in 1..m : new[i] = b
      BY <2>2
    <3>2. R2[b] = 1
      BY <1>0, <1>13, <3>1
    <3>3. \A j \in 1..f - m : F2[j] # b
      <4> TAKE j \in 1..f - m
      <4>1. PICK x \in 1..f : x = f + 1 - i
        BY <1>5
      <4>2. j \in 1..f /\ j # x
        BY <1>2, <4>1
      <4>3. F[x] = b /\ F2[j] = F[j]
        BY <1>6, <1>17, <3>1, <4>1
      <4> QED
        BY <1>18, <4>2, <4>3
    <3>4. ~\E j \in 1..Len(F2) : F2[j] = b
      BY <1>17, <3>3
    <3> QED
      BY <3>2, <3>4
  <2>3. CASE ~\E i \in 1..m : new[i] = b
    <3>1. R2[b] = R[b]
      BY <1>0, <1>13, <2>3
    <3>2. ASSUME NEW j \in 1..f, F[j] = b
          PROVE  j \in 1..f - m
      <4> SUFFICES ASSUME j \notin 1..f - m PROVE FALSE
        OBVIOUS
      <4>1. f + 1 - j \in 1..m /\ f + 1 - (f + 1 - j) = j
        BY <1>2
      <4> QED
        BY <1>6, <2>3, <3>2, <4>1
    <3> QED
      BY <1>17, <1>19, <2>1, <3>1, <3>2
  <2> QED
    BY <2>2, <2>3
<1>22. Exact(Entries(T2), T2, R2, F2)
  BY <1>15, <1>16, <1>17, <1>20, <1>21 DEF Exact
<1> QED
  BY <1>3, <1>7, <1>8, <1>22

\* Of two counts that are added.
LEMMA CountsAdd ==
  ASSUME NEW d \in Nat, NEW c \in Nat
  PROVE  d + c \in Nat /\ ((d = 0 => c = 0) => (d + c = 0 <=> d = 0))
OBVIOUS

\* The first k blocks of src become the table of dst.
Prefixed(T, R, src, dst, k, T2, R2) ==
  \E pre : /\ pre = SubSeq(T[src], 1, k)
           /\ T2 = [T EXCEPT ![dst] = pre]
           /\ R2 = [b \in Blocks |-> R[b] + Cardinality({i \in DOMAIN pre : pre[i] = b})]

\* ShareBlocks, of a layer.
LEMMA ShareExact ==
  ASSUME NEW T \in [Seqs -> Seq(Blocks)], \A q \in Seqs : Len(T[q]) <= MaxLen,
         NEW R, NEW F, Exact(Entries(T), T, R, F),
         NEW src \in Seqs, NEW dst \in Seqs, src # dst, T[dst] = << >>,
         NEW k \in 0..Len(T[src]),
         NEW T2, NEW R2, Prefixed(T, R, src, dst, k, T2, R2)
  PROVE  Exact(Entries(T2), T2, R2, F)
<1>0. PICK pre : /\ pre = SubSeq(T[src], 1, k)
                 /\ T2 = [T EXCEPT ![dst] = pre]
                 /\ R2 = [b \in Blocks |-> R[b] + Cardinality({i \in DOMAIN pre : pre[i] = b})]
  BY Zenon DEF Prefixed
<1>1. R \in [Blocks -> Nat] /\ F \in Seq(Blocks)
  BY DEF Exact
<1>2. PICK u \in Seq(Blocks) : u = T[src]
  OBVIOUS
<1>3. k \in Nat /\ k <= Len(u) /\ Len(u) <= MaxLen /\ Len(u) \in Nat
  BY <1>2
<1>4. pre \in Seq(Blocks) /\ Len(pre) = k /\ DOMAIN pre = 1..k /\ \A i \in 1..k : pre[i] = u[i]
  <2>1. pre = SubSeq(u, 1, k)
    BY <1>0, <1>2, Zenon
  <2> QED
    BY <1>2, <1>3, <2>1
<1>5. T2[dst] = pre /\ \A q \in Seqs \ {dst} : T2[q] = T[q]
  <2>1. T2 = [T EXCEPT ![dst] = pre]
    BY <1>0, Zenon
  <2> QED
    BY <1>4, <2>1
<1>6. \A e \in Entries(T) : e \in Entries(T2) /\ e[1] # dst /\ T2[e[1]][e[2]] = T[e[1]][e[2]]
  BY <1>5 DEF Entries
<1>7. \A e \in Entries(T2) : e \in Entries(T) \/ \E i \in 1..k : e = <<dst, i>>
  <2> TAKE e \in Entries(T2)
  <2>1. PICK q \in Seqs, j \in 1..MaxLen : e = <<q, j>> /\ j \in DOMAIN T2[q]
    BY DEF Entries
  <2>2. CASE q = dst
    BY <1>4, <1>5, <2>1, <2>2
  <2>3. CASE q # dst
    BY <1>5, <2>1, <2>3 DEF Entries
  <2> QED
    BY <2>2, <2>3
<1>8. \A i \in 1..k : <<dst, i>> \in Entries(T2) /\ T2[dst][i] = pre[i]
  <2> TAKE i \in 1..k
  <2>1. i \in 1..MaxLen
    BY <1>3, PoolAssumption
  <2> QED
    BY <1>4, <1>5, <2>1 DEF Entries
<1>9. ASSUME NEW b \in Blocks
      PROVE  /\ IsFiniteSet({i \in 1..k : pre[i] = b})
             /\ Cardinality({i \in 1..k : pre[i] = b}) \in Nat
             /\ Cardinality(Naming(Entries(T2), T2, b))
                  = R[b] + Cardinality({i \in 1..k : pre[i] = b})
  <2> DEFINE I == {i \in 1..k : pre[i] = b}
             N == Naming(Entries(T), T, b)
  <2>1. IsFiniteSet(I) /\ Cardinality(I) \in Nat
    <3>1. IsFiniteSet(1..k)
      BY <1>3, FS_Interval
    <3>2. I \in SUBSET (1..k)
      OBVIOUS
    <3>3. IsFiniteSet(I)
      BY <3>1, <3>2, FS_Subset
    <3> QED
      BY <3>3, FS_CardinalityType
  <2>2. IsFiniteSet(N) /\ Cardinality(N) = R[b]
    BY EntriesFinite, NamingFinite DEF Exact
  <2>8. \A i : i \in I <=> i \in 1..k /\ pre[i] = b
    OBVIOUS
  <2>9. \A e : e \in N <=> e \in Entries(T) /\ T[e[1]][e[2]] = b
    BY DEF Naming
  <2> HIDE DEF I, N
  <2>10. PICK P : P = {dst} \X I
    OBVIOUS
  <2>11. \A e : e \in P <=> \E i \in I : e = <<dst, i>>
    BY <2>10
  <2>12. PICK N2 : N2 = Naming(Entries(T2), T2, b)
    OBVIOUS
  <2>13. \A e : e \in N2 <=> e \in Entries(T2) /\ T2[e[1]][e[2]] = b
    BY <2>12 DEF Naming
  <2>3. N2 = N \cup P
    <3>1. ASSUME NEW e \in N PROVE e \in N2
      BY <1>6, <2>9, <2>13
    <3>2. ASSUME NEW e \in P PROVE e \in N2
      <4>1. PICK i \in I : e = <<dst, i>>
        BY <2>11
      <4>2. i \in 1..k /\ pre[i] = b
        BY <2>8
      <4>3. e \in Entries(T2) /\ T2[dst][i] = b /\ e[1] = dst /\ e[2] = i
        BY <1>8, <4>1, <4>2
      <4> QED
        BY <2>13, <4>3
    <3>3. ASSUME NEW e \in N2 PROVE e \in N \cup P
      <4>1. e \in Entries(T2) /\ T2[e[1]][e[2]] = b
        BY <2>13
      <4>2. CASE e \in Entries(T)
        BY <1>6, <2>9, <4>1, <4>2
      <4>3. CASE e \notin Entries(T)
        <5>1. PICK i \in 1..k : e = <<dst, i>>
          BY <1>7, <4>1, <4>3
        <5>2. T2[dst][i] = b
          BY <4>1, <5>1
        <5>3. i \in I
          BY <1>8, <2>8, <5>2
        <5> QED
          BY <2>11, <5>1, <5>3
      <4> QED
        BY <4>2, <4>3
    <3> QED
      BY <3>1, <3>2, <3>3, Zenon
  <2>4. N \cap P = {}
    <3>1. \A e \in N : e[1] # dst
      BY <1>6, <2>9
    <3>2. \A e \in P : e[1] = dst
      BY <2>11
    <3> QED
      BY <3>1, <3>2
  <2>5. IsFiniteSet(P) /\ Cardinality(P) = Cardinality(I)
    <3>1. IsFiniteSet({dst}) /\ Cardinality({dst}) = 1
      BY FS_Singleton
    <3>2. PICK D : D = {dst}
      OBVIOUS
    <3>3. IsFiniteSet(D \X I) /\ Cardinality(D \X I) = Cardinality(D) * Cardinality(I)
      BY <2>1, <3>1, <3>2, FS_Product
    <3>4. PICK c \in Nat : c = Cardinality(I)
      BY <2>1
    <3>5. Cardinality(P) = 1 * c /\ IsFiniteSet(P)
      BY <2>10, <3>1, <3>2, <3>3, <3>4
    <3> QED
      BY <3>4, <3>5
  <2>6. Cardinality(N2) = R[b] + Cardinality(I)
    <3>1. Cardinality(N \cup P) = Cardinality(N) + Cardinality(P) - Cardinality(N \cap P)
      BY <2>2, <2>5, FS_Union
    <3>2. Cardinality(N \cap P) = 0
      BY <2>4, FS_EmptySet
    <3>3. PICK c \in Nat, d \in Nat : c = Cardinality(I) /\ d = R[b]
      BY <1>1, <2>1
    <3>4. Cardinality(N2) = d + c - 0
      BY <2>2, <2>3, <2>5, <3>1, <3>2, <3>3
    <3> QED
      BY <3>3, <3>4
  <2>7. Cardinality(Naming(Entries(T2), T2, b)) = R[b] + Cardinality(I)
    BY <2>6, <2>12
  <2> QED
    BY <2>1, <2>7 DEF I
<1>10. R2 \in [Blocks -> Nat] /\ \A b \in Blocks : R2[b] = Cardinality(Naming(Entries(T2), T2, b))
  <2>1. R2 = [b \in Blocks |-> R[b] + Cardinality({i \in 1..k : pre[i] = b})]
    BY <1>0, <1>4, Zenon
  <2>2. \A b \in Blocks : R2[b] = R[b] + Cardinality({i \in 1..k : pre[i] = b})
    BY <2>1
  <2>3. ASSUME NEW b \in Blocks PROVE R2[b] \in Nat
    <3>1. PICK c \in Nat, d \in Nat : c = Cardinality({i \in 1..k : pre[i] = b}) /\ d = R[b]
      BY <1>1, <1>9
    <3>2. R2[b] = d + c
      BY <2>2, <3>1
    <3> QED
      BY <3>2, CountsAdd, Zenon
  <2> QED
    BY <1>9, <2>1, <2>2, <2>3
<1>11. \A b \in Blocks : R2[b] = 0 <=> R[b] = 0
  <2> TAKE b \in Blocks
  <2>1. PICK c \in Nat : c = Cardinality({i \in 1..k : pre[i] = b}) /\ R2[b] = R[b] + c
    <3>1. R2[b] = R[b] + Cardinality({i \in 1..k : pre[i] = b})
      BY <1>0, <1>4, Zenon
    <3> QED
      BY <1>9, <3>1
  <2>2. ASSUME R[b] = 0 PROVE c = 0
    <3>1. Naming(Entries(T), T, b) = {}
      BY <2>2, EntriesFinite, NamingFinite DEF Exact
    <3>2. ASSUME NEW i \in 1..k, pre[i] = b PROVE FALSE
      <4>1. i \in DOMAIN T[src] /\ i \in 1..MaxLen /\ T[src][i] = b
        BY <1>2, <1>3, <1>4, <3>2, PoolAssumption
      <4>2. <<src, i>> \in Entries(T)
        BY <4>1 DEF Entries
      <4>3. <<src, i>> \in Naming(Entries(T), T, b)
        BY <4>1, <4>2 DEF Naming
      <4> QED
        BY <3>1, <4>3, Zenon
    <3>3. {i \in 1..k : pre[i] = b} = {}
      BY <3>2
    <3> QED
      BY <2>1, <3>3, FS_EmptySet
  <2>3. PICK d \in Nat : d = R[b]
    BY <1>1
  <2>4. R2[b] = d + c /\ (d = 0 => c = 0)
    BY <2>1, <2>2, <2>3
  <2> QED
    BY <2>3, <2>4, CountsAdd, Zenon
<1> QED
  BY <1>1, <1>10, <1>11 DEF Exact

-----------------------------------------------------------------------------
(* The methods of the pool.                                                *)

\* BlocksFor is a number of blocks.
LEMMA BlocksForType ==
  ASSUME NEW n \in Nat
  PROVE  BlocksFor(n) \in Nat
BY PoolAssumption DEF BlocksFor

\* No token needs no block.
LEMMA BlocksForZero ==
  BlocksFor(0) = 0
BY PoolAssumption DEF BlocksFor

\* More tokens need no fewer blocks.
LEMMA BlocksForMono ==
  ASSUME NEW m \in Nat, NEW n \in Nat, m <= n
  PROVE  BlocksFor(m) <= BlocksFor(n)
BY PoolAssumption DEF BlocksFor

\* No token needs more than one block.
LEMMA BlocksForBound ==
  ASSUME NEW n \in Nat
  PROVE  BlocksFor(n) <= n
BY PoolAssumption DEF BlocksFor

\* The types of the pool's own state, without counts and free lists.
PoolTypes ==
  /\ tracked \subseteq Seqs
  /\ table \in [Layers -> [Seqs -> Seq(Blocks)]]
  /\ seqLen \in [Seqs -> Nat]
  /\ dirty \in [Layers -> [Seqs -> BOOLEAN]]
  /\ btGPU \in [Layers -> [Seqs -> Seq(Blocks)]]
  /\ mem \in [Layers -> [Blocks -> [Offsets -> Seqs \cup {None}]]]

\* Counts and free list of every layer are exact for its tables.
Counted ==
  /\ refs \in [Layers -> [Blocks -> Nat]] /\ freeList \in [Layers -> Seq(Blocks)]
  /\ \A l \in Layers : Exact(Entries(table[l]), table[l], refs[l], freeList[l])

\* What is exact in every layer has the types of counts and free lists.
LEMMA CountTypes ==
  ASSUME NEW TT, NEW RR, NEW FF,
         RR = [l \in Layers |-> RR[l]], FF = [l \in Layers |-> FF[l]],
         \A l \in Layers : Exact(Entries(TT[l]), TT[l], RR[l], FF[l])
  PROVE  RR \in [Layers -> [Blocks -> Nat]] /\ FF \in [Layers -> Seq(Blocks)]
<1>1. \A l \in Layers : RR[l] \in [Blocks -> Nat] /\ FF[l] \in Seq(Blocks)
  BY DEF Exact
<1>2. [l \in Layers |-> RR[l]] \in [Layers -> [Blocks -> Nat]]
  BY <1>1
<1>3. [l \in Layers |-> FF[l]] \in [Layers -> Seq(Blocks)]
  BY <1>1
<1> QED
  BY <1>2, <1>3, Zenon

\* The tables are bounded.
TablesBounded ==
  \A l \in Layers, s \in Seqs : Len(table[l][s]) <= BlocksFor(MaxLen)

\* An unknown sequence has no blocks.
NoEntryNoBlocks ==
  \A l \in Layers, s \in Seqs : s \notin tracked => table[l][s] = << >>

PoolSound == PoolTypes /\ Counted /\ TablesBounded /\ NoEntryNoBlocks

\* A bounded table is no longer than the longest sequence.
LEMMA TableLength ==
  ASSUME PoolTypes, TablesBounded, NEW l \in Layers
  PROVE  \A s \in Seqs : Len(table[l][s]) <= MaxLen
<1> TAKE s \in Seqs
<1>1. Len(table[l][s]) <= BlocksFor(MaxLen) /\ Len(table[l][s]) \in Nat
  BY DEF TablesBounded, PoolTypes
<1>2. MaxLen \in Nat /\ BlocksFor(MaxLen) \in Nat /\ BlocksFor(MaxLen) <= MaxLen
  BY PoolAssumption, BlocksForType, BlocksForBound
<1> QED
  BY <1>1, <1>2

\* CreateSequence for a sequence that has no entry.
LEMMA CreateSound ==
  ASSUME PoolSound, NEW s \in Seqs, s \notin tracked, CreateSequence(s)
  PROVE  /\ PoolSound'
         /\ table' = table /\ tracked' = tracked \cup {s}
         /\ seqLen'[s] = 0 /\ \A q \in Seqs \ {s} : seqLen'[q] = seqLen[q]
<1>1. table' = table
  <2>1. \A l \in Layers : table[l] \in [Seqs -> Seq(Blocks)] /\ table[l][s] = << >>
    BY DEF PoolSound, PoolTypes, NoEntryNoBlocks
  <2>2. \A l \in Layers : [table[l] EXCEPT ![s] = << >>] = table[l]
    BY <2>1
  <2>3. table = [l \in Layers |-> table[l]]
    BY DEF PoolSound, PoolTypes
  <2> QED
    BY <2>2, <2>3 DEF CreateSequence
<1>2. /\ tracked' \subseteq Seqs /\ seqLen' \in [Seqs -> Nat]
      /\ btGPU' \in [Layers -> [Seqs -> Seq(Blocks)]]
  <2>1. << >> \in Seq(Blocks)
    OBVIOUS
  <2>2. \A l \in Layers : btGPU[l] \in [Seqs -> Seq(Blocks)]
    BY DEF PoolSound, PoolTypes
  <2>3. \A l \in Layers : [btGPU[l] EXCEPT ![s] = << >>] \in [Seqs -> Seq(Blocks)]
    BY <2>1, <2>2
  <2>4. btGPU' \in [Layers -> [Seqs -> Seq(Blocks)]]
    BY <2>3 DEF CreateSequence
  <2>5. tracked' \subseteq Seqs /\ seqLen' \in [Seqs -> Nat]
    BY DEF CreateSequence, PoolSound, PoolTypes
  <2> QED
    BY <2>4, <2>5
<1>3. dirty' \in [Layers -> [Seqs -> BOOLEAN]]
  BY Zenon DEF CreateSequence, PoolSound, PoolTypes
<1>4. PoolTypes'
  BY <1>1, <1>2, <1>3 DEF CreateSequence, PoolSound, PoolTypes
<1>5. Counted'
  BY <1>1 DEF CreateSequence, PoolSound, Counted, Entries
<1>6. TablesBounded' /\ NoEntryNoBlocks'
  BY <1>1 DEF CreateSequence, PoolSound, TablesBounded, NoEntryNoBlocks
<1> QED
  BY <1>1, <1>4, <1>5, <1>6 DEF CreateSequence, PoolSound, PoolTypes

\* Every table of s is cut after keep(l) blocks and the rest released.
LEMMA CutSound ==
  ASSUME PoolSound, NEW s \in Seqs, NEW K \in [Layers -> Nat],
         \A l \in Layers : K[l] <= Len(table[l][s]),
         NEW D, \A l \in Layers : D[l] = SubSeq(table[l][s], K[l] + 1, Len(table[l][s])),
         table' = [l \in Layers |-> [table[l] EXCEPT ![s] = SubSeq(table[l][s], 1, K[l])]],
         refs' = [l \in Layers |-> Release(l, D[l]).refs],
         freeList' = [l \in Layers |-> Release(l, D[l]).free]
  PROVE  /\ Counted' /\ TablesBounded'
         /\ table' \in [Layers -> [Seqs -> Seq(Blocks)]]
         /\ \A l \in Layers : /\ Len(table'[l][s]) = K[l]
                              /\ \A q \in Seqs \ {s} : table'[l][q] = table[l][q]
<1>1. ASSUME NEW l \in Layers
      PROVE  /\ Exact(Entries(table'[l]), table'[l], refs'[l], freeList'[l])
             /\ table'[l] \in [Seqs -> Seq(Blocks)]
             /\ Len(table'[l][s]) = K[l]
             /\ \A q \in Seqs \ {s} : table'[l][q] = table[l][q]
  <2>1. table[l] \in [Seqs -> Seq(Blocks)]
    BY DEF PoolSound, PoolTypes
  <2>2. PICK T \in [Seqs -> Seq(Blocks)] : T = table[l]
    BY <2>1
  <2>3. \A q \in Seqs : Len(T[q]) <= MaxLen
    BY <2>2, TableLength DEF PoolSound
  <2>4. PICK keep \in 0..Len(T[s]) : keep = K[l]
    BY <2>2
  <2>5. PICK t : t = SubSeq(T[s], keep + 1, Len(T[s]))
    OBVIOUS
  <2>6. PICK T2 : T2 = [T EXCEPT ![s] = SubSeq(T[s], 1, keep)]
    OBVIOUS
  <2>7. Exact(Entries(T), T, refs[l], freeList[l])
    BY <2>2 DEF PoolSound, Counted
  <2>8. Exact(Entries(T2), T2, Release(l, t).refs, Release(l, t).free)
    BY <2>3, <2>5, <2>6, <2>7, CutExact
  <2>9. table'[l] = T2 /\ D[l] = t
    BY <2>2, <2>4, <2>5, <2>6
  <2>10. refs'[l] = Release(l, t).refs /\ freeList'[l] = Release(l, t).free
    BY <2>9
  <2>11. T2 \in [Seqs -> Seq(Blocks)] /\ Len(T2[s]) = keep /\ \A q \in Seqs \ {s} : T2[q] = T[q]
    <3>1. PICK u \in Seq(Blocks) : u = T[s]
      OBVIOUS
    <3>2. SubSeq(u, 1, keep) \in Seq(Blocks) /\ Len(SubSeq(u, 1, keep)) = keep
      BY <3>1
    <3> QED
      BY <2>6, <3>1, <3>2
  <2>12. Exact(Entries(table'[l]), table'[l], refs'[l], freeList'[l])
    BY <2>8, <2>9, <2>10
  <2> QED
    BY <2>2, <2>4, <2>9, <2>11, <2>12
<1>2. Counted'
  <2>1. refs' = [l \in Layers |-> refs'[l]] /\ freeList' = [l \in Layers |-> freeList'[l]]
    OBVIOUS
  <2>3. \A l \in Layers : Exact(Entries(table'[l]), table'[l], refs'[l], freeList'[l])
    BY <1>1, Zenon
  <2>4. PICK TT, RR, FF : TT = table' /\ RR = refs' /\ FF = freeList'
    OBVIOUS
  <2>5. RR = [l \in Layers |-> RR[l]] /\ FF = [l \in Layers |-> FF[l]]
    BY <2>1, <2>4, Zenon
  <2>6. \A l \in Layers : Exact(Entries(TT[l]), TT[l], RR[l], FF[l])
    BY <2>3, <2>4, Zenon
  <2>2. refs' \in [Layers -> [Blocks -> Nat]] /\ freeList' \in [Layers -> Seq(Blocks)]
    <3>1. \A l \in Layers : RR[l] \in [Blocks -> Nat] /\ FF[l] \in Seq(Blocks)
      BY <2>6 DEF Exact
    <3>2. [l \in Layers |-> RR[l]] \in [Layers -> [Blocks -> Nat]]
      BY <3>1, Zenon
    <3>3. [l \in Layers |-> FF[l]] \in [Layers -> Seq(Blocks)]
      BY <3>1, Zenon
    <3> QED
      BY <2>4, <2>5, <3>2, <3>3, Zenon
  <2> QED
    BY <1>1, <2>2 DEF Counted
<1>3. table' \in [Layers -> [Seqs -> Seq(Blocks)]]
  BY <1>1
<1>4. TablesBounded'
  <2>1. BlocksFor(MaxLen)' = BlocksFor(MaxLen)
    BY DEF BlocksFor
  <2>2. ASSUME NEW l \in Layers, NEW q \in Seqs PROVE Len(table'[l][q]) <= BlocksFor(MaxLen)
    <3>1. Len(table[l][q]) <= BlocksFor(MaxLen) /\ Len(table[l][q]) \in Nat /\ BlocksFor(MaxLen) \in Nat
      BY PoolAssumption, BlocksForType DEF PoolSound, PoolTypes, TablesBounded
    <3>2. CASE q = s
      BY <1>1, <3>1, <3>2
    <3>3. CASE q # s
      BY <1>1, <3>1, <3>3
    <3> QED
      BY <3>2, <3>3
  <2> QED
    BY <2>2 DEF TablesBounded
<1> QED
  BY <1>1, <1>2, <1>3, <1>4

\* A sequence is its own full cut, and nothing is cut to length 0.
LEMMA CutEnds ==
  ASSUME NEW t \in Seq(Blocks)
  PROVE  SubSeq(t, 1, 0) = << >> /\ SubSeq(t, 1, Len(t)) = t
         /\ SubSeq(t, Len(t) + 1, Len(t)) = << >>
OBVIOUS

\* DeleteSequence.
LEMMA DeleteSound ==
  ASSUME PoolSound, NEW s \in Seqs, DeleteSequence(s)
  PROVE  /\ PoolSound'
         /\ tracked' = tracked \ {s}
         /\ \A q \in Seqs \ {s} : /\ seqLen'[q] = seqLen[q]
                                  /\ \A l \in Layers : table'[l][q] = table[l][q]
<1>1. CASE s \notin tracked
  <2>1. UNCHANGED poolVars
    BY <1>1 DEF DeleteSequence
  <2>2. PoolSound'
    BY <2>1 DEF poolVars, PoolSound, PoolTypes, Counted, TablesBounded, NoEntryNoBlocks, Exact,
                Naming, Entries
  <2> QED
    BY <1>1, <2>1, <2>2 DEF poolVars
<1>2. CASE s \in tracked
  <2>1. PICK K \in [Layers -> Nat] : K = [l \in Layers |-> 0]
    OBVIOUS
  <2>2. PICK D : D = [l \in Layers |-> table[l][s]]
    OBVIOUS
  <2>3. \A l \in Layers : table[l][s] \in Seq(Blocks)
    BY DEF PoolSound, PoolTypes
  <2>4. \A l \in Layers : K[l] <= Len(table[l][s])
    BY <2>1, <2>3
  <2>5. \A l \in Layers : D[l] = SubSeq(table[l][s], K[l] + 1, Len(table[l][s]))
    <3> TAKE l \in Layers
    <3>1. PICK t \in Seq(Blocks) : t = table[l][s]
      BY <2>3
    <3>2. K[l] + 1 = 1 /\ D[l] = t
      BY <2>1, <2>2, <3>1
    <3> QED
      BY <3>1, <3>2, CutEnds
  <2>6. \A l \in Layers : SubSeq(table[l][s], 1, K[l]) = << >>
    BY <2>1, <2>3, CutEnds
  <2>7. table' = [l \in Layers |-> [table[l] EXCEPT ![s] = << >>]]
    BY <1>2 DEF DeleteSequence
  <2>8. table' = [l \in Layers |-> [table[l] EXCEPT ![s] = SubSeq(table[l][s], 1, K[l])]]
    BY <2>6, <2>7
  <2>9. /\ refs' = [l \in Layers |-> Release(l, D[l]).refs]
        /\ freeList' = [l \in Layers |-> Release(l, D[l]).free]
    BY <1>2, <2>2 DEF DeleteSequence
  <2>10. /\ Counted' /\ TablesBounded'
         /\ table' \in [Layers -> [Seqs -> Seq(Blocks)]]
         /\ \A l \in Layers : /\ Len(table'[l][s]) = K[l]
                              /\ \A q \in Seqs \ {s} : table'[l][q] = table[l][q]
    BY <2>4, <2>5, <2>8, <2>9, CutSound
  <2>11. dirty' \in [Layers -> [Seqs -> BOOLEAN]]
    <3>1. dirty' = [l \in Layers |-> [dirty[l] EXCEPT ![s] = FALSE]]
      BY <1>2 DEF DeleteSequence
    <3> QED
      BY <3>1, Zenon DEF PoolSound, PoolTypes
  <2>12. btGPU' \in [Layers -> [Seqs -> Seq(Blocks)]]
    <3>1. << >> \in Seq(Blocks) /\ \A l \in Layers : btGPU[l] \in [Seqs -> Seq(Blocks)]
      BY DEF PoolSound, PoolTypes
    <3>2. \A l \in Layers : [btGPU[l] EXCEPT ![s] = << >>] \in [Seqs -> Seq(Blocks)]
      BY <3>1
    <3>3. btGPU' = [l \in Layers |-> [btGPU[l] EXCEPT ![s] = << >>]]
      BY <1>2 DEF DeleteSequence
    <3> QED
      BY <3>2, <3>3, Zenon
  <2>13. /\ tracked' = tracked \ {s} /\ seqLen' = [seqLen EXCEPT ![s] = 0] /\ mem' = mem
    BY <1>2 DEF DeleteSequence
  <2>14. seqLen' \in [Seqs -> Nat] /\ \A q \in Seqs \ {s} : seqLen'[q] = seqLen[q]
    BY <2>13 DEF PoolSound, PoolTypes
  <2>15. PoolTypes'
    BY <2>10, <2>11, <2>12, <2>13, <2>14 DEF PoolSound, PoolTypes
  <2>16. NoEntryNoBlocks'
    <3>1. \A l \in Layers : table'[l][s] = << >>
      BY <2>7 DEF PoolSound, PoolTypes
    <3>2. ASSUME NEW l \in Layers, NEW q \in Seqs, q \notin tracked' PROVE table'[l][q] = << >>
      <4>1. CASE q = s
        BY <3>1, <4>1
      <4>2. CASE q # s
        <5>1. q \notin tracked /\ table'[l][q] = table[l][q]
          BY <2>10, <2>13, <3>2, <4>2
        <5> QED
          BY <5>1 DEF PoolSound, NoEntryNoBlocks
      <4> QED
        BY <4>1, <4>2
    <3> QED
      BY <3>2 DEF NoEntryNoBlocks
  <2> QED
    BY <2>10, <2>13, <2>14, <2>15, <2>16 DEF PoolSound
<1> QED
  BY <1>1, <1>2

\* TruncateSequence to a length the sequence has.
LEMMA TruncateSound ==
  ASSUME PoolSound, NEW s \in Seqs, NEW len \in Nat, TruncateSequence(s, len)
  PROVE  /\ PoolSound' /\ tracked' = tracked
         /\ \A q \in Seqs \ {s} : /\ seqLen'[q] = seqLen[q]
                                  /\ \A l \in Layers : table'[l][q] = table[l][q]
         /\ seqLen'[s] = IF s \in tracked /\ len < seqLen[s] THEN len ELSE seqLen[s]
         /\ \A l \in Layers : Len(table'[l][s]) =
              IF s \in tracked /\ len < seqLen[s] /\ BlocksFor(len) < Len(table[l][s])
                THEN BlocksFor(len) ELSE Len(table[l][s])
<1>0. seqLen[s] \in Nat /\ BlocksFor(len) \in Nat /\ \A l \in Layers : table[l][s] \in Seq(Blocks)
  BY BlocksForType DEF PoolSound, PoolTypes
<1>1. CASE s \notin tracked \/ len >= seqLen[s]
  <2>1. UNCHANGED poolVars
    BY <1>1 DEF TruncateSequence
  <2>2. PoolSound'
    BY <2>1 DEF poolVars, PoolSound, PoolTypes, Counted, TablesBounded, NoEntryNoBlocks, Exact,
                Naming, Entries
  <2> QED
    BY <1>0, <1>1, <2>1, <2>2 DEF poolVars
<1>2. CASE ~(s \notin tracked \/ len >= seqLen[s])
  <2> DEFINE keep == BlocksFor(len)
             cut(l) == Len(table[l][s]) > keep
             dropped(l) == IF cut(l) THEN Suffix(table[l][s], keep + 1) ELSE << >>
  <2>1. /\ refs' = [l \in Layers |-> Release(l, dropped(l)).refs]
        /\ freeList' = [l \in Layers |-> Release(l, dropped(l)).free]
        /\ table' = [l \in Layers |-> [table[l] EXCEPT
                       ![s] = IF cut(l) THEN SubSeq(table[l][s], 1, keep) ELSE table[l][s]]]
        /\ dirty' = [l \in Layers |-> [dirty[l] EXCEPT ![s] = dirty[l][s] \/ cut(l)]]
        /\ seqLen' = [seqLen EXCEPT ![s] = len]
        /\ UNCHANGED <<tracked, btGPU, mem>>
    BY <1>2 DEF TruncateSequence
  <2>2. \A l \in Layers : (IF cut(l) THEN keep ELSE Len(table[l][s])) \in Nat
    BY <1>0
  <2>3. PICK K \in [Layers -> Nat] : K = [l \in Layers |-> IF cut(l) THEN keep ELSE Len(table[l][s])]
    BY <2>2
  <2>4. PICK D : D = [l \in Layers |-> dropped(l)]
    OBVIOUS
  <2>5. ASSUME NEW l \in Layers
        PROVE  /\ K[l] <= Len(table[l][s])
               /\ D[l] = SubSeq(table[l][s], K[l] + 1, Len(table[l][s]))
               /\ SubSeq(table[l][s], 1, K[l]) = IF cut(l) THEN SubSeq(table[l][s], 1, keep) ELSE table[l][s]
    <3>1. PICK t \in Seq(Blocks) : t = table[l][s]
      BY <1>0
    <3>2. PICK n \in Nat : n = Len(t)
      OBVIOUS
    <3>3. CASE n > keep
      <4>1. K[l] = keep /\ D[l] = SubSeq(t, keep + 1, n)
        BY <2>3, <2>4, <3>1, <3>2, <3>3 DEF Suffix
      <4> QED
        BY <1>0, <3>1, <3>2, <3>3, <4>1
    <3>4. CASE ~(n > keep)
      <4>1. K[l] = n /\ D[l] = << >>
        BY <2>3, <2>4, <3>1, <3>2, <3>4
      <4>2. SubSeq(t, 1, n) = t /\ SubSeq(t, n + 1, n) = << >>
        BY <3>2, CutEnds
      <4>3. K[l] <= Len(table[l][s]) /\ ~cut(l)
        BY <3>1, <3>2, <3>4, <4>1
      <4>4. D[l] = SubSeq(table[l][s], K[l] + 1, Len(table[l][s]))
        BY <3>1, <3>2, <4>1, <4>2
      <4>5. SubSeq(table[l][s], 1, K[l]) = table[l][s]
        BY <3>1, <4>1, <4>2
      <4> QED
        BY <4>3, <4>4, <4>5, Zenon
    <3> QED
      BY <3>3, <3>4
  <2>6. table' = [l \in Layers |-> [table[l] EXCEPT ![s] = SubSeq(table[l][s], 1, K[l])]]
    BY <2>1, <2>5, Zenon
  <2>7. /\ refs' = [l \in Layers |-> Release(l, D[l]).refs]
        /\ freeList' = [l \in Layers |-> Release(l, D[l]).free]
    BY <2>1, <2>4, Zenon
  <2>10. /\ Counted' /\ TablesBounded'
         /\ table' \in [Layers -> [Seqs -> Seq(Blocks)]]
         /\ \A l \in Layers : /\ Len(table'[l][s]) = K[l]
                              /\ \A q \in Seqs \ {s} : table'[l][q] = table[l][q]
    <3>1. \A l \in Layers : K[l] <= Len(table[l][s])
      BY <2>5
    <3>2. \A l \in Layers : D[l] = SubSeq(table[l][s], K[l] + 1, Len(table[l][s]))
      BY <2>5
    <3> HIDE DEF cut, dropped, keep
    <3> QED
      BY <2>6, <2>7, <3>1, <3>2, CutSound
  <2>11. dirty' \in [Layers -> [Seqs -> BOOLEAN]]
    <3> HIDE DEF cut
    <3>1. \A l \in Layers : cut(l) \in BOOLEAN
      BY DEF cut
    <3>2. \A l \in Layers : dirty[l][s] \in BOOLEAN
      BY Zenon DEF PoolSound, PoolTypes
    <3>3. \A l \in Layers : (dirty[l][s] \/ cut(l)) \in BOOLEAN
      BY <3>1, <3>2, Zenon
    <3> QED
      BY <2>1, <3>3, Zenon DEF PoolSound, PoolTypes
  <2>14. seqLen' \in [Seqs -> Nat] /\ seqLen'[s] = len /\ \A q \in Seqs \ {s} : seqLen'[q] = seqLen[q]
    BY <2>1 DEF PoolSound, PoolTypes
  <2>15. PoolTypes'
    BY <2>1, <2>10, <2>11, <2>14 DEF PoolSound, PoolTypes
  <2>16. NoEntryNoBlocks'
    <3>1. s \in tracked /\ tracked' = tracked
      BY <1>2, <2>1
    <3>2. ASSUME NEW l \in Layers, NEW q \in Seqs, q \notin tracked' PROVE table'[l][q] = << >>
      <4>1. q # s /\ q \notin tracked /\ table'[l][q] = table[l][q]
        BY <2>10, <3>1, <3>2
      <4> QED
        BY <4>1 DEF PoolSound, NoEntryNoBlocks
    <3> QED
      BY <3>2 DEF NoEntryNoBlocks
  <2>17. \A l \in Layers : Len(table'[l][s]) =
              IF BlocksFor(len) < Len(table[l][s]) THEN BlocksFor(len) ELSE Len(table[l][s])
    BY <1>0, <2>3, <2>10
  <2>18. s \in tracked /\ len < seqLen[s]
    BY <1>0, <1>2
  <2> QED
    BY <2>1, <2>10, <2>14, <2>15, <2>16, <2>17, <2>18 DEF PoolSound
<1> QED
  BY <1>1, <1>2

\* The loop of StoreKV that takes m blocks.
LEMMA GrowSound ==
  ASSUME PoolSound, NEW l \in Layers, NEW s \in Seqs, s \in tracked,
         NEW m \in 0..Len(freeList[l]), Len(table[l][s]) + m <= BlocksFor(MaxLen),
         Grow(l, s, m), tracked' = tracked
  PROVE  /\ Counted' /\ TablesBounded' /\ NoEntryNoBlocks'
         /\ table' \in [Layers -> [Seqs -> Seq(Blocks)]]
         /\ dirty' \in [Layers -> [Seqs -> BOOLEAN]]
         /\ Len(table'[l][s]) = Len(table[l][s]) + m
         /\ \A q \in Seqs \ {s} : table'[l][q] = table[l][q]
         /\ \A k \in Layers \ {l} : table'[k] = table[k]
<1>1. /\ table \in [Layers -> [Seqs -> Seq(Blocks)]]
      /\ refs \in [Layers -> [Blocks -> Nat]] /\ freeList \in [Layers -> Seq(Blocks)]
  BY DEF PoolSound, PoolTypes, Counted
<1>2. PICK T \in [Seqs -> Seq(Blocks)] : T = table[l]
  BY <1>1
<1>3. PICK R, F : R = refs[l] /\ F = freeList[l]
  OBVIOUS
<1>4. PICK new : new = Taken(l, m)
  OBVIOUS
<1>5. new = [i \in 1..m |-> F[Len(F) + 1 - i]]
  BY <1>3, <1>4 DEF Taken
<1>6. PICK T2 : T2 = [T EXCEPT ![s] = T[s] \o new]
  OBVIOUS
<1>7. PICK R2 : R2 = [b \in Blocks |-> IF \E i \in DOMAIN new : new[i] = b THEN 1 ELSE R[b]]
  OBVIOUS
<1>8. PICK F2 : F2 = SubSeq(F, 1, Len(F) - m)
  OBVIOUS
<1>9. table' = [table EXCEPT ![l] = T2]
  <2>1. table' = [table EXCEPT ![l][s] = @ \o new]
    BY <1>4 DEF Grow
  <2> QED
    BY <1>1, <1>2, <1>6, <2>1
<1>10. refs' = [refs EXCEPT ![l] = R2]
  <2>1. refs' = [refs EXCEPT ![l] = [b \in Blocks |->
                   IF \E i \in DOMAIN new : new[i] = b THEN 1 ELSE refs[l][b]]]
    BY <1>4 DEF Grow
  <2> QED
    BY <1>3, <1>7, <2>1
<1>11. freeList' = [freeList EXCEPT ![l] = F2]
  BY <1>3, <1>8 DEF Grow
<1>12. Exact(Entries(T), T, R, F)
  BY <1>2, <1>3 DEF PoolSound, Counted
<1>13. \A q \in Seqs : Len(T[q]) <= MaxLen
  BY <1>2, TableLength DEF PoolSound
<1>14. m \in 0..Len(F) /\ Len(T[s]) + m <= BlocksFor(MaxLen) /\ F \in Seq(Blocks)
  BY <1>2, <1>3, <1>12 DEF Exact
<1>15. Len(T[s]) + m <= MaxLen
  <2>1. Len(T[s]) \in Nat /\ m \in Nat
    BY <1>14
  <2>2. MaxLen \in Nat /\ BlocksFor(MaxLen) \in Nat /\ BlocksFor(MaxLen) <= MaxLen
    BY PoolAssumption, BlocksForType, BlocksForBound
  <2> QED
    BY <1>14, <2>1, <2>2
<1>16. /\ Exact(Entries(T2), T2, R2, F2)
       /\ T2 \in [Seqs -> Seq(Blocks)] /\ Len(T2[s]) = Len(T[s]) + m
       /\ \A q \in Seqs \ {s} : T2[q] = T[q]
  <2>1. PICK j \in 0..Len(F) : j = m
    BY <1>14
  <2>2. Len(T[s]) + j <= MaxLen /\ F2 = SubSeq(F, 1, Len(F) - j)
    BY <1>8, <1>15, <2>1
  <2>3. new = [i \in 1..j |-> F[Len(F) + 1 - i]]
    BY <1>5, <2>1
  <2>4. Grown(T, R, F, s, j, T2, R2, F2)
    BY <1>6, <1>7, <2>2, <2>3, Zenon DEF Grown
  <2>5. /\ Exact(Entries(T2), T2, R2, F2)
        /\ T2 \in [Seqs -> Seq(Blocks)] /\ Len(T2[s]) = Len(T[s]) + j
        /\ \A q \in Seqs \ {s} : T2[q] = T[q]
    BY <1>12, <1>13, <2>2, <2>4, GrowExact, SMTT(30)
  <2> QED
    BY <2>1, <2>5
<1>17. /\ table'[l] = T2 /\ refs'[l] = R2 /\ freeList'[l] = F2
       /\ \A k \in Layers \ {l} : table'[k] = table[k] /\ refs'[k] = refs[k] /\ freeList'[k] = freeList[k]
       /\ refs' = [k \in Layers |-> refs'[k]] /\ freeList' = [k \in Layers |-> freeList'[k]]
  BY <1>1, <1>9, <1>10, <1>11
<1>18. table' \in [Layers -> [Seqs -> Seq(Blocks)]]
  BY <1>1, <1>9, <1>16
<1>19. Counted'
  <2>1. ASSUME NEW k \in Layers PROVE Exact(Entries(table'[k]), table'[k], refs'[k], freeList'[k])
    <3>1. CASE k = l
      BY <1>16, <1>17, <3>1
    <3>2. CASE k # l
      <4>1. table'[k] = table[k] /\ refs'[k] = refs[k] /\ freeList'[k] = freeList[k]
        BY <1>17, <3>2
      <4>2. Exact(Entries(table[k]), table[k], refs[k], freeList[k])
        BY DEF PoolSound, Counted
      <4> QED
        BY <4>1, <4>2
    <3> QED
      BY <3>1, <3>2
  <2>2. refs' \in [Layers -> [Blocks -> Nat]] /\ freeList' \in [Layers -> Seq(Blocks)]
    BY <1>17, <2>1, CountTypes
  <2> QED
    BY <2>1, <2>2 DEF Counted
<1>20. ASSUME NEW k \in Layers, NEW q \in Seqs
       PROVE  /\ Len(table'[k][q]) <= BlocksFor(MaxLen)
              /\ q \notin tracked => table'[k][q] = << >>
  <2>1. CASE k = l /\ q = s
    <3>1. Len(table'[k][q]) = Len(table[l][s]) + m
      BY <1>2, <1>16, <1>17, <2>1
    <3> QED
      BY <2>1, <3>1
  <2>2. CASE ~(k = l /\ q = s)
    <3>1. table'[k][q] = table[k][q]
      <4>1. CASE k = l
        BY <1>2, <1>16, <1>17, <2>2, <4>1
      <4>2. CASE k # l
        BY <1>17, <4>2
      <4> QED
        BY <4>1, <4>2
    <3> QED
      BY <3>1 DEF PoolSound, TablesBounded, NoEntryNoBlocks
  <2> QED
    BY <2>1, <2>2
<1>21. TablesBounded' /\ NoEntryNoBlocks'
  BY <1>20 DEF TablesBounded, NoEntryNoBlocks
<1>22. dirty' \in [Layers -> [Seqs -> BOOLEAN]]
  <2>1. PICK d : d = (dirty[l][s] \/ m > 0)
    OBVIOUS
  <2>2. dirty' = [dirty EXCEPT ![l][s] = d]
    BY <2>1 DEF Grow
  <2>3. dirty \in [Layers -> [Seqs -> BOOLEAN]]
    BY DEF PoolSound, PoolTypes
  <2>4. d \in BOOLEAN
    BY <2>1, <2>3, Zenon
  <2> QED
    BY <2>2, <2>3, <2>4, Zenon
<1> QED
  BY <1>2, <1>16, <1>17, <1>18, <1>19, <1>21, <1>22

\* StoreKV with enough blocks.
LEMMA StoreSound ==
  ASSUME PoolSound, NEW l \in Layers, NEW s \in Seqs, NEW start \in Nat, NEW n \in Nat,
         start + n <= MaxLen, CanStoreKV(l, s, start, n), StoreKV(l, s, start, n)
  PROVE  /\ PoolSound' /\ tracked' = tracked
         /\ \A q \in Seqs \ {s} : seqLen'[q] = seqLen[q] /\ table'[l][q] = table[l][q]
         /\ seqLen'[s] = IF start + n > seqLen[s] THEN start + n ELSE seqLen[s]
         /\ \A k \in Layers \ {l} : table'[k] = table[k]
         /\ Len(table'[l][s]) = IF BlocksFor(start + n) > Len(table[l][s])
                                  THEN BlocksFor(start + n) ELSE Len(table[l][s])
<1>1. /\ start + n \in Nat /\ MaxLen \in Nat
      /\ BlocksFor(start + n) \in Nat /\ BlocksFor(start + n) <= BlocksFor(MaxLen)
      /\ BlocksFor(MaxLen) \in Nat
  <2>1. start + n \in Nat /\ MaxLen \in Nat
    BY PoolAssumption
  <2>2. PICK e \in Nat : e = start + n /\ e <= MaxLen
    BY <2>1
  <2>3. BlocksFor(e) \in Nat /\ BlocksFor(e) <= BlocksFor(MaxLen) /\ BlocksFor(MaxLen) \in Nat
    BY <2>1, <2>2, BlocksForType, BlocksForMono
  <2> QED
    BY <2>1, <2>2, <2>3
<1>2. Len(table[l][s]) \in Nat /\ Len(table[l][s]) <= BlocksFor(MaxLen) /\ s \in tracked
  BY DEF PoolSound, PoolTypes, TablesBounded, CanStoreKV
<1>3. Len(freeList[l]) \in Nat
  BY DEF PoolSound, Counted, Exact
<1>4. PICK m : m = Missing(l, s, start + n)
  OBVIOUS
<1>5. m = IF BlocksFor(start + n) > Len(table[l][s]) THEN BlocksFor(start + n) - Len(table[l][s]) ELSE 0
  BY <1>4 DEF Missing
<1>6. m \in 0..Len(freeList[l]) /\ Len(table[l][s]) + m <= BlocksFor(MaxLen)
  <2>1. m <= Len(freeList[l])
    BY <1>4 DEF CanStoreKV
  <2> QED
    BY <1>1, <1>2, <1>3, <1>5, <2>1, SMTT(30)
<1>7. Grow(l, s, m) /\ tracked' = tracked /\ btGPU' = btGPU
  BY <1>4 DEF StoreKV
<1>8. /\ Counted' /\ TablesBounded' /\ NoEntryNoBlocks'
      /\ table' \in [Layers -> [Seqs -> Seq(Blocks)]]
      /\ dirty' \in [Layers -> [Seqs -> BOOLEAN]]
      /\ Len(table'[l][s]) = Len(table[l][s]) + m
      /\ \A q \in Seqs \ {s} : table'[l][q] = table[l][q]
      /\ \A k \in Layers \ {l} : table'[k] = table[k]
  BY <1>2, <1>6, <1>7, GrowSound
<1>9. /\ seqLen' \in [Seqs -> Nat]
      /\ seqLen'[s] = IF start + n > seqLen[s] THEN start + n ELSE seqLen[s]
      /\ \A q \in Seqs \ {s} : seqLen'[q] = seqLen[q]
  BY <1>1 DEF StoreKV, PoolSound, PoolTypes
<1>10. mem' \in [Layers -> [Blocks -> [Offsets -> Seqs \cup {None}]]]
  <2> DEFINE W == [b \in Blocks |-> [o \in Offsets |->
       IF \E p \in start..(start + n - 1) :
            BlockOf(table'[l][s], p) = b /\ p % BlockSize = o
         THEN s ELSE mem[l][b][o]]]
  <2>1. mem' = [mem EXCEPT ![l] = W]
    BY DEF StoreKV
  <2>2. W \in [Blocks -> [Offsets -> Seqs \cup {None}]]
    <3>1. \A b \in Blocks, o \in Offsets : mem[l][b][o] \in Seqs \cup {None}
      BY DEF PoolSound, PoolTypes
    <3> QED
      BY <3>1, Zenon
  <2> HIDE DEF W
  <2> QED
    BY <2>1, <2>2 DEF PoolSound, PoolTypes
<1>11. PoolTypes'
  BY <1>7, <1>8, <1>9, <1>10 DEF PoolSound, PoolTypes
<1>12. Len(table'[l][s]) = IF BlocksFor(start + n) > Len(table[l][s])
                             THEN BlocksFor(start + n) ELSE Len(table[l][s])
  BY <1>1, <1>2, <1>5, <1>8
<1> QED
  BY <1>7, <1>8, <1>9, <1>11, <1>12 DEF PoolSound

\* Nothing of the pool changes.
LEMMA SameSound ==
  ASSUME PoolSound, UNCHANGED poolVars
  PROVE  PoolSound' /\ tracked' = tracked /\ table' = table /\ seqLen' = seqLen
BY DEF poolVars, PoolSound, PoolTypes, Counted, TablesBounded, NoEntryNoBlocks, Exact, Naming, Entries

\* A store that runs out of blocks takes fewer than it was missing.
LEMMA FailGrows ==
  ASSUME PoolSound, NEW l \in Layers, NEW s \in Seqs, NEW start \in Nat, NEW n \in Nat,
         start + n <= MaxLen, s \in tracked, ~CanStoreKV(l, s, start, n)
  PROVE  \E m \in Nat : /\ m = Len(freeList[l]) /\ m \in 0..Len(freeList[l])
                        /\ Len(table[l][s]) + m <= BlocksFor(MaxLen)
<1>1. /\ BlocksFor(start + n) \in Nat /\ BlocksFor(start + n) <= BlocksFor(MaxLen)
      /\ BlocksFor(MaxLen) \in Nat
  <2>1. start + n \in Nat /\ MaxLen \in Nat
    BY PoolAssumption
  <2>2. PICK e \in Nat : e = start + n /\ e <= MaxLen
    BY <2>1
  <2>3. BlocksFor(e) \in Nat /\ BlocksFor(e) <= BlocksFor(MaxLen) /\ BlocksFor(MaxLen) \in Nat
    BY <2>1, <2>2, BlocksForType, BlocksForMono
  <2> QED
    BY <2>2, <2>3
<1>2. Len(table[l][s]) \in Nat /\ Len(table[l][s]) <= BlocksFor(MaxLen)
  BY DEF PoolSound, PoolTypes, TablesBounded
<1>3. PICK m \in Nat : m = Len(freeList[l])
  <2>1. freeList[l] \in Seq(Blocks)
    BY DEF PoolSound, Counted, Exact
  <2> QED
    BY <2>1
<1>4. Missing(l, s, start + n) > m
  <2>1. ~(Missing(l, s, start + n) <= m)
    BY <1>3 DEF CanStoreKV
  <2>2. Missing(l, s, start + n) \in Int
    BY <1>1, <1>2 DEF Missing
  <2> QED
    BY <1>3, <2>1, <2>2
<1>5. Len(table[l][s]) + m <= BlocksFor(MaxLen) /\ m \in 0..Len(freeList[l])
  <2>1. PICK a \in Nat : a = Len(table[l][s]) /\ a <= BlocksFor(MaxLen)
    BY <1>2
  <2>2. PICK w \in Nat : w = BlocksFor(start + n) /\ w <= BlocksFor(MaxLen)
    BY <1>1
  <2>3. PICK x \in Nat : x = BlocksFor(MaxLen)
    BY <1>1
  <2>4. (IF w > a THEN w - a ELSE 0) > m
    BY <1>4, <2>1, <2>2 DEF Missing
  <2>5. a + m <= x
    BY <2>1, <2>2, <2>3, <2>4
  <2>6. m \in 0..m
    BY <1>3
  <2>7. m \in 0..Len(freeList[l])
    BY <1>3, <2>6, Zenon
  <2>8. Len(table[l][s]) + m <= BlocksFor(MaxLen)
    BY <2>1, <2>3, <2>5, Zenon
  <2> QED
    BY <2>7, <2>8, Zenon
<1> QED
  BY <1>3, <1>5

\* StoreKV without enough blocks: those taken stay.
LEMMA FailStoreSound ==
  ASSUME PoolSound, NEW l \in Layers, NEW s \in Seqs, NEW start \in Nat, NEW n \in Nat,
         start + n <= MaxLen, ~CanStoreKV(l, s, start, n), FailStoreKV(l, s)
  PROVE  /\ PoolSound' /\ tracked' = tracked /\ seqLen' = seqLen
         /\ \A q \in Seqs \ {s} : table'[l][q] = table[l][q]
         /\ \A k \in Layers \ {l} : table'[k] = table[k]
<1>1. CASE s \notin tracked
  <2>1. UNCHANGED poolVars
    BY <1>1 DEF FailStoreKV
  <2> QED
    BY <2>1, SameSound
<1>2. CASE s \in tracked
  <2>1. PICK m \in Nat : /\ m = Len(freeList[l]) /\ m \in 0..Len(freeList[l])
                         /\ Len(table[l][s]) + m <= BlocksFor(MaxLen)
    BY <1>2, FailGrows
  <2>2. Grow(l, s, m) /\ tracked' = tracked /\ btGPU' = btGPU /\ mem' = mem /\ seqLen' = seqLen
    BY <1>2, <2>1 DEF FailStoreKV
  <2>3. /\ Counted' /\ TablesBounded' /\ NoEntryNoBlocks'
        /\ table' \in [Layers -> [Seqs -> Seq(Blocks)]]
        /\ dirty' \in [Layers -> [Seqs -> BOOLEAN]]
        /\ Len(table'[l][s]) = Len(table[l][s]) + m
        /\ \A q \in Seqs \ {s} : table'[l][q] = table[l][q]
        /\ \A k \in Layers \ {l} : table'[k] = table[k]
    BY <1>2, <2>1, <2>2, GrowSound
  <2>4. PoolTypes'
    BY <2>2, <2>3 DEF PoolSound, PoolTypes
  <2> QED
    BY <2>2, <2>3, <2>4 DEF PoolSound
<1> QED
  BY <1>1, <1>2

\* Attention uploads a table at most.
LEMMA AttentionSound ==
  ASSUME PoolSound, NEW l \in Layers, NEW s \in Seqs, Attention(l, s)
  PROVE  PoolSound' /\ tracked' = tracked /\ table' = table /\ seqLen' = seqLen
<1>1. tracked' = tracked /\ table' = table /\ seqLen' = seqLen /\ mem' = mem
      /\ refs' = refs /\ freeList' = freeList
  BY DEF Attention
<1>2. dirty' \in [Layers -> [Seqs -> BOOLEAN]]
  <2>1. dirty' = [dirty EXCEPT ![l][s] = FALSE]
    BY DEF Attention
  <2> QED
    BY <2>1, Zenon DEF PoolSound, PoolTypes
<1>3. btGPU' \in [Layers -> [Seqs -> Seq(Blocks)]]
  <2>1. PICK t : t = IF dirty[l][s] \/ btGPU[l][s] = << >> THEN table[l][s] ELSE btGPU[l][s]
    OBVIOUS
  <2>2. btGPU' = [btGPU EXCEPT ![l][s] = t]
    BY <2>1 DEF Attention
  <2>3. table[l][s] \in Seq(Blocks) /\ btGPU[l][s] \in Seq(Blocks)
    BY DEF PoolSound, PoolTypes
  <2>4. t \in Seq(Blocks)
    BY <2>1, <2>3, Zenon
  <2> QED
    BY <2>2, <2>4 DEF PoolSound, PoolTypes
<1>4. PoolTypes'
  BY <1>1, <1>2, <1>3 DEF PoolSound, PoolTypes
<1>5. Counted' /\ TablesBounded' /\ NoEntryNoBlocks'
  <2>1. Counted'
    BY <1>1 DEF PoolSound, Counted
  <2> QED
    BY <1>1, <2>1 DEF PoolSound, TablesBounded, NoEntryNoBlocks
<1> QED
  BY <1>1, <1>4, <1>5 DEF PoolSound

\* ShareBlocks into an empty table.
LEMMA ShareSound ==
  ASSUME PoolSound, NEW src \in Seqs, NEW dst \in Seqs, src # dst, NEW n \in Nat,
         CanShare(src, dst, n), ShareBlocks(src, dst, n),
         \A l \in Layers : table[l][dst] = << >>
  PROVE  /\ PoolSound' /\ tracked' = tracked
         /\ seqLen'[dst] = IF n > seqLen[dst] THEN n ELSE seqLen[dst]
         /\ \A q \in Seqs \ {dst} : /\ seqLen'[q] = seqLen[q]
                                    /\ \A l \in Layers : table'[l][q] = table[l][q]
         /\ \A l \in Layers : Len(table'[l][dst]) = BlocksFor(n)
<1>1. /\ tracked' = tracked /\ btGPU' = btGPU /\ freeList' = freeList /\ mem' = mem
      /\ seqLen' = [seqLen EXCEPT ![dst] = IF n > seqLen[dst] THEN n ELSE seqLen[dst]]
  BY DEF ShareBlocks
<1>2. PICK k \in Nat : k = BlocksFor(n)
  BY BlocksForType
<1>3. ASSUME NEW l \in Layers
      PROVE  /\ Exact(Entries(table'[l]), table'[l], refs'[l], freeList'[l])
             /\ table'[l] \in [Seqs -> Seq(Blocks)]
             /\ Len(table'[l][dst]) = k
             /\ \A q \in Seqs \ {dst} : table'[l][q] = table[l][q]
             /\ k <= Len(table[l][src])
  <2>1. PICK T \in [Seqs -> Seq(Blocks)] : T = table[l]
    BY DEF PoolSound, PoolTypes
  <2>2. PICK R, F : R = refs[l] /\ F = freeList[l]
    OBVIOUS
  <2>3. k \in 0..Len(T[src]) /\ T[dst] = << >>
    BY <1>2, <2>1 DEF CanShare
  <2>4. PICK pre : pre = SubSeq(T[src], 1, k)
    OBVIOUS
  <2>5. pre \in Seq(Blocks) /\ Len(pre) = k
    <3>1. PICK u \in Seq(Blocks) : u = T[src]
      OBVIOUS
    <3> QED
      BY <2>3, <2>4, <3>1
  <2>6. PICK T2 : T2 = [T EXCEPT ![dst] = pre]
    OBVIOUS
  <2>7. PICK R2 : R2 = [b \in Blocks |-> R[b] + Cardinality({i \in DOMAIN pre : pre[i] = b})]
    OBVIOUS
  <2>8. table'[l] = T2
    <3>1. table'[l] = [T EXCEPT ![dst] = T[dst] \o pre]
      BY <1>2, <2>1, <2>4 DEF ShareBlocks
    <3>2. << >> \o pre = pre
      BY <2>5
    <3> QED
      BY <2>3, <2>6, <3>1, <3>2
  <2>9. refs'[l] = R2
    <3>1. refs' = [j \in Layers |-> [b \in Blocks |->
             refs[j][b] + Cardinality({i \in DOMAIN SubSeq(table[j][src], 1, BlocksFor(n)) :
                                         SubSeq(table[j][src], 1, BlocksFor(n))[i] = b})]]
      BY DEF ShareBlocks
    <3>2. refs'[l] = [b \in Blocks |->
             refs[l][b] + Cardinality({i \in DOMAIN SubSeq(table[l][src], 1, BlocksFor(n)) :
                                         SubSeq(table[l][src], 1, BlocksFor(n))[i] = b})]
      BY <3>1, Zenon
    <3>3. SubSeq(table[l][src], 1, BlocksFor(n)) = pre
      BY <1>2, <2>1, <2>4
    <3> QED
      BY <2>2, <2>7, <3>2, <3>3, Zenon
  <2>10. Exact(Entries(T), T, R, F)
    BY <2>1, <2>2 DEF PoolSound, Counted
  <2>11. \A q \in Seqs : Len(T[q]) <= MaxLen
    BY <2>1, TableLength DEF PoolSound
  <2>15. Prefixed(T, R, src, dst, k, T2, R2)
    BY <2>4, <2>6, <2>7, Zenon DEF Prefixed
  <2>16. PICK j \in 0..Len(T[src]) : j = k
    BY <2>3
  <2>12. Exact(Entries(T2), T2, R2, F)
    BY <2>3, <2>10, <2>11, <2>15, <2>16, ShareExact
  <2>13. T2 \in [Seqs -> Seq(Blocks)] /\ T2[dst] = pre /\ \A q \in Seqs \ {dst} : T2[q] = T[q]
    BY <2>5, <2>6
  <2>14. Exact(Entries(table'[l]), table'[l], refs'[l], freeList'[l])
    BY <1>1, <2>2, <2>8, <2>9, <2>12
  <2> QED
    BY <2>1, <2>3, <2>5, <2>8, <2>13, <2>14
<1>4. /\ table' \in [Layers -> [Seqs -> Seq(Blocks)]]
      /\ refs' = [l \in Layers |-> refs'[l]] /\ freeList' = [l \in Layers |-> freeList'[l]]
  <2>1. table' = [l \in Layers |-> table'[l]] /\ refs' = [l \in Layers |-> refs'[l]]
    BY DEF ShareBlocks
  <2>2. freeList' = [l \in Layers |-> freeList'[l]]
    BY <1>1 DEF PoolSound, Counted
  <2> QED
    BY <1>3, <2>1, <2>2
<1>5. Counted'
  <2>1. \A l \in Layers : Exact(Entries(table'[l]), table'[l], refs'[l], freeList'[l])
    BY <1>3
  <2>2. refs' \in [Layers -> [Blocks -> Nat]] /\ freeList' \in [Layers -> Seq(Blocks)]
    BY <1>4, <2>1, CountTypes
  <2> QED
    BY <2>1, <2>2 DEF Counted
<1>6. ASSUME NEW l \in Layers, NEW q \in Seqs
      PROVE  /\ Len(table'[l][q]) <= BlocksFor(MaxLen)
             /\ q \notin tracked' => table'[l][q] = << >>
  <2>1. CASE q = dst
    <3>1. Len(table[l][src]) \in Nat /\ Len(table[l][src]) <= BlocksFor(MaxLen) /\ BlocksFor(MaxLen) \in Nat
      BY PoolAssumption, BlocksForType DEF PoolSound, PoolTypes, TablesBounded
    <3>2. q \in tracked'
      BY <1>1, <2>1 DEF CanShare
    <3> QED
      BY <1>3, <2>1, <3>1, <3>2
  <2>2. CASE q # dst
    <3>1. table'[l][q] = table[l][q]
      BY <1>3, <2>2
    <3> QED
      BY <1>1, <3>1 DEF PoolSound, TablesBounded, NoEntryNoBlocks
  <2> QED
    BY <2>1, <2>2
<1>7. TablesBounded' /\ NoEntryNoBlocks'
  BY <1>6 DEF TablesBounded, NoEntryNoBlocks
<1>8. dirty' \in [Layers -> [Seqs -> BOOLEAN]]
  <2>1. dirty' = [l \in Layers |-> [dirty[l] EXCEPT ![dst] = TRUE]]
    BY DEF ShareBlocks
  <2> QED
    BY <2>1, Zenon DEF PoolSound, PoolTypes
<1>9. /\ seqLen' \in [Seqs -> Nat]
      /\ seqLen'[dst] = IF n > seqLen[dst] THEN n ELSE seqLen[dst]
      /\ \A q \in Seqs \ {dst} : seqLen'[q] = seqLen[q]
  BY <1>1 DEF PoolSound, PoolTypes
<1>10. PoolTypes'
  BY <1>1, <1>4, <1>8, <1>9 DEF PoolSound, PoolTypes
<1> QED
  BY <1>1, <1>2, <1>3, <1>5, <1>7, <1>9, <1>10 DEF PoolSound

-----------------------------------------------------------------------------
(* The inductive invariant.                                                *)

\* The types of the callers' state; no sequence is longer than MaxLen.
CallerTypes ==
  /\ up \in BOOLEAN
  /\ life \in [Seqs -> {"new", "live", "gone"}]
  /\ shared \in [Seqs -> (Seqs \cup {None}) \X Nat]
  /\ pos \in [Seqs -> Nat] /\ \A s \in Seqs : pos[s] <= MaxLen
  /\ fwd \in [at : {"idle", "ensure", "store", "attend", "verify", "dead"},
              seq : Seqs \cup {None}, start : Nat, n : Nat, layer : Nat]

\* A sequence the pool does not know has not run.
Unrun ==
  \A s \in Seqs :
    /\ life[s] = "new" => s \notin tracked /\ pos[s] = 0
    /\ life[s] = "live" /\ s \notin tracked => pos[s] = 0

\* The forward pass is one of a registered sequence, within the bounds, and
\* starts where the sequence stands.
PassFields ==
  fwd.at # "idle" =>
    /\ fwd.seq \in Seqs /\ fwd.n # 0 /\ fwd.start + fwd.n <= MaxLen /\ fwd.layer \in Layers
    /\ life[fwd.seq] # "new" /\ (fwd.at = "ensure" => fwd.layer = 1)
    /\ life[fwd.seq] = "live" /\ fwd.at # "dead" =>
         pos[fwd.seq] = IF fwd.at = "verify" THEN fwd.start + fwd.n ELSE fwd.start

\* The pass has stored layer l.
Stored(l) == l < fwd.layer \/ (l = fwd.layer /\ fwd.at = "attend")
Flux(s) == fwd.seq = s /\ fwd.at \in {"store", "attend"}

\* Tokens that layer l of the pass's sequence holds.
Holds(l) == IF Stored(l) THEN fwd.start + fwd.n ELSE fwd.start

\* Under a pass the stored layers have the blocks of the new length and the
\* others those of the old one.
InFlux ==
  \A s \in Seqs : Flux(s) /\ life[s] = "live" =>
    /\ s \in tracked /\ seqLen[s] = Holds(1)
    /\ \A l \in Layers : Len(table[l][s]) = BlocksFor(Holds(l))

\* Any other sequence has the blocks its position needs in every layer.
Settled ==
  fwd.at # "dead" =>
    \A s \in Seqs : life[s] = "live" /\ s \in tracked /\ ~Flux(s) =>
      /\ seqLen[s] = pos[s]
      /\ \A l \in Layers : Len(table[l][s]) = BlocksFor(pos[s])

PoolInv == PoolSound /\ CallerTypes /\ Unrun /\ PassFields /\ InFlux /\ Settled

\* NewGPUBlockPool.
LEMMA InitInv ==
  ASSUME Init
  PROVE  PoolInv
<1>1. PoolTypes
  <2>1. << >> \in Seq(Blocks) /\ 0 \in Nat
    OBVIOUS
  <2>2. /\ table \in [Layers -> [Seqs -> Seq(Blocks)]]
        /\ btGPU \in [Layers -> [Seqs -> Seq(Blocks)]]
        /\ seqLen \in [Seqs -> Nat] /\ tracked \subseteq Seqs
    BY <2>1 DEF Init
  <2>3. /\ dirty \in [Layers -> [Seqs -> BOOLEAN]]
        /\ mem \in [Layers -> [Blocks -> [Offsets -> Seqs \cup {None}]]]
    BY Zenon DEF Init
  <2> QED
    BY <2>2, <2>3 DEF PoolTypes
<1>2. ASSUME NEW l \in Layers
      PROVE  Exact(Entries(table[l]), table[l], refs[l], freeList[l])
  <2>1. PICK T : T = [s \in Seqs |-> << >>]
    OBVIOUS
  <2>2. PICK R : R = [b \in Blocks |-> 0]
    OBVIOUS
  <2>3. PICK F : F = [i \in 1..MaxBlocks |-> i - 1]
    OBVIOUS
  <2>4. table[l] = T /\ refs[l] = R /\ freeList[l] = F
    BY <2>1, <2>2, <2>3 DEF Init
  <2>5. Entries(T) = {}
    <3>1. ASSUME NEW e \in Entries(T) PROVE FALSE
      <4>1. PICK q \in Seqs, i \in 1..MaxLen : e = <<q, i>> /\ i \in DOMAIN T[q]
        BY DEF Entries
      <4> QED
        BY <2>1, <4>1
    <3> QED
      BY <3>1, Zenon
  <2>6. R \in [Blocks -> Nat] /\ \A b \in Blocks : R[b] = 0
    BY <2>2
  <2>7. \A b \in Blocks : Cardinality(Naming(Entries(T), T, b)) = 0
    <3> TAKE b \in Blocks
    <3>1. Naming({}, T, b) = {}
      BY DEF Naming
    <3> QED
      BY <2>5, <3>1, FS_EmptySet
  <2>8. F \in Seq(Blocks) /\ Len(F) = MaxBlocks
    <3>1. \A i \in 1..MaxBlocks : i - 1 \in Blocks
      BY PoolAssumption DEF Blocks
    <3> QED
      BY <2>3, <3>1, PoolAssumption
  <2>9. \A i \in 1..MaxBlocks : F[i] = i - 1
    BY <2>3
  <2>10. \A i, j \in 1..Len(F) : F[i] = F[j] => i = j
    BY <2>8, <2>9, PoolAssumption
  <2>11. ASSUME NEW b \in Blocks PROVE \E i \in 1..Len(F) : F[i] = b
    <3>1. b + 1 \in 1..MaxBlocks /\ (b + 1) - 1 = b
      BY PoolAssumption DEF Blocks
    <3> QED
      BY <2>8, <2>9, <3>1
  <2>12. Exact(Entries(T), T, R, F)
    BY <2>6, <2>7, <2>8, <2>10, <2>11 DEF Exact
  <2> QED
    BY <2>4, <2>12
<1>3. Counted
  <2>1. refs = [l \in Layers |-> refs[l]] /\ freeList = [l \in Layers |-> freeList[l]]
    BY DEF Init
  <2>2. refs \in [Layers -> [Blocks -> Nat]] /\ freeList \in [Layers -> Seq(Blocks)]
    BY <1>2, <2>1, CountTypes
  <2> QED
    BY <1>2, <2>2 DEF Counted
<1>4. TablesBounded /\ NoEntryNoBlocks
  <2>1. \A l \in Layers, s \in Seqs : table[l][s] = << >>
    BY DEF Init
  <2>2. BlocksFor(MaxLen) \in Nat
    BY PoolAssumption, BlocksForType
  <2>3. \A l \in Layers, s \in Seqs : Len(table[l][s]) <= BlocksFor(MaxLen)
    BY <2>1, <2>2
  <2> QED
    BY <2>1, <2>3 DEF TablesBounded, NoEntryNoBlocks
<1>5. CallerTypes
  <2>1. up \in BOOLEAN /\ life \in [Seqs -> {"new", "live", "gone"}]
    BY Zenon DEF Init
  <2>2. shared \in [Seqs -> (Seqs \cup {None}) \X Nat] /\ pos \in [Seqs -> Nat]
        /\ \A s \in Seqs : pos[s] <= MaxLen
    BY PoolAssumption DEF Init
  <2>3. fwd \in [at : {"idle", "ensure", "store", "attend", "verify", "dead"},
                 seq : Seqs \cup {None}, start : Nat, n : Nat, layer : Nat]
    BY DEF Init, Idle
  <2> QED
    BY <2>1, <2>2, <2>3 DEF CallerTypes
<1>6. Unrun /\ PassFields /\ InFlux /\ Settled
  <2>1. /\ fwd.at = "idle" /\ tracked = {} /\ \A s \in Seqs : pos[s] = 0
    BY DEF Init, Idle
  <2> QED
    BY <2>1 DEF Unrun, PassFields, InFlux, Settled, Flux
<1> QED
  BY <1>1, <1>3, <1>4, <1>5, <1>6 DEF PoolInv, PoolSound

\* AddSequence.
LEMMA AddInv ==
  ASSUME PoolInv, NEW s \in Seqs, Add(s)
  PROVE  PoolInv'
<1>1. /\ life[s] = "new" /\ life' = [life EXCEPT ![s] = "live"]
      /\ up' = up /\ shared' = shared /\ pos' = pos /\ fwd' = fwd
  BY DEF Add
<1>2. s \notin tracked /\ pos[s] = 0 /\ (fwd.at # "idle" => fwd.seq # s)
  BY <1>1 DEF PoolInv, Unrun, PassFields
<1>3. /\ PoolSound' /\ table' = table
      /\ \/ tracked' = tracked
         \/ tracked' = tracked \cup {s} /\ seqLen'[s] = 0
      /\ \A q \in Seqs \ {s} : seqLen'[q] = seqLen[q]
  <2>1. CASE up
    <3>1. CreateSequence(s)
      BY <2>1 DEF Add
    <3> QED
      BY <1>2, <3>1, CreateSound DEF PoolInv
  <2>2. CASE ~up
    <3>1. UNCHANGED poolVars
      BY <2>2 DEF Add
    <3> QED
      BY <3>1, SameSound DEF PoolInv
  <2> QED
    BY <2>1, <2>2
<1>4. /\ life'[s] = "live" /\ \A q \in Seqs \ {s} : life'[q] = life[q]
      /\ life' \in [Seqs -> {"new", "live", "gone"}]
  BY <1>1 DEF PoolInv, CallerTypes
<1>5. CallerTypes'
  BY <1>1, <1>4 DEF PoolInv, CallerTypes
<1>6. Unrun'
  BY <1>1, <1>2, <1>3, <1>4 DEF PoolInv, Unrun
<1>7. PassFields'
  BY <1>1, <1>2, <1>4 DEF PoolInv, PassFields
<1>8. InFlux'
  <2> SUFFICES ASSUME NEW q \in Seqs, Flux(q), life'[q] = "live"
               PROVE  /\ q \in tracked' /\ seqLen'[q] = Holds(1)
                      /\ \A l \in Layers : Len(table'[l][q]) = BlocksFor(Holds(l))
    BY <1>1 DEF InFlux, Flux, Holds, Stored
  <2>1. q # s
    BY <1>2 DEF Flux
  <2>2. life[q] = "live" /\ seqLen'[q] = seqLen[q]
    BY <1>3, <1>4, <2>1
  <2>3. /\ q \in tracked /\ seqLen[q] = Holds(1)
        /\ \A l \in Layers : Len(table[l][q]) = BlocksFor(Holds(l))
    BY <2>2 DEF PoolInv, InFlux
  <2> QED
    BY <1>3, <2>2, <2>3
<1>9. Settled'
  <2> SUFFICES ASSUME fwd.at # "dead", NEW q \in Seqs, life'[q] = "live", q \in tracked', ~Flux(q)
               PROVE  /\ seqLen'[q] = pos[q]
                      /\ \A l \in Layers : Len(table'[l][q]) = BlocksFor(pos[q])
    BY <1>1 DEF Settled, Flux
  <2>1. CASE q = s
    <3>1. seqLen'[s] = 0
      BY <1>2, <1>3, <2>1
    <3>2. \A l \in Layers : table'[l][s] = << >>
      BY <1>2, <1>3 DEF PoolInv, PoolSound, NoEntryNoBlocks
    <3> QED
      BY <1>2, <2>1, <3>1, <3>2, BlocksForZero
  <2>2. CASE q # s
    <3>1. life[q] = "live" /\ q \in tracked /\ seqLen'[q] = seqLen[q]
      BY <1>3, <1>4, <2>2
    <3> QED
      BY <1>3, <3>1 DEF PoolInv, Settled
  <2> QED
    BY <2>1, <2>2
<1> QED
  BY <1>3, <1>5, <1>6, <1>7, <1>8, <1>9 DEF PoolInv

\* RemoveSequence, also under a pass.
LEMMA RemoveInv ==
  ASSUME PoolInv, NEW s \in Seqs, Remove(s)
  PROVE  PoolInv'
<1>1. /\ life[s] = "live" /\ life' = [life EXCEPT ![s] = "gone"] /\ DeleteSequence(s)
      /\ up' = up /\ shared' = shared /\ pos' = pos /\ fwd' = fwd
  BY DEF Remove
<1>2. /\ PoolSound' /\ tracked' = tracked \ {s}
      /\ \A q \in Seqs \ {s} : /\ seqLen'[q] = seqLen[q]
                               /\ \A l \in Layers : table'[l][q] = table[l][q]
  BY <1>1, DeleteSound DEF PoolInv
<1>3. /\ life'[s] = "gone" /\ \A q \in Seqs \ {s} : life'[q] = life[q]
      /\ life' \in [Seqs -> {"new", "live", "gone"}]
  BY <1>1 DEF PoolInv, CallerTypes
<1>4. CallerTypes'
  BY <1>1, <1>3 DEF PoolInv, CallerTypes
<1>5. Unrun'
  BY <1>1, <1>2, <1>3 DEF PoolInv, Unrun
<1>6. PassFields'
  BY <1>1, <1>3 DEF PoolInv, PassFields
<1>7. InFlux'
  <2> SUFFICES ASSUME NEW q \in Seqs, Flux(q), life'[q] = "live"
               PROVE  /\ q \in tracked' /\ seqLen'[q] = Holds(1)
                      /\ \A l \in Layers : Len(table'[l][q]) = BlocksFor(Holds(l))
    BY <1>1 DEF InFlux, Flux, Holds, Stored
  <2>1. q # s /\ life[q] = "live"
    BY <1>3
  <2>2. /\ q \in tracked /\ seqLen[q] = Holds(1)
        /\ \A l \in Layers : Len(table[l][q]) = BlocksFor(Holds(l))
    BY <2>1 DEF PoolInv, InFlux
  <2> QED
    BY <1>2, <2>1, <2>2
<1>8. Settled'
  <2> SUFFICES ASSUME fwd.at # "dead", NEW q \in Seqs, life'[q] = "live", q \in tracked', ~Flux(q)
               PROVE  /\ seqLen'[q] = pos[q]
                      /\ \A l \in Layers : Len(table'[l][q]) = BlocksFor(pos[q])
    BY <1>1 DEF Settled, Flux
  <2>1. q # s /\ life[q] = "live" /\ q \in tracked
    BY <1>2, <1>3
  <2>2. seqLen[q] = pos[q] /\ \A l \in Layers : Len(table[l][q]) = BlocksFor(pos[q])
    BY <2>1 DEF PoolInv, Settled
  <2> QED
    BY <1>2, <2>1, <2>2
<1> QED
  BY <1>2, <1>4, <1>5, <1>6, <1>7, <1>8 DEF PoolInv

\* ShareBlocks, between two passes.
LEMMA ShareInv ==
  ASSUME PoolInv, NEW src \in Seqs, NEW dst \in Seqs, NEW n \in ShareLens, Share(src, dst, n)
  PROVE  PoolInv'
<1>1. /\ fwd.at = "idle" /\ src # dst /\ life[src] = "live" /\ life[dst] = "live"
      /\ pos[dst] = 0 /\ n <= pos[src] /\ CanShare(src, dst, n) /\ ShareBlocks(src, dst, n)
      /\ shared' = [shared EXCEPT ![dst] = <<src, n>>] /\ pos' = [pos EXCEPT ![dst] = n]
      /\ up' = up /\ life' = life /\ fwd' = fwd
  BY DEF Share
<1>2. n \in Nat
  BY PoolAssumption
<1>3. dst \in tracked
  BY <1>1 DEF CanShare
<1>4. seqLen[dst] = 0 /\ \A l \in Layers : Len(table[l][dst]) = 0
  <2>1. ~Flux(dst)
    BY <1>1 DEF Flux
  <2> QED
    BY <1>1, <1>3, <2>1, BlocksForZero DEF PoolInv, Settled
<1>5. \A l \in Layers : table[l][dst] = << >>
  <2>1. \A l \in Layers : table[l][dst] \in Seq(Blocks)
    BY DEF PoolInv, PoolSound, PoolTypes
  <2> QED
    BY <1>4, <2>1
<1>6. /\ PoolSound' /\ tracked' = tracked
      /\ seqLen'[dst] = IF n > seqLen[dst] THEN n ELSE seqLen[dst]
      /\ \A q \in Seqs \ {dst} : /\ seqLen'[q] = seqLen[q]
                                 /\ \A l \in Layers : table'[l][q] = table[l][q]
      /\ \A l \in Layers : Len(table'[l][dst]) = BlocksFor(n)
  BY <1>1, <1>2, <1>5, ShareSound DEF PoolInv
<1>7. /\ pos'[dst] = n /\ \A q \in Seqs \ {dst} : pos'[q] = pos[q]
      /\ pos' \in [Seqs -> Nat] /\ seqLen'[dst] = n
  BY <1>1, <1>2, <1>4, <1>6 DEF PoolInv, CallerTypes
<1>8. CallerTypes'
  <2>1. \A q \in Seqs : pos'[q] <= MaxLen
    <3> TAKE q \in Seqs
    <3>1. pos[q] <= MaxLen /\ pos[src] <= MaxLen /\ pos[src] \in Nat /\ MaxLen \in Nat
      BY PoolAssumption DEF PoolInv, CallerTypes
    <3>2. CASE q = dst
      BY <1>1, <1>2, <1>7, <3>1, <3>2
    <3>3. CASE q # dst
      BY <1>7, <3>1, <3>3
    <3> QED
      BY <3>2, <3>3
  <2>2. shared' \in [Seqs -> (Seqs \cup {None}) \X Nat]
    BY <1>1, <1>2 DEF PoolInv, CallerTypes
  <2> QED
    BY <1>1, <1>7, <2>1, <2>2 DEF PoolInv, CallerTypes
<1>9. Unrun'
  BY <1>1, <1>3, <1>6, <1>7 DEF PoolInv, Unrun
<1>10. PassFields' /\ InFlux'
  BY <1>1 DEF PassFields, InFlux, Flux
<1>11. Settled'
  <2> SUFFICES ASSUME NEW q \in Seqs, life[q] = "live", q \in tracked
               PROVE  /\ seqLen'[q] = pos'[q]
                      /\ \A l \in Layers : Len(table'[l][q]) = BlocksFor(pos'[q])
    BY <1>1, <1>6 DEF Settled
  <2>1. CASE q = dst
    BY <1>6, <1>7, <2>1
  <2>2. CASE q # dst
    <3>1. ~Flux(q)
      BY <1>1 DEF Flux
    <3>2. seqLen[q] = pos[q] /\ \A l \in Layers : Len(table[l][q]) = BlocksFor(pos[q])
      BY <1>1, <3>1 DEF PoolInv, Settled
    <3> QED
      BY <1>6, <1>7, <2>2, <3>2
  <2> QED
    BY <2>1, <2>2
<1> QED
  BY <1>6, <1>8, <1>9, <1>10, <1>11 DEF PoolInv

\* A pass begins.
LEMMA PickInv ==
  ASSUME PoolInv, NEW s \in Seqs, NEW n \in Chunks, Pick(s, n)
  PROVE  PoolInv'
<1>1. /\ fwd.at = "idle" /\ life[s] = "live" /\ pos[s] + n <= MaxLen
      /\ fwd' = [at |-> "ensure", seq |-> s, start |-> pos[s], n |-> n, layer |-> 1]
      /\ up' = up /\ life' = life /\ shared' = shared /\ pos' = pos /\ UNCHANGED poolVars
  BY DEF Pick
<1>2. PoolSound' /\ tracked' = tracked /\ table' = table /\ seqLen' = seqLen
  BY <1>1, SameSound DEF PoolInv
<1>3. n \in Nat /\ n # 0 /\ 1 \in Layers /\ pos[s] \in Nat
  BY PoolAssumption DEF PoolInv, CallerTypes, Layers
<1>4. /\ fwd'.at = "ensure" /\ fwd'.seq = s /\ fwd'.start = pos[s] /\ fwd'.n = n /\ fwd'.layer = 1
  BY <1>1
<1>5. CallerTypes'
  <2>1. fwd' \in [at : {"idle", "ensure", "store", "attend", "verify", "dead"},
                  seq : Seqs \cup {None}, start : Nat, n : Nat, layer : Nat]
    BY <1>1, <1>3
  <2> QED
    BY <1>1, <2>1 DEF PoolInv, CallerTypes
<1>6. Unrun'
  BY <1>1, <1>2 DEF PoolInv, Unrun
<1>7. PassFields'
  BY <1>1, <1>3, <1>4 DEF PassFields
<1>8. InFlux'
  BY <1>4 DEF InFlux, Flux
<1>9. Settled'
  BY <1>1, <1>2 DEF PoolInv, Settled, Flux
<1> QED
  BY <1>2, <1>5, <1>6, <1>7, <1>8, <1>9 DEF PoolInv

\* The head of a pass.
LEMMA EnsureInv ==
  ASSUME PoolInv, EnsureSequence
  PROVE  PoolInv'
<1>1. /\ fwd.at = "ensure" /\ up' = TRUE /\ fwd' = [fwd EXCEPT !.at = "store"]
      /\ life' = life /\ shared' = shared /\ pos' = pos
  BY DEF EnsureSequence
<1>2. /\ fwd.seq \in Seqs /\ life[fwd.seq] # "new" /\ fwd.layer = 1
      /\ (life[fwd.seq] = "live" => pos[fwd.seq] = fwd.start)
  BY <1>1 DEF PoolInv, PassFields
<1>3. PICK s \in Seqs : s = fwd.seq
  BY <1>2
<1>4. /\ PoolSound' /\ table' = table /\ tracked' = tracked \cup {s}
      /\ IF s \in tracked THEN seqLen'[s] = seqLen[s] ELSE seqLen'[s] = 0
      /\ \A q \in Seqs \ {s} : seqLen'[q] = seqLen[q]
  <2>1. CASE s \in tracked
    <3>1. UNCHANGED poolVars
      BY <1>3, <2>1 DEF EnsureSequence
    <3> QED
      BY <2>1, <3>1, SameSound DEF PoolInv
  <2>2. CASE s \notin tracked
    <3>1. CreateSequence(s)
      BY <1>3, <2>2 DEF EnsureSequence
    <3> QED
      BY <2>2, <3>1, CreateSound DEF PoolInv
  <2> QED
    BY <2>1, <2>2
<1>5. /\ fwd'.at = "store" /\ fwd'.seq = s /\ fwd'.start = fwd.start /\ fwd'.n = fwd.n
      /\ fwd'.layer = fwd.layer
      /\ fwd' \in [at : {"idle", "ensure", "store", "attend", "verify", "dead"},
                   seq : Seqs \cup {None}, start : Nat, n : Nat, layer : Nat]
  BY <1>1, <1>3 DEF PoolInv, CallerTypes
<1>6. CallerTypes'
  <2>1. up' \in BOOLEAN
    BY <1>1
  <2> QED
    BY <1>1, <1>5, <2>1 DEF PoolInv, CallerTypes
<1>7. Unrun'
  BY <1>1, <1>2, <1>3, <1>4 DEF PoolInv, Unrun
<1>8. PassFields'
  BY <1>1, <1>3, <1>5 DEF PoolInv, PassFields
<1>9. Holds(1)' = fwd.start /\ \A l \in Layers : Holds(l)' = fwd.start
  <2>1. \A l \in Layers : l \in Nat /\ l >= 1
    BY PoolAssumption DEF Layers
  <2>2. Stored(1)' = FALSE /\ \A l \in Layers : Stored(l)' = FALSE
    BY <1>2, <1>5, <2>1 DEF Stored
  <2> QED
    BY <1>5, <2>2 DEF Holds
<1>10. ~Flux(s)
  BY <1>1 DEF Flux
<1>11. InFlux'
  <2> SUFFICES ASSUME life[s] = "live"
               PROVE  /\ s \in tracked' /\ seqLen'[s] = Holds(1)'
                      /\ \A l \in Layers : Len(table'[l][s]) = BlocksFor(Holds(l)')
    BY <1>1, <1>5 DEF InFlux, Flux
  <2>1. seqLen'[s] = fwd.start /\ \A l \in Layers : Len(table[l][s]) = BlocksFor(fwd.start)
    <3>1. CASE s \in tracked
      <4>1. seqLen[s] = pos[s] /\ \A l \in Layers : Len(table[l][s]) = BlocksFor(pos[s])
        BY <1>1, <1>10, <3>1 DEF PoolInv, Settled
      <4> QED
        BY <1>2, <1>3, <1>4, <3>1, <4>1
    <3>2. CASE s \notin tracked
      <4>1. pos[s] = 0 /\ \A l \in Layers : table[l][s] = << >>
        BY <3>2 DEF PoolInv, Unrun, PoolSound, NoEntryNoBlocks
      <4> QED
        BY <1>2, <1>3, <1>4, <3>2, <4>1, BlocksForZero
    <3> QED
      BY <3>1, <3>2
  <2> QED
    BY <1>4, <1>9, <2>1
<1>12. Settled'
  <2> SUFFICES ASSUME NEW q \in Seqs, life[q] = "live", q \in tracked', q # s
               PROVE  /\ seqLen'[q] = pos[q]
                      /\ \A l \in Layers : Len(table'[l][q]) = BlocksFor(pos[q])
    BY <1>1, <1>5 DEF Settled, Flux
  <2>1. q \in tracked /\ seqLen'[q] = seqLen[q] /\ ~Flux(q)
    BY <1>1, <1>4 DEF Flux
  <2> QED
    BY <1>1, <1>4, <2>1 DEF PoolInv, Settled
<1> QED
  BY <1>4, <1>6, <1>7, <1>8, <1>11, <1>12 DEF PoolInv

\* StoreKV of a layer.
LEMMA LayerStoreInv ==
  ASSUME PoolInv, LayerStore
  PROVE  PoolInv'
<1>1. /\ fwd.at = "store" /\ CanStoreKV(fwd.layer, fwd.seq, fwd.start, fwd.n)
      /\ StoreKV(fwd.layer, fwd.seq, fwd.start, fwd.n) /\ fwd' = [fwd EXCEPT !.at = "attend"]
      /\ up' = up /\ life' = life /\ shared' = shared /\ pos' = pos
  BY DEF LayerStore
<1>2. PICK s \in Seqs, l \in Layers, a \in Nat, n \in Nat :
         s = fwd.seq /\ l = fwd.layer /\ a = fwd.start /\ n = fwd.n /\ a + n <= MaxLen
  BY <1>1 DEF PoolInv, PassFields, CallerTypes
<1>3. /\ PoolSound' /\ tracked' = tracked
      /\ \A q \in Seqs \ {s} : seqLen'[q] = seqLen[q] /\ table'[l][q] = table[l][q]
      /\ seqLen'[s] = IF a + n > seqLen[s] THEN a + n ELSE seqLen[s]
      /\ \A k \in Layers \ {l} : table'[k] = table[k]
      /\ Len(table'[l][s]) = IF BlocksFor(a + n) > Len(table[l][s])
                               THEN BlocksFor(a + n) ELSE Len(table[l][s])
  <2>1. CanStoreKV(l, s, a, n) /\ StoreKV(l, s, a, n) /\ a + n <= MaxLen /\ PoolSound
    BY <1>1, <1>2 DEF PoolInv
  <2> QED
    BY <2>1, StoreSound
<1>4. /\ fwd'.at = "attend" /\ fwd'.seq = s /\ fwd'.start = a /\ fwd'.n = n /\ fwd'.layer = l
      /\ fwd' \in [at : {"idle", "ensure", "store", "attend", "verify", "dead"},
                   seq : Seqs \cup {None}, start : Nat, n : Nat, layer : Nat]
  BY <1>1, <1>2 DEF PoolInv, CallerTypes
<1>5. CallerTypes'
  BY <1>1, <1>4 DEF PoolInv, CallerTypes
<1>6. Unrun'
  BY <1>1, <1>3 DEF PoolInv, Unrun
<1>7. PassFields'
  BY <1>1, <1>2, <1>4 DEF PoolInv, PassFields
<1>8. \A q \in Seqs \ {s} : seqLen'[q] = seqLen[q] /\ \A k \in Layers : table'[k][q] = table[k][q]
  BY <1>3
<1>9. InFlux'
  <2> SUFFICES ASSUME life[s] = "live"
               PROVE  /\ s \in tracked' /\ seqLen'[s] = Holds(1)'
                      /\ \A k \in Layers : Len(table'[k][s]) = BlocksFor(Holds(k)')
    BY <1>1, <1>4 DEF InFlux, Flux
  <2>1. Flux(s)
    BY <1>1, <1>2 DEF Flux
  <2>2. /\ s \in tracked /\ seqLen[s] = Holds(1)
        /\ \A k \in Layers : Len(table[k][s]) = BlocksFor(Holds(k))
    BY <2>1 DEF PoolInv, InFlux
  <2>3. l \in Nat /\ l >= 1
    BY PoolAssumption DEF Layers
  <2>4. /\ Holds(l) = a /\ Holds(l)' = a + n /\ Holds(1)' = a + n /\ Holds(1) \in {a, a + n}
        /\ \A k \in Layers \ {l} : Holds(k)' = Holds(k)
    <3>1. ~Stored(l) /\ Stored(l)' /\ Stored(1)'
      BY <1>1, <1>2, <1>4, <2>3 DEF Stored
    <3>2. \A k \in Layers \ {l} : Stored(k)' = Stored(k)
      BY <1>1, <1>2, <1>4, <2>3 DEF Stored
    <3> QED
      BY <1>2, <1>4, <3>1, <3>2 DEF Holds
  <2>5. seqLen'[s] = a + n
    BY <1>3, <2>2, <2>4
  <2>6. Len(table'[l][s]) = BlocksFor(a + n)
    <3>1. BlocksFor(a) \in Nat /\ BlocksFor(a + n) \in Nat /\ BlocksFor(a) <= BlocksFor(a + n)
      <4>1. PICK e \in Nat : e = a + n /\ a <= e
        OBVIOUS
      <4>2. BlocksFor(a) \in Nat /\ BlocksFor(e) \in Nat /\ BlocksFor(a) <= BlocksFor(e)
        BY <4>1, BlocksForType, BlocksForMono
      <4> QED
        BY <4>1, <4>2
    <3>2. Len(table[l][s]) = BlocksFor(a)
      BY <2>2, <2>4
    <3> QED
      BY <1>3, <3>1, <3>2
  <2>7. ASSUME NEW k \in Layers PROVE Len(table'[k][s]) = BlocksFor(Holds(k)')
    <3>1. CASE k = l
      BY <2>4, <2>6, <3>1
    <3>2. CASE k # l
      <4>1. table'[k] = table[k] /\ Holds(k)' = Holds(k)
        BY <1>3, <2>4, <3>2
      <4> QED
        BY <2>2, <4>1
    <3> QED
      BY <3>1, <3>2
  <2> QED
    BY <1>3, <2>2, <2>4, <2>5, <2>7
<1>10. Settled'
  <2> SUFFICES ASSUME NEW q \in Seqs, life[q] = "live", q \in tracked, q # s
               PROVE  /\ seqLen'[q] = pos[q]
                      /\ \A k \in Layers : Len(table'[k][q]) = BlocksFor(pos[q])
    BY <1>1, <1>3, <1>4 DEF Settled, Flux
  <2>1. ~Flux(q)
    BY <1>2 DEF Flux
  <2>2. seqLen[q] = pos[q] /\ \A k \in Layers : Len(table[k][q]) = BlocksFor(pos[q])
    BY <1>1, <2>1 DEF PoolInv, Settled
  <2> QED
    BY <1>8, <2>2
<1> QED
  BY <1>3, <1>5, <1>6, <1>7, <1>9, <1>10 DEF PoolInv

\* Attention of a layer, and what follows it.
LEMMA LayerAttendInv ==
  ASSUME PoolInv, LayerAttend
  PROVE  PoolInv'
<1>1. /\ fwd.at = "attend" /\ AfterLayer /\ up' = up /\ life' = life /\ shared' = shared
  BY DEF LayerAttend
<1>2. PICK s \in Seqs, l \in Layers, a \in Nat, n \in Nat :
         s = fwd.seq /\ l = fwd.layer /\ a = fwd.start /\ n = fwd.n /\ a + n <= MaxLen
  BY <1>1 DEF PoolInv, PassFields, CallerTypes
<1>3. PoolSound' /\ tracked' = tracked /\ table' = table /\ seqLen' = seqLen
  <2>1. CASE Prefills
    <3>1. UNCHANGED poolVars
      BY <2>1 DEF LayerAttend
    <3> QED
      BY <3>1, SameSound DEF PoolInv
  <2>2. CASE ~Prefills
    <3>1. Attention(l, s)
      BY <1>2, <2>2 DEF LayerAttend
    <3> QED
      BY <3>1, AttentionSound DEF PoolInv
  <2> QED
    BY <2>1, <2>2
<1>4. /\ n # 0 /\ life[s] # "new" /\ (life[s] = "live" => pos[s] = a)
  BY <1>1, <1>2 DEF PoolInv, PassFields
<1>5. Flux(s) /\ \A q \in Seqs \ {s} : ~Flux(q)
  BY <1>1, <1>2 DEF Flux
<1>6. life[s] = "live" =>
        /\ s \in tracked /\ seqLen[s] = Holds(1)
        /\ \A k \in Layers : Len(table[k][s]) = BlocksFor(Holds(k))
  BY <1>5 DEF PoolInv, InFlux
<1>7. \A q \in Seqs \ {s} : life[q] = "live" /\ q \in tracked =>
        seqLen[q] = pos[q] /\ \A k \in Layers : Len(table[k][q]) = BlocksFor(pos[q])
  BY <1>1, <1>5 DEF PoolInv, Settled
<1>8. l \in 1..NumLayers /\ NumLayers \in Nat /\ \A k \in Layers : k \in Nat /\ k >= 1 /\ k <= NumLayers
  BY PoolAssumption DEF Layers
<1>9. CASE l < NumLayers
  <2>1. fwd' = [fwd EXCEPT !.at = "store", !.layer = l + 1] /\ pos' = pos
    BY <1>1, <1>2, <1>9 DEF AfterLayer
  <2>2. /\ fwd'.at = "store" /\ fwd'.seq = s /\ fwd'.start = a /\ fwd'.n = n /\ fwd'.layer = l + 1
        /\ fwd' \in [at : {"idle", "ensure", "store", "attend", "verify", "dead"},
                     seq : Seqs \cup {None}, start : Nat, n : Nat, layer : Nat]
    <3>1. PICK k \in Nat : k = l + 1
      BY <1>8
    <3>2. fwd' = [fwd EXCEPT !.at = "store", !.layer = k]
      BY <2>1, <3>1
    <3>3. fwd \in [at : {"idle", "ensure", "store", "attend", "verify", "dead"},
                   seq : Seqs \cup {None}, start : Nat, n : Nat, layer : Nat]
      BY DEF PoolInv, CallerTypes
    <3> QED
      BY <1>2, <3>1, <3>2, <3>3
  <2>3. l + 1 \in Layers
    BY <1>8, <1>9 DEF Layers
  <2>4. CallerTypes'
    BY <1>1, <2>1, <2>2 DEF PoolInv, CallerTypes
  <2>5. Unrun'
    BY <1>1, <1>3, <2>1 DEF PoolInv, Unrun
  <2>6. PassFields'
    BY <1>1, <1>2, <1>4, <2>1, <2>2, <2>3 DEF PassFields
  <2>7. Holds(1)' = Holds(1) /\ \A k \in Layers : Holds(k)' = Holds(k)
    <3>1. Stored(1)' = Stored(1) /\ \A k \in Layers : Stored(k)' = Stored(k)
      BY <1>1, <1>2, <1>8, <2>2 DEF Stored
    <3> QED
      BY <1>2, <2>2, <3>1 DEF Holds
  <2>8. InFlux'
    <3> SUFFICES ASSUME life[s] = "live"
                 PROVE  /\ s \in tracked' /\ seqLen'[s] = Holds(1)'
                        /\ \A k \in Layers : Len(table'[k][s]) = BlocksFor(Holds(k)')
      BY <1>1, <2>2 DEF InFlux, Flux
    <3> QED
      BY <1>3, <1>6, <2>7
  <2>9. Settled'
    <3> SUFFICES ASSUME NEW q \in Seqs, life[q] = "live", q \in tracked, q # s
                 PROVE  /\ seqLen[q] = pos[q]
                        /\ \A k \in Layers : Len(table[k][q]) = BlocksFor(pos[q])
      BY <1>1, <1>3, <2>1, <2>2 DEF Settled, Flux
    <3> QED
      BY <1>7
  <2> QED
    BY <1>3, <2>4, <2>5, <2>6, <2>8, <2>9 DEF PoolInv
<1>10. CASE ~(l < NumLayers)
  <2>1. /\ fwd' = (IF Prefills \/ n = 1 THEN Idle ELSE [fwd EXCEPT !.at = "verify"])
        /\ pos' = [pos EXCEPT ![s] = a + n]
    BY <1>1, <1>2, <1>10 DEF AfterLayer
  <2>2. /\ fwd' \in [at : {"idle", "ensure", "store", "attend", "verify", "dead"},
                     seq : Seqs \cup {None}, start : Nat, n : Nat, layer : Nat]
        /\ \/ fwd'.at = "idle"
           \/ fwd'.at = "verify" /\ fwd'.seq = s /\ fwd'.start = a /\ fwd'.n = n /\ fwd'.layer = l
    <3>1. CASE Prefills \/ n = 1
      BY <2>1, <3>1 DEF Idle
    <3>2. CASE ~(Prefills \/ n = 1)
      <4>1. fwd' = [fwd EXCEPT !.at = "verify"]
        BY <2>1, <3>2
      <4> QED
        BY <1>2, <4>1 DEF PoolInv, CallerTypes
    <3> QED
      BY <3>1, <3>2
  <2>3. /\ pos'[s] = a + n /\ \A q \in Seqs \ {s} : pos'[q] = pos[q]
        /\ pos' \in [Seqs -> Nat]
    BY <2>1 DEF PoolInv, CallerTypes
  <2>4. \A q \in Seqs : pos'[q] <= MaxLen
    BY <1>2, <2>3 DEF PoolInv, CallerTypes
  <2>5. CallerTypes'
    BY <1>1, <2>2, <2>3, <2>4 DEF PoolInv, CallerTypes
  <2>6. Unrun'
    <3> SUFFICES ASSUME NEW q \in Seqs
                 PROVE  /\ life[q] = "new" => q \notin tracked /\ pos'[q] = 0
                        /\ life[q] = "live" /\ q \notin tracked => pos'[q] = 0
      BY <1>1, <1>3 DEF Unrun
    <3>1. CASE q = s
      BY <1>4, <1>6, <3>1
    <3>2. CASE q # s
      BY <2>3, <3>2 DEF PoolInv, Unrun
    <3> QED
      BY <3>1, <3>2
  <2>7. PassFields'
    BY <1>1, <1>2, <1>4, <2>2, <2>3 DEF PassFields
  <2>8. InFlux'
    BY <2>2 DEF InFlux, Flux
  <2>9. Holds(1) = a + n /\ \A k \in Layers : Holds(k) = a + n
    <3>1. Stored(1) /\ \A k \in Layers : Stored(k)
      BY <1>1, <1>2, <1>8, <1>10 DEF Stored
    <3> QED
      BY <1>2, <3>1 DEF Holds
  <2>10. Settled'
    <3> SUFFICES ASSUME NEW q \in Seqs, life[q] = "live", q \in tracked
                 PROVE  /\ seqLen[q] = pos'[q]
                        /\ \A k \in Layers : Len(table[k][q]) = BlocksFor(pos'[q])
      BY <1>1, <1>3 DEF Settled
    <3>1. CASE q = s
      BY <1>6, <2>3, <2>9, <3>1
    <3>2. CASE q # s
      BY <1>7, <2>3, <3>2
    <3> QED
      BY <3>1, <3>2
  <2> QED
    BY <1>3, <2>5, <2>6, <2>7, <2>8, <2>10 DEF PoolInv
<1> QED
  BY <1>9, <1>10

\* A layer fails, with the blocks it took.
LEMMA LayerErrorInv ==
  ASSUME PoolInv, LayerError
  PROVE  PoolInv'
<1>1. /\ fwd.at \in {"store", "attend"} /\ fwd' = [fwd EXCEPT !.at = "dead"]
      /\ up' = up /\ life' = life /\ shared' = shared /\ pos' = pos
  BY DEF LayerError
<1>2. PICK s \in Seqs, l \in Layers, a \in Nat, n \in Nat :
         s = fwd.seq /\ l = fwd.layer /\ a = fwd.start /\ n = fwd.n /\ a + n <= MaxLen
  BY <1>1 DEF PoolInv, PassFields, CallerTypes
<1>3. PoolSound' /\ tracked' = tracked
  <2>1. CASE ~CanStoreKV(l, s, a, n) /\ FailStoreKV(l, s)
    <3>1. PoolSound /\ a + n <= MaxLen
      BY <1>2 DEF PoolInv
    <3> QED
      BY <2>1, <3>1, FailStoreSound
  <2>2. CASE UNCHANGED poolVars
    BY <2>2, SameSound DEF PoolInv
  <2> QED
    BY <1>2, <2>1, <2>2 DEF LayerError
<1>4. /\ fwd'.at = "dead" /\ fwd'.seq = s /\ fwd'.start = a /\ fwd'.n = n /\ fwd'.layer = l
      /\ fwd' \in [at : {"idle", "ensure", "store", "attend", "verify", "dead"},
                   seq : Seqs \cup {None}, start : Nat, n : Nat, layer : Nat]
  BY <1>1, <1>2 DEF PoolInv, CallerTypes
<1>5. CallerTypes'
  BY <1>1, <1>4 DEF PoolInv, CallerTypes
<1>6. Unrun'
  BY <1>1, <1>3 DEF PoolInv, Unrun
<1>7. PassFields'
  BY <1>1, <1>2, <1>4 DEF PoolInv, PassFields
<1>8. InFlux' /\ Settled'
  BY <1>4 DEF InFlux, Settled, Flux
<1> QED
  BY <1>3, <1>5, <1>6, <1>7, <1>8 DEF PoolInv

\* TruncateSequence after a verification.
LEMMA RollbackInv ==
  ASSUME PoolInv, NEW len \in 1..MaxLen, Rollback(len)
  PROVE  PoolInv'
<1>1. /\ fwd.at = "verify" /\ len \in (fwd.start + 1)..(fwd.start + fwd.n)
      /\ TruncateSequence(fwd.seq, len) /\ pos' = [pos EXCEPT ![fwd.seq] = len] /\ fwd' = Idle
      /\ up' = up /\ life' = life /\ shared' = shared
  BY DEF Rollback
<1>2. PICK s \in Seqs, e \in Nat : s = fwd.seq /\ e = fwd.start + fwd.n
  BY <1>1 DEF PoolInv, PassFields, CallerTypes
<1>3. len \in Nat /\ len # 0 /\ len <= e /\ len <= MaxLen
  BY <1>1, <1>2, PoolAssumption DEF PoolInv, CallerTypes
<1>4. life[s] # "new" /\ (life[s] = "live" => pos[s] = e)
  BY <1>1, <1>2 DEF PoolInv, PassFields
<1>5. life[s] = "live" => /\ s \in tracked /\ seqLen[s] = e
                          /\ \A l \in Layers : Len(table[l][s]) = BlocksFor(e)
  <2> SUFFICES ASSUME life[s] = "live"
               PROVE  /\ s \in tracked /\ seqLen[s] = e
                      /\ \A l \in Layers : Len(table[l][s]) = BlocksFor(e)
    OBVIOUS
  <2>1. s \in tracked
    BY <1>3, <1>4 DEF PoolInv, Unrun
  <2>2. ~Flux(s)
    BY <1>1 DEF Flux
  <2> QED
    BY <1>1, <1>4, <2>1, <2>2 DEF PoolInv, Settled
<1>6. /\ PoolSound' /\ tracked' = tracked
      /\ \A q \in Seqs \ {s} : /\ seqLen'[q] = seqLen[q]
                               /\ \A l \in Layers : table'[l][q] = table[l][q]
      /\ seqLen'[s] = IF s \in tracked /\ len < seqLen[s] THEN len ELSE seqLen[s]
      /\ \A l \in Layers : Len(table'[l][s]) =
           IF s \in tracked /\ len < seqLen[s] /\ BlocksFor(len) < Len(table[l][s])
             THEN BlocksFor(len) ELSE Len(table[l][s])
  <2>1. PoolSound /\ TruncateSequence(s, len)
    BY <1>1, <1>2 DEF PoolInv
  <2> QED
    BY <1>3, <2>1, TruncateSound
<1>7. /\ pos'[s] = len /\ \A q \in Seqs \ {s} : pos'[q] = pos[q]
      /\ pos' \in [Seqs -> Nat]
  BY <1>1, <1>2, <1>3 DEF PoolInv, CallerTypes
<1>8. CallerTypes'
  <2>1. \A q \in Seqs : pos'[q] <= MaxLen
    BY <1>3, <1>7 DEF PoolInv, CallerTypes
  <2>2. fwd' \in [at : {"idle", "ensure", "store", "attend", "verify", "dead"},
                  seq : Seqs \cup {None}, start : Nat, n : Nat, layer : Nat]
    BY <1>1 DEF Idle
  <2> QED
    BY <1>1, <1>7, <2>1, <2>2 DEF PoolInv, CallerTypes
<1>9. fwd'.at = "idle"
  BY <1>1 DEF Idle
<1>10. Unrun'
  <2> SUFFICES ASSUME NEW q \in Seqs
               PROVE  /\ life[q] = "new" => q \notin tracked /\ pos'[q] = 0
                      /\ life[q] = "live" /\ q \notin tracked => pos'[q] = 0
    BY <1>1, <1>6 DEF Unrun
  <2>1. CASE q = s
    BY <1>4, <1>5, <2>1
  <2>2. CASE q # s
    BY <1>7, <2>2 DEF PoolInv, Unrun
  <2> QED
    BY <2>1, <2>2
<1>11. PassFields' /\ InFlux'
  BY <1>9 DEF PassFields, InFlux, Flux
<1>12. Settled'
  <2> SUFFICES ASSUME NEW q \in Seqs, life[q] = "live", q \in tracked
               PROVE  /\ seqLen'[q] = pos'[q]
                      /\ \A l \in Layers : Len(table'[l][q]) = BlocksFor(pos'[q])
    BY <1>1, <1>6 DEF Settled
  <2>1. CASE q = s
    <3>1. seqLen[s] = e /\ \A l \in Layers : Len(table[l][s]) = BlocksFor(e)
      BY <1>5, <2>1
    <3>2. BlocksFor(len) \in Nat /\ BlocksFor(e) \in Nat /\ BlocksFor(len) <= BlocksFor(e)
      BY <1>3, BlocksForType, BlocksForMono
    <3>3. CASE len < e
      BY <1>6, <1>7, <2>1, <3>1, <3>2, <3>3
    <3>4. CASE len = e
      BY <1>6, <1>7, <2>1, <3>1, <3>2, <3>4
    <3> QED
      BY <1>3, <3>3, <3>4
  <2>2. CASE q # s
    <3>1. ~Flux(q)
      BY <1>1 DEF Flux
    <3>2. seqLen[q] = pos[q] /\ \A l \in Layers : Len(table[l][q]) = BlocksFor(pos[q])
      BY <1>1, <3>1 DEF PoolInv, Settled
    <3> QED
      BY <1>6, <1>7, <2>2, <3>2
  <2> QED
    BY <2>1, <2>2
<1> QED
  BY <1>6, <1>8, <1>10, <1>11, <1>12 DEF PoolInv

-----------------------------------------------------------------------------
(* The theorems.                                                           *)

\* No step of handlers or forward pass breaks the invariant.
THEOREM PoolInvariance == Spec => []PoolInv
<1>1. Init => PoolInv
  BY InitInv
<1>2. ASSUME PoolInv, [Next]_vars PROVE PoolInv'
  <2>1. CASE UNCHANGED vars
    <3>1. UNCHANGED poolVars /\ UNCHANGED <<up, life, shared, pos, fwd>>
      BY <2>1 DEF vars
    <3>2. PoolSound' /\ tracked' = tracked /\ table' = table /\ seqLen' = seqLen
      BY <1>2, <3>1, SameSound DEF PoolInv
    <3> QED
      BY <1>2, <3>1, <3>2 DEF PoolInv, CallerTypes, Unrun, PassFields, InFlux, Settled, Flux, Holds, Stored
  <2>2. CASE Next
    <3>1. ASSUME NEW s \in Seqs, Add(s) \/ Remove(s) PROVE PoolInv'
      BY <1>2, <3>1, AddInv, RemoveInv
    <3>2. ASSUME NEW src \in Seqs, NEW dst \in Seqs, NEW n \in ShareLens, Share(src, dst, n)
          PROVE  PoolInv'
      BY <1>2, <3>2, ShareInv
    <3>3. ASSUME NEW s \in Seqs, NEW n \in Chunks, Pick(s, n) PROVE PoolInv'
      BY <1>2, <3>3, PickInv
    <3>4. CASE EnsureSequence \/ LayerStore \/ LayerAttend \/ LayerError
      BY <1>2, <3>4, EnsureInv, LayerStoreInv, LayerAttendInv, LayerErrorInv
    <3>5. ASSUME NEW len \in 1..MaxLen, Rollback(len) PROVE PoolInv'
      BY <1>2, <3>5, RollbackInv
    <3> QED
      BY <2>2, <3>1, <3>2, <3>3, <3>4, <3>5, Zenon DEF Next
  <2> QED
    BY <1>2, <2>1, <2>2
<1> QED
  BY <1>1, <1>2, PTL DEF Spec

\* The references the run counts are the entries that name the block.
LEMMA RefsToNaming ==
  ASSUME NEW l, NEW b
  PROVE  RefsTo(l, b) = Naming(Entries(table[l]), table[l], b)
BY Zenon DEF RefsTo, Naming, Entries

\* A block's reference count is the number of table entries that name it: no
\* sharing, truncation, deletion under a pass or failed store miscounts.
THEOREM CountsExact == Spec => []RefCountsExact
<1>1. PoolInv => RefCountsExact
  <2> SUFFICES ASSUME PoolInv, NEW l \in Layers, NEW b \in Blocks
               PROVE  refs[l][b] = Cardinality(RefsTo(l, b))
    BY DEF RefCountsExact
  <2>1. Exact(Entries(table[l]), table[l], refs[l], freeList[l])
    BY DEF PoolInv, PoolSound, Counted
  <2>2. refs[l][b] = Cardinality(Naming(Entries(table[l]), table[l], b))
    BY <2>1 DEF Exact
  <2> QED
    BY <2>2, RefsToNaming
<1> QED
  BY <1>1, PoolInvariance, PTL

\* The free list of a layer is, without repetition, the blocks no table
\* names: none is lost, freed twice or handed out while in use.
THEOREM FreeExact == Spec => []FreeListExact
<1>1. PoolInv => FreeListExact
  <2> SUFFICES ASSUME PoolInv PROVE FreeListExact
    OBVIOUS
  <2>1. ASSUME NEW l \in Layers
        PROVE  /\ refs[l] \in [Blocks -> Nat] /\ freeList[l] \in Seq(Blocks)
               /\ \A i, j \in DOMAIN freeList[l] : freeList[l][i] = freeList[l][j] => i = j
               /\ {freeList[l][i] : i \in DOMAIN freeList[l]} = {b \in Blocks : refs[l][b] = 0}
    <3>1. PICK T, R, F : T = table[l] /\ R = refs[l] /\ F = freeList[l]
      OBVIOUS
    <3>2. Exact(Entries(T), T, R, F)
      BY <3>1 DEF PoolInv, PoolSound, Counted
    <3>3. R \in [Blocks -> Nat] /\ F \in Seq(Blocks) /\ DOMAIN F = 1..Len(F)
      BY <3>2 DEF Exact
    <3>4. \A i, j \in DOMAIN F : F[i] = F[j] => i = j
      BY <3>2, <3>3 DEF Exact
    <3>5. \A b \in Blocks : R[b] = 0 <=> \E i \in DOMAIN F : F[i] = b
      BY <3>2, <3>3 DEF Exact
    <3>6. \A i \in DOMAIN F : F[i] \in Blocks
      BY <3>3
    <3>7. {F[i] : i \in DOMAIN F} = {b \in Blocks : R[b] = 0}
      BY <3>5, <3>6
    <3> QED
      BY <3>1, <3>3, <3>4, <3>7
  <2>2. refs \in [Layers -> [Blocks -> Nat]] /\ freeList \in [Layers -> Seq(Blocks)]
    BY DEF PoolInv, PoolSound, Counted
  <2>3. TypeOK
    BY <2>2 DEF TypeOK, PoolInv, PoolSound, PoolTypes, CallerTypes
  <2> QED
    BY <2>1, <2>3 DEF FreeListExact
<1> QED
  BY <1>1, PoolInvariance, PTL

\* Between passes every layer of a live sequence has exactly the blocks of
\* its position, also after truncations and shared prefixes.
THEOREM LayersInStep == Spec => []LayersAgree
<1>1. PoolInv => LayersAgree
  BY DEF PoolInv, Settled, LayersAgree, Flux
<1> QED
  BY <1>1, PoolInvariance, PTL
=============================================================================
