------------------------- MODULE PagedKVCacheProofs --------------------------
(***************************************************************************)
(* The host-side paged cache without fragments, which is how the program   *)
(* uses it, for every number of layers and blocks, block size, length and  *)
(* number of sequences, any of which may be deleted at any time, also in   *)
(* the middle of a pass over it.  Until a truncation races a deletion no   *)
(* block is lost, handed out twice or freed while a table holds it, with   *)
(* one layer the counts are exact, and the attention of a sequence that is *)
(* still there gathers what was stored for each of its positions.          *)
(***************************************************************************)
EXTENDS PagedKVCache, FiniteSetTheorems, SequenceTheorems, WellFoundedInduction, TLAPS

\* Outside the tests of kv nobody caches or inserts a fragment.
NoFragments == \A c \in Configs : c.Names = {}

-----------------------------------------------------------------------------
(* Control.                                                                *)

KV == Int \X Int \X Int
TableType == [blocks : [Layers -> Seq(Blocks)], seqLen : 0..config.MaxLen,
              ranges : Seq([start : Nat, num : Nat])]
Present == {"fresh", "live", "finished"}

\* Who is registered, and with which table.
Lives ==
  /\ config \in Configs /\ config.Names = {} /\ ins = NoInsert
  /\ nextSeqID \in 1..(MaxSeqs + 1)
  /\ life \in [SeqIDs -> Present \cup {"none", "gone", "left", "torn"}]
  /\ \A s \in SeqIDs : life[s] = "none" <=> s >= nextSeqID
  /\ batch \subseteq SeqIDs /\ \A s \in batch : life[s] \in {"live", "left"}
Registered ==
  /\ sequences \in [SeqIDs -> {0} \cup Objects]
  /\ \A s \in SeqIDs : /\ life[s] \in Present => sequences[s] = s
                       /\ life[s] \in {"none", "gone"} => sequences[s] = 0
                       /\ life[s] \in {"left", "torn"} => sequences[s] \in {0, MaxSeqs + s}

\* The tables; one that has not been made yet is empty.
Tables ==
  /\ table \in [Objects -> TableType]
  /\ \A s \in SeqIDs : /\ life[s] = "none" => table[s] = NewBlockTable
                       /\ sequences[s] # MaxSeqs + s => table[MaxSeqs + s] = NewBlockTable
Stored ==
  /\ ctx \in [SeqIDs -> Seq(KV)] /\ version \in [SeqIDs -> Int]
  /\ \A s \in SeqIDs : Len(ctx[s]) <= config.MaxLen /\ (life[s] = "none" => ctx[s] = << >>)

OpType == [pc : {"idle", "store", "fill", "attend", "verify", "cut", "dead"}, s : 0..MaxSeqs,
           obj : 0..(2 * MaxSeqs), layer : Nat, i : Nat, start : Nat, n : Nat]

\* How far the running pass has got, and the table it holds: the one in the map,
\* or the sequence's first one after its deletion.
Pass ==
  /\ op \in OpType
  /\ op.pc \in {"idle", "dead"} => op.s = 0
  /\ op.pc \notin {"idle", "dead"} =>
       /\ op.s \in SeqIDs \ batch /\ life[op.s] \in {"live", "left"} /\ op.layer \in Layers
       /\ op.n > 0 /\ op.start + op.n <= config.MaxLen
  /\ op.pc \in {"fill", "cut"} =>
       op.obj # 0 /\ (op.obj = sequences[op.s] \/ (op.obj = op.s /\ life[op.s] = "left"))
  /\ op.pc \in {"store", "fill"} => op.i < op.n /\ Len(ctx[op.s]) = op.start + op.n
  /\ op.pc \in {"attend", "verify", "cut"} => op.start + op.n <= Len(ctx[op.s])
  /\ op.pc = "attend" => Len(ctx[op.s]) = op.start + op.n

Ctl == Lives /\ Registered /\ Tables /\ Stored /\ Pass

-----------------------------------------------------------------------------
(* Entries.                                                                *)

\* The entries of lists T of the owners O: <<owner, <<index, block>>>>.
Ent(O, I, B, T) == {e \in O \X (I \X B) : e[2][1] \in 1..Len(T[e[1]]) /\ T[e[1]][e[2][1]] = e[2][2]}

\* Those that name block b.
Naming(E, b) == {e \in E : e[2][2] = b}

\* Free list F has, once, the blocks of B that no entry names, no block is named
\* twice, and no count R is above one; with one layer the counts are exact.
Good(B, one, E, R, F) ==
  /\ IsFiniteSet(E) /\ \A e \in E : e[2][2] \in B
  /\ R \in [B -> Nat] /\ F \in Seq(B)
  /\ \A i, j \in 1..Len(F) : F[i] = F[j] => i = j
  /\ \A b \in B : (\E i \in 1..Len(F) : F[i] = b) <=> Naming(E, b) = {}
  /\ one => \A b \in B : R[b] = Cardinality(Naming(E, b))
  /\ \A b \in B : R[b] <= 1 /\ \A x, y \in Naming(E, b) : x = y

\* An allocator of layers L and blocks B, with its parts named.
IsAlloc(L, B, a, G, R) == a = [free |-> G, ref |-> R] /\ G \in [L -> Seq(B)] /\ R \in [B -> Nat]
Typed(a) == \E G, R : IsAlloc(Layers, Blocks, a, G, R)

\* An allocator with the layers L that is exact for the entries EE of each.
All(L, B, one, EE, a) ==
  \E G, R : /\ IsAlloc(L, B, a, G, R) /\ (one => L = {1})
            /\ \A l \in L : Good(B, one, EE[l], R, G[l])

\* The sequences hold blocks: those of their registered tables, layer by layer.
Owners == SeqIDs
ListsOf(sq, tb) == [l \in Layers |-> [s \in Owners |-> IF sq[s] = 0 THEN << >> ELSE tb[sq[s]].blocks[l]]]
HeldOf(T) == [l \in Layers |-> Ent(Owners, Indices, Blocks, T[l])]
ExactFor(T, a) == All(Layers, Blocks, config.NumLayers = 1, HeldOf(T), a)
ListsFit(T) == \A l \in Layers, o \in Owners : T[l][o] \in Seq(Blocks) /\ Len(T[l][o]) <= config.MaxBlocks
AccountsOf(T, a) == ExactFor(T, a) /\ ListsFit(T)
Accounts == AccountsOf(ListsOf(sequences, table), alloc)

PagedInv == Ctl /\ Typed(alloc) /\ (~Torn => Accounts)

-----------------------------------------------------------------------------
(* Releasing blocks.                                                       *)

\* A set of natural numbers that is not empty has a least element.
LEMMA NatMin ==
  ASSUME NEW T, T \subseteq Nat, T # {}
  PROVE  \E x \in T : \A y \in T : x <= y
<1>1. IsWellFoundedOn(OpToRel(<, Nat), Nat)
  BY NatLessThanWellFounded
<1>2. PICK x \in T : \A y \in T : ~ (<<y, x>> \in OpToRel(<, Nat))
  BY <1>1, WFMin
<1>3. \A y \in T : y < x => <<y, x>> \in OpToRel(<, Nat)
  BY DEF OpToRel
<1>4. \A y \in T : ~(y < x)
  BY <1>2, <1>3, Zenon
<1> QED
  BY <1>4

\* Induction over the natural numbers, for a set.
LEMMA NatInd ==
  ASSUME NEW T, T \subseteq Nat, 0 \in T, \A n \in T : n + 1 \in T
  PROVE  T = Nat
<1> SUFFICES ASSUME Nat \ T # {} PROVE FALSE
  OBVIOUS
<1>1. PICK x \in Nat \ T : \A y \in Nat \ T : x <= y
  BY NatMin
<1>2. x # 0 /\ x - 1 \in Nat /\ x = (x-1) + 1
  OBVIOUS
<1>3. x - 1 \in T
  BY <1>1, <1>2
<1> QED BY <1>2, <1>3

\* The entries that name a block are finitely many.
LEMMA NamingFinite ==
  ASSUME NEW E, IsFiniteSet(E), NEW b
  PROVE  /\ IsFiniteSet(Naming(E, b)) /\ Cardinality(Naming(E, b)) \in Nat
         /\ Cardinality(Naming(E, b)) = 0 <=> Naming(E, b) = {}
<1>1. Naming(E, b) \in SUBSET E
  BY DEF Naming
<1>2. IsFiniteSet(Naming(E, b))
  BY <1>1, FS_Subset
<1> QED
  BY <1>2, FS_CardinalityType, FS_EmptySet

\* The free list and the counts after an entry of block b is dropped: the block is put
\* back exactly if its count was one.
Dropped(R, F, b, R2, F2) ==
  IF R[b] <= 1 THEN R2 = [R EXCEPT ![b] = 0] /\ F2 = Append(F, b)
               ELSE R2 = [R EXCEPT ![b] = R[b] - 1] /\ F2 = F

\* An append at the end of a free list.
LEMMA Appended ==
  ASSUME NEW B, NEW F \in Seq(B), NEW b \in B, NEW F2, F2 = Append(F, b)
  PROVE  /\ F2 \in Seq(B) /\ Len(F2) = Len(F) + 1 /\ Len(F) \in Nat
         /\ \A i \in 1..Len(F) : F2[i] = F[i]
         /\ F2[Len(F) + 1] = b
OBVIOUS

\* Free, for one entry of a layer.
\* Free, for one entry of a layer.
LEMMA DropGood ==
  ASSUME NEW B, NEW one \in BOOLEAN, NEW E, NEW R, NEW F, Good(B, one, E, R, F),
         NEW x \in E, NEW b \in B, x[2][2] = b, NEW R2, NEW F2, Dropped(R, F, b, R2, F2)
  PROVE  Good(B, one, E \ {x}, R2, F2)
<1>1. R \in [B -> Nat] /\ F \in Seq(B) /\ IsFiniteSet(E)
  BY DEF Good
<1>2. x \in Naming(E, b)
  BY DEF Naming
<1>3. \A c \in B : c # b => Naming(E \ {x}, c) = Naming(E, c)
  BY DEF Naming
<1>4. R[b] <= 1 /\ \A y, z \in Naming(E, b) : y = z
  BY DEF Good
<1>5. Naming(E \ {x}, b) = {}
  BY <1>2, <1>4 DEF Naming
<1>6. R2 = [R EXCEPT ![b] = 0] /\ F2 = Append(F, b)
  BY <1>4 DEF Dropped
<1>7. R2 \in [B -> Nat] /\ R2[b] = 0 /\ \A c \in B : c # b => R2[c] = R[c]
  BY <1>1, <1>6
<1>8. IsFiniteSet(E \ {x}) /\ \A e \in E \ {x} : e[2][2] \in B
  <2>1. E \ {x} \in SUBSET E
    OBVIOUS
  <2> QED
    BY <1>1, <2>1, FS_Subset DEF Good
<1>9. PICK n \in Nat : n = Len(F)
  BY <1>1
<1>10. /\ \A i, j \in 1..n : F[i] = F[j] => i = j
       /\ \A c \in B : (\E i \in 1..n : F[i] = c) <=> Naming(E, c) = {}
  BY <1>9 DEF Good
<1>11. one => \A c \in B : R2[c] = Cardinality(Naming(E \ {x}, c))
  <2> SUFFICES ASSUME one, NEW c \in B PROVE R2[c] = Cardinality(Naming(E \ {x}, c))
    OBVIOUS
  <2>1. CASE c = b
    BY <1>5, <1>7, <2>1, FS_EmptySet
  <2>2. CASE c # b
    BY <1>3, <1>7, <2>2 DEF Good
  <2> QED
    BY <2>1, <2>2
<1>12. \A c \in B : R2[c] <= 1 /\ \A y, z \in Naming(E \ {x}, c) : y = z
  <2> TAKE c \in B
  <2>1. CASE c = b
    BY <1>5, <1>7, <2>1
  <2>2. CASE c # b
    BY <1>3, <1>7, <2>2 DEF Good
  <2> QED
    BY <2>1, <2>2
<1>13. F2 \in Seq(B) /\ Len(F2) = n + 1 /\ F2[n + 1] = b /\ \A i \in 1..n : F2[i] = F[i]
  BY <1>1, <1>6, <1>9, Appended
<1>14. \A i \in 1..n : F[i] # b
  BY <1>2, <1>10
<1>15. \A i \in 1..(n + 1) : i \in 1..n \/ i = n + 1
  OBVIOUS
<1>16. \A i, j \in 1..(n + 1) : F2[i] = F2[j] => i = j
  BY <1>10, <1>13, <1>14, <1>15
<1>17. \A c \in B : (\E i \in 1..(n + 1) : F2[i] = c) <=> Naming(E \ {x}, c) = {}
  <2> TAKE c \in B
  <2>1. CASE c = b
    <3>1. n + 1 \in 1..(n + 1)
      OBVIOUS
    <3> QED
      BY <1>5, <1>13, <2>1, <3>1
  <2>2. CASE c # b
    <3>1. (\E i \in 1..(n + 1) : F2[i] = c) <=> \E i \in 1..n : F[i] = c
      BY <1>13, <1>15, <2>2
    <3> QED
      BY <1>3, <1>10, <2>2, <3>1
  <2> QED
    BY <2>1, <2>2
<1> QED
  BY <1>7, <1>8, <1>11, <1>12, <1>13, <1>16, <1>17 DEF Good

\* In the other layers nothing changes but the counts, which stay at most one.
LEMMA OthersGood ==
  ASSUME NEW B, NEW E, NEW R, NEW F, Good(B, FALSE, E, R, F), NEW b \in B, NEW R2, NEW F2, NEW F3,
         Dropped(R, F3, b, R2, F2)
  PROVE  Good(B, FALSE, E, R2, F)
<1>1. R \in [B -> Nat] /\ \A c \in B : R[c] <= 1
  BY DEF Good
<1>2. R2 = [R EXCEPT ![b] = 0]
  BY <1>1 DEF Dropped
<1>3. R2 \in [B -> Nat] /\ \A c \in B : R2[c] <= 1
  BY <1>1, <1>2
<1> QED
  BY <1>3 DEF Good

\* From the free lists G and counts R to H and R2: block b is dropped in layer l.
Freed(L, l, b, G, R, H, R2) ==
  Dropped(R, G[l], b, R2, H[l]) /\ \A k \in L \ {l} : H[k] = G[k]

\* Free does that, in the layer it is called for.
LEMMA FreeIs ==
  ASSUME NEW L, NEW B, NEW a, NEW G, NEW R, IsAlloc(L, B, a, G, R), NEW l \in L, NEW b \in B
  PROVE  \E H, R2 : IsAlloc(L, B, Free(a, l, b), H, R2) /\ Freed(L, l, b, G, R, H, R2)
<1>1. /\ a = [free |-> G, ref |-> R] /\ G \in [L -> Seq(B)] /\ R \in [B -> Nat]
      /\ a.free = G /\ a.ref = R
  BY DEF IsAlloc
<1>2. CASE R[b] <= 1
  <2>1. Append(G[l], b) \in Seq(B)
    <3>1. G[l] \in Seq(B)
      BY <1>1
    <3> QED
      BY <3>1, Appended
  <2>2. PICK H : H = [G EXCEPT ![l] = Append(G[l], b)]
    OBVIOUS
  <2>3. PICK R2 : R2 = [R EXCEPT ![b] = 0]
    OBVIOUS
  <2>4. H \in [L -> Seq(B)] /\ H[l] = Append(G[l], b) /\ \A k \in L \ {l} : H[k] = G[k]
    BY <1>1, <2>1, <2>2
  <2>5. R2 \in [B -> Nat]
    BY <1>1, <2>3
  <2>6. Free(a, l, b) = [free |-> H, ref |-> R2]
    BY <1>1, <1>2, <2>2, <2>3 DEF Free
  <2>7. Dropped(R, G[l], b, R2, H[l])
    BY <1>2, <2>3, <2>4 DEF Dropped
  <2> QED
    BY <2>4, <2>5, <2>6, <2>7 DEF IsAlloc, Freed
<1>3. CASE ~(R[b] <= 1)
  <2>1. PICK r \in Nat : r = R[b] /\ ~(r <= 1)
    BY <1>1, <1>3
  <2>2. PICK R2 : R2 = [R EXCEPT ![b] = R[b] - 1]
    OBVIOUS
  <2>3. R2 \in [B -> Nat]
    BY <1>1, <2>1, <2>2
  <2>4. Free(a, l, b) = [a EXCEPT !.ref[b] = @ - 1]
    BY <1>1, <1>3 DEF Free
  <2>5. [a EXCEPT !.ref[b] = @ - 1] = [a EXCEPT !.ref = [a.ref EXCEPT ![b] = a.ref[b] - 1]]
    OBVIOUS
  <2>6. [a EXCEPT !.ref = R2] = [free |-> G, ref |-> R2]
    BY <1>1
  <2>7. Free(a, l, b) = [free |-> G, ref |-> R2]
    BY <1>1, <2>2, <2>4, <2>5, <2>6
  <2>8. Dropped(R, G[l], b, R2, G[l])
    BY <1>3, <2>2 DEF Dropped
  <2> QED
    BY <1>1, <2>3, <2>7, <2>8 DEF IsAlloc, Freed
<1> QED
  BY <1>2, <1>3

\* In layer l entry x is gone.
OneGone(L, EE, E2, l, x) == \A k \in L : E2[k] = IF k = l THEN EE[l] \ {x} ELSE EE[k]

\* Free drops one entry and leaves the allocator exact.
LEMMA FreeAllocator ==
  ASSUME NEW L, NEW B, NEW one \in BOOLEAN, NEW EE, NEW a, All(L, B, one, EE, a),
         NEW l \in L, NEW x \in EE[l], NEW b \in B, x[2][2] = b,
         NEW E2, OneGone(L, EE, E2, l, x)
  PROVE  All(L, B, one, E2, Free(a, l, b))
<1>1. PICK G, R : /\ IsAlloc(L, B, a, G, R) /\ (one => L = {1})
                  /\ \A k \in L : Good(B, one, EE[k], R, G[k])
  BY DEF All
<1>2. PICK H, R2 : IsAlloc(L, B, Free(a, l, b), H, R2) /\ Freed(L, l, b, G, R, H, R2)
  BY <1>1, FreeIs
<1>3. ASSUME NEW k \in L PROVE Good(B, one, E2[k], R2, H[k])
  <2>1. CASE k = l
    <3>1. PICK E, F, F2 : E = EE[l] /\ F = G[l] /\ F2 = H[l]
      OBVIOUS
    <3>2. PICK y \in E : y = x /\ y[2][2] = b
      BY <3>1
    <3>3. Good(B, one, E, R, F) /\ Dropped(R, F, b, R2, F2)
      BY <1>1, <1>2, <3>1 DEF Freed
    <3>4. Good(B, one, E \ {y}, R2, F2)
      BY <3>2, <3>3, DropGood
    <3> QED
      BY <2>1, <3>1, <3>2, <3>4 DEF OneGone
  <2>2. CASE k # l
    <3>1. PICK E, F, F2, F3 : E = EE[k] /\ F = G[k] /\ F2 = H[l] /\ F3 = G[l]
      OBVIOUS
    <3>2. ~one
      BY <1>1, <2>2
    <3>3. Good(B, FALSE, E, R, F) /\ Dropped(R, F3, b, R2, F2)
      BY <1>1, <1>2, <3>1, <3>2 DEF Freed
    <3>4. Good(B, FALSE, E, R2, F)
      BY <3>3, OthersGood
    <3>5. H[k] = F /\ E2[k] = E /\ one = FALSE
      BY <1>2, <2>2, <3>1, <3>2 DEF Freed, OneGone
    <3> QED
      BY <3>1, <3>4, <3>5
  <2> QED
    BY <2>1, <2>2
<1> QED
  BY <1>1, <1>2, <1>3 DEF All

\* The loop over the blocks t of layer l.
Steps(a, l, t, g, n) == g = [i \in 0..n |-> IF i = 0 THEN a ELSE Free(g[i - 1], l, t[i])]

\* The loop is well defined, for every number of blocks.
LEMMA StepsExist ==
  ASSUME NEW a, NEW l, NEW t, NEW n \in Nat
  PROVE  \E g : Steps(a, l, t, g, n)
<1> DEFINE T == {m \in Nat : \E g : Steps(a, l, t, g, m)}
<1>1. 0 \in T
  <2>1. \A i \in 0..0 : i = 0
    OBVIOUS
  <2>2. [i \in 0..0 |-> a] = [i \in 0..0 |-> IF i = 0 THEN a ELSE Free([k \in 0..0 |-> a][i - 1], l, t[i])]
    BY <2>1
  <2>3. Steps(a, l, t, [i \in 0..0 |-> a], 0)
    BY <2>2 DEF Steps
  <2> QED BY <2>3
<1>2. ASSUME NEW m \in T PROVE m + 1 \in T
  <2>1. PICK g : Steps(a, l, t, g, m)
    OBVIOUS
  <2> DEFINE h == [i \in 0..m + 1 |-> IF i <= m THEN g[i] ELSE Free(g[m], l, t[m + 1])]
  <2>2. ASSUME NEW i \in 0..m + 1
        PROVE  h[i] = IF i = 0 THEN a ELSE Free(h[i - 1], l, t[i])
    <3>1. CASE i = 0
      BY <2>1, <3>1 DEF Steps
    <3>2. CASE i \in 1..m
      <4>1. h[i] = g[i] /\ h[i - 1] = g[i - 1]
        BY <3>2
      <4>2. g[i] = Free(g[i - 1], l, t[i])
        BY <2>1, <3>2 DEF Steps
      <4> QED BY <3>2, <4>1, <4>2
    <3>3. CASE i = m + 1
      <4>1. h[i] = Free(g[m], l, t[m + 1]) /\ h[i - 1] = g[m] /\ i # 0
        BY <3>3
      <4> QED BY <3>3, <4>1
    <3> QED BY <3>1, <3>2, <3>3
  <2>3. h = [i \in 0..m + 1 |-> h[i]]
    OBVIOUS
  <2> HIDE DEF h
  <2>4. h = [i \in 0..m + 1 |-> IF i = 0 THEN a ELSE Free(h[i - 1], l, t[i])]
    BY <2>2, <2>3
  <2>5. Steps(a, l, t, h, m + 1)
    BY <2>4 DEF Steps
  <2> QED BY <2>5
<1> HIDE DEF T
<1>3. T = Nat
  <2>1. T \subseteq Nat
    BY DEF T
  <2> QED BY <1>1, <1>2, <2>1, NatInd
<1> QED BY <1>3 DEF T

\* FreeLayer is the last of those steps.
LEMMA FreeLayerIs ==
  ASSUME NEW a, NEW l, NEW t, Len(t) \in Nat
  PROVE  \E g : Steps(a, l, t, g, Len(t)) /\ FreeLayer(a, l, t) = g[Len(t)]
<1> DEFINE G == CHOOSE g : g = [i \in 0..Len(t) |-> IF i = 0 THEN a ELSE Free(g[i - 1], l, t[i])]
<1>1. FreeLayer(a, l, t) = G[Len(t)]
  BY DEF FreeLayer
<1>2. \E g : Steps(a, l, t, g, Len(t))
  BY StepsExist
<1>3. \E g : g = [i \in 0..Len(t) |-> IF i = 0 THEN a ELSE Free(g[i - 1], l, t[i])]
  BY <1>2 DEF Steps
<1>4. Steps(a, l, t, G, Len(t))
  BY <1>3 DEF Steps
<1> QED
  BY <1>1, <1>4

\* The entries of owner o behind index from, and what is left without them.
Tail_(E, o, from) == {e \in E : e[1] = o /\ e[2][1] > from}
CutAt(E, o, from) == {e \in E : ~(e[1] = o /\ e[2][1] > from)}

\* Entries have an owner, an index and a block, and an index names one block.
Single(E) ==
  /\ \A e \in E : e = <<e[1], <<e[2][1], e[2][2]>>>> /\ e[2][1] \in Nat
  /\ \A x, y \in E : x[1] = y[1] /\ x[2][1] = y[2][1] => x = y

\* List t has the blocks of the entries of o behind index from.
Lists_(E, B, o, from, t) ==
  /\ t \in Seq(B)
  /\ \A j \in 1..Len(t) : <<o, <<from + j, t[j]>>>> \in E
  /\ \A e \in E : e[1] = o => e[2][1] <= from + Len(t)

\* What is left of entries E when the first i of those blocks are released.
Left(E, o, from, i) == {e \in E : ~(e[1] = o /\ e[2][1] > from /\ e[2][1] <= from + i)}
LeftAt(L, EE, l, o, from, i) == [k \in L |-> IF k = l THEN Left(EE[l], o, from, i) ELSE EE[k]]

\* E2 is E without an entry of block b.
OneLess(B, E, E2, b) == \E x \in E : x[2][2] = b /\ b \in B /\ E2 = E \ {x}

\* Releasing one more.
LEMMA LeftNext ==
  ASSUME NEW E, NEW B, NEW o, NEW from \in Nat, NEW t, Single(E), Lists_(E, B, o, from, t),
         NEW i \in Nat, i + 1 <= Len(t)
  PROVE  OneLess(B, Left(E, o, from, i), Left(E, o, from, i + 1), t[i + 1])
<1>1. t \in Seq(B) /\ Len(t) \in Nat /\ i + 1 \in 1..Len(t)
  BY DEF Lists_
<1>2. t[i + 1] \in B
  BY <1>1
<1>3. PICK x : x = <<o, <<from + (i + 1), t[i + 1]>>>>
  OBVIOUS
<1>4. x \in E
  BY <1>1, <1>3 DEF Lists_
<1>5. x[1] = o /\ x[2][1] = from + (i + 1) /\ x[2][2] = t[i + 1]
  BY <1>3
<1>6. x \in Left(E, o, from, i)
  BY <1>4, <1>5 DEF Left
<1>7. ASSUME NEW e \in E PROVE e \in Left(E, o, from, i + 1) <=> e \in Left(E, o, from, i) \ {x}
  <2>1. e[2][1] \in Nat
    BY DEF Single
  <2>2. e[1] = o /\ e[2][1] = from + (i + 1) <=> e = x
    BY <1>4, <1>5 DEF Single
  <2> QED
    BY <1>5, <2>1, <2>2 DEF Left
<1>8. Left(E, o, from, i + 1) \subseteq E /\ Left(E, o, from, i) \subseteq E
  BY DEF Left
<1>9. Left(E, o, from, i + 1) = Left(E, o, from, i) \ {x}
  BY <1>7, <1>8
<1> QED
  BY <1>2, <1>5, <1>6, <1>9 DEF OneLess

\* With no block released, and with all.
LEMMA LeftEnds ==
  ASSUME NEW E, NEW B, NEW o, NEW from \in Nat, NEW t, Single(E), Lists_(E, B, o, from, t)
  PROVE  Left(E, o, from, 0) = E /\ Left(E, o, from, Len(t)) = CutAt(E, o, from)
<1>1. Len(t) \in Nat /\ \A e \in E : e[2][1] \in Nat /\ (e[1] = o => e[2][1] <= from + Len(t))
  BY DEF Single, Lists_
<1> QED
  BY <1>1 DEF Left, CutAt

\* In layer l the entries of o behind index from are gone.
CutOne(L, EE, E2, l, o, from) == \A k \in L : E2[k] = IF k = l THEN CutAt(EE[l], o, from) ELSE EE[k]

\* FreeLayer releases the entries of o behind index from.
LEMMA FreeLayerExact ==
  ASSUME NEW L, NEW B, NEW one \in BOOLEAN, NEW EE, NEW a, All(L, B, one, EE, a), NEW l \in L,
         NEW o, NEW from \in Nat, NEW t, Single(EE[l]), Lists_(EE[l], B, o, from, t),
         NEW E2, CutOne(L, EE, E2, l, o, from)
  PROVE  All(L, B, one, E2, FreeLayer(a, l, t))
<1>1. t \in Seq(B) /\ Len(t) \in Nat
  BY DEF Lists_
<1>2. PICK g : Steps(a, l, t, g, Len(t)) /\ FreeLayer(a, l, t) = g[Len(t)]
  BY <1>1, FreeLayerIs
<1>3. g[0] = a
  BY <1>1, <1>2 DEF Steps
<1>4. PICK n \in Nat : n = Len(t)
  BY <1>1
<1>5. PICK E : E = EE[l] /\ Single(E) /\ Lists_(E, B, o, from, t)
  OBVIOUS
<1> DEFINE T == {i \in Nat : i <= n => All(L, B, one, LeftAt(L, EE, l, o, from, i), g[i])}
<1>6. \A X, Y, c : All(L, B, one, X, c) /\ (\A k \in L : X[k] = Y[k]) => All(L, B, one, Y, c)
  BY DEF All
<1>7. 0 \in T
  <2>1. Left(E, o, from, 0) = E
    BY <1>5, LeftEnds
  <2>2. \A k \in L : EE[k] = LeftAt(L, EE, l, o, from, 0)[k]
    BY <1>5, <2>1 DEF LeftAt
  <2>3. All(L, B, one, LeftAt(L, EE, l, o, from, 0), a)
    BY <1>6, <2>2
  <2> QED
    BY <1>3, <2>3
<1>8. ASSUME NEW i \in T PROVE i + 1 \in T
  <2> SUFFICES ASSUME i + 1 <= n PROVE All(L, B, one, LeftAt(L, EE, l, o, from, i + 1), g[i + 1])
    OBVIOUS
  <2>1. i \in Nat /\ i <= n /\ i + 1 \in 0..n /\ i + 1 # 0 /\ (i + 1) - 1 = i
    OBVIOUS
  <2>2. PICK X : X = LeftAt(L, EE, l, o, from, i)
    OBVIOUS
  <2>3. PICK Y : Y = LeftAt(L, EE, l, o, from, i + 1)
    OBVIOUS
  <2>4. PICK c : c = g[i] /\ All(L, B, one, X, c)
    BY <2>1, <2>2
  <2>5. g[i + 1] = Free(c, l, t[i + 1])
    BY <1>2, <1>4, <2>1, <2>4 DEF Steps
  <2>6. PICK x \in Left(E, o, from, i) : /\ x[2][2] = t[i + 1] /\ t[i + 1] \in B
                                         /\ Left(E, o, from, i + 1) = Left(E, o, from, i) \ {x}
    <3>1. PICK m \in Nat : m = i /\ m + 1 <= Len(t)
      BY <1>4, <2>1
    <3> HIDE DEF T
    <3>2. OneLess(B, Left(E, o, from, m), Left(E, o, from, m + 1), t[m + 1])
      BY <1>5, <3>1, LeftNext
    <3> QED
      BY <3>1, <3>2 DEF OneLess
  <2>7. PICK b \in B : b = t[i + 1]
    BY <2>6
  <2>8. X[l] = Left(E, o, from, i) /\ Y[l] = Left(E, o, from, i + 1)
    BY <1>5, <2>2, <2>3 DEF LeftAt
  <2>9. OneGone(L, X, Y, l, x)
    BY <2>2, <2>3, <2>6, <2>8 DEF LeftAt, OneGone
  <2>10. x \in X[l] /\ x[2][2] = b
    BY <2>6, <2>7, <2>8
  <2>11. All(L, B, one, Y, Free(c, l, b))
    BY <2>4, <2>9, <2>10, FreeAllocator
  <2> QED
    BY <2>3, <2>5, <2>7, <2>11
<1> HIDE DEF T
<1>9. n \in T
  <2>1. T \subseteq Nat
    BY DEF T
  <2> QED BY <1>7, <1>8, <2>1, NatInd
<1>10. All(L, B, one, LeftAt(L, EE, l, o, from, n), g[n])
  BY <1>9 DEF T
<1>11. \A k \in L : LeftAt(L, EE, l, o, from, n)[k] = E2[k]
  <2>1. Left(E, o, from, n) = CutAt(E, o, from)
    BY <1>4, <1>5, LeftEnds
  <2> QED
    BY <1>5, <2>1 DEF LeftAt, CutOne
<1> QED
  BY <1>2, <1>4, <1>6, <1>10, <1>11

\* The loop over the layers.
LayerSteps(a, blocks, g, n) == g = [l \in 0..n |-> IF l = 0 THEN a ELSE FreeLayer(g[l - 1], l, blocks[l])]

LEMMA LayerStepsExist ==
  ASSUME NEW a, NEW blocks, NEW n \in Nat
  PROVE  \E g : LayerSteps(a, blocks, g, n)
<1> DEFINE T == {m \in Nat : \E g : LayerSteps(a, blocks, g, m)}
<1>1. 0 \in T
  <2>1. \A i \in 0..0 : i = 0
    OBVIOUS
  <2>2. [i \in 0..0 |-> a] = [i \in 0..0 |-> IF i = 0 THEN a ELSE FreeLayer([k \in 0..0 |-> a][i - 1], i, blocks[i])]
    BY <2>1
  <2>3. LayerSteps(a, blocks, [i \in 0..0 |-> a], 0)
    BY <2>2 DEF LayerSteps
  <2> QED BY <2>3
<1>2. ASSUME NEW m \in T PROVE m + 1 \in T
  <2>1. PICK g : LayerSteps(a, blocks, g, m)
    OBVIOUS
  <2> DEFINE h == [i \in 0..m + 1 |-> IF i <= m THEN g[i] ELSE FreeLayer(g[m], m + 1, blocks[m + 1])]
  <2>2. ASSUME NEW i \in 0..m + 1
        PROVE  h[i] = IF i = 0 THEN a ELSE FreeLayer(h[i - 1], i, blocks[i])
    <3>1. CASE i = 0
      BY <2>1, <3>1 DEF LayerSteps
    <3>2. CASE i \in 1..m
      <4>1. h[i] = g[i] /\ h[i - 1] = g[i - 1]
        BY <3>2
      <4>2. g[i] = FreeLayer(g[i - 1], i, blocks[i])
        BY <2>1, <3>2 DEF LayerSteps
      <4> QED BY <3>2, <4>1, <4>2
    <3>3. CASE i = m + 1
      <4>1. h[i] = FreeLayer(g[m], m + 1, blocks[m + 1]) /\ h[i - 1] = g[m] /\ i # 0
        BY <3>3
      <4> QED BY <3>3, <4>1
    <3> QED BY <3>1, <3>2, <3>3
  <2>3. h = [i \in 0..m + 1 |-> h[i]]
    OBVIOUS
  <2> HIDE DEF h
  <2>4. h = [i \in 0..m + 1 |-> IF i = 0 THEN a ELSE FreeLayer(h[i - 1], i, blocks[i])]
    BY <2>2, <2>3
  <2>5. LayerSteps(a, blocks, h, m + 1)
    BY <2>4 DEF LayerSteps
  <2> QED BY <2>5
<1> HIDE DEF T
<1>3. T = Nat
  <2>1. T \subseteq Nat
    BY DEF T
  <2> QED BY <1>1, <1>2, <2>1, NatInd
<1> QED BY <1>3 DEF T

\* FreeAll is the last of those steps.
LEMMA FreeAllIs ==
  ASSUME NEW a, NEW blocks, NEW n \in Nat, n = config.NumLayers
  PROVE  \E g : LayerSteps(a, blocks, g, n) /\ FreeAll(a, blocks) = g[n]
<1> DEFINE G == CHOOSE g : g = [l \in 0..config.NumLayers |-> IF l = 0 THEN a ELSE FreeLayer(g[l - 1], l, blocks[l])]
<1>1. FreeAll(a, blocks) = G[n]
  BY DEF FreeAll
<1>2. \E g : LayerSteps(a, blocks, g, n)
  BY LayerStepsExist
<1>3. \E g : g = [l \in 0..config.NumLayers |-> IF l = 0 THEN a ELSE FreeLayer(g[l - 1], l, blocks[l])]
  BY <1>2 DEF LayerSteps
<1>4. LayerSteps(a, blocks, G, n)
  BY <1>3 DEF LayerSteps
<1> QED
  BY <1>1, <1>4

\* What is left when the first m layers are done.
DoneTo(L, EE, o, from, m) == [k \in L |-> IF k <= m THEN CutAt(EE[k], o, from) ELSE EE[k]]

\* FreeAll releases, in every layer, the entries of o behind index from.
LEMMA FreeAllExact ==
  ASSUME NEW n \in Nat, n = config.NumLayers, NEW L, L = 1..n,
         NEW B, NEW one \in BOOLEAN, NEW EE, NEW a, All(L, B, one, EE, a),
         NEW o, NEW from \in Nat, NEW blocks,
         \A l \in L : Single(EE[l]) /\ Lists_(EE[l], B, o, from, blocks[l]),
         NEW E2, \A k \in L : E2[k] = CutAt(EE[k], o, from)
  PROVE  All(L, B, one, E2, FreeAll(a, blocks))
<1>1. PICK g : LayerSteps(a, blocks, g, n) /\ FreeAll(a, blocks) = g[n]
  BY FreeAllIs
<1>2. g[0] = a
  BY <1>1 DEF LayerSteps
<1> DEFINE T == {m \in Nat : m <= n => All(L, B, one, DoneTo(L, EE, o, from, m), g[m])}
<1>3. \A X, Y, c : All(L, B, one, X, c) /\ (\A k \in L : X[k] = Y[k]) => All(L, B, one, Y, c)
  BY DEF All
<1>4. 0 \in T
  <2>1. \A k \in L : EE[k] = DoneTo(L, EE, o, from, 0)[k]
    BY DEF DoneTo
  <2>2. All(L, B, one, DoneTo(L, EE, o, from, 0), a)
    BY <1>3, <2>1
  <2> QED
    BY <1>2, <2>2
<1>5. ASSUME NEW m \in T PROVE m + 1 \in T
  <2> SUFFICES ASSUME m + 1 <= n PROVE All(L, B, one, DoneTo(L, EE, o, from, m + 1), g[m + 1])
    OBVIOUS
  <2>1. m \in Nat /\ m <= n /\ m + 1 \in 0..n /\ m + 1 # 0 /\ (m + 1) - 1 = m
    OBVIOUS
  <2>2. PICK X : X = DoneTo(L, EE, o, from, m)
    OBVIOUS
  <2>3. PICK Y : Y = DoneTo(L, EE, o, from, m + 1)
    OBVIOUS
  <2>4. PICK c : c = g[m] /\ All(L, B, one, X, c)
    BY <2>1, <2>2
  <2>5. PICK l \in L : l = m + 1
    BY <2>1
  <2>6. PICK t : t = blocks[l]
    OBVIOUS
  <2>7. g[m + 1] = FreeLayer(c, l, t)
    BY <1>1, <2>1, <2>4, <2>5, <2>6 DEF LayerSteps
  <2>8. ~(l <= m) /\ l <= m + 1 /\ \A k \in L : k # l => (k <= m <=> k <= m + 1)
    BY <2>1, <2>5
  <2>9. X[l] = EE[l] /\ Y[l] = CutAt(EE[l], o, from)
    BY <2>2, <2>3, <2>8 DEF DoneTo
  <2>10. CutOne(L, X, Y, l, o, from)
    BY <2>2, <2>3, <2>8, <2>9 DEF DoneTo, CutOne
  <2>11. Single(X[l]) /\ Lists_(X[l], B, o, from, t)
    BY <2>6, <2>9
  <2>12. All(L, B, one, Y, FreeLayer(c, l, t))
    <3> HIDE DEF T
    <3> QED
      BY <2>4, <2>10, <2>11, FreeLayerExact
  <2> QED
    BY <2>3, <2>7, <2>12
<1> HIDE DEF T
<1>6. n \in T
  <2>1. T \subseteq Nat
    BY DEF T
  <2> QED BY <1>4, <1>5, <2>1, NatInd
<1>7. All(L, B, one, DoneTo(L, EE, o, from, n), g[n])
  BY <1>6 DEF T
<1>8. \A k \in L : DoneTo(L, EE, o, from, n)[k] = E2[k]
  BY DEF DoneTo
<1> QED
  BY <1>1, <1>3, <1>7, <1>8

-----------------------------------------------------------------------------
(* The entries of lists that are cut and grow.                             *)

\* Lists T2 are T with the list of o cut after index from.
CutList(O, B, T, T2, o, from) ==
  /\ \A p \in O : T[p] \in Seq(B) /\ T2[p] \in Seq(B)
  /\ \A p \in O \ {o} : T2[p] = T[p]
  /\ Len(T2[o]) = IF from < Len(T[o]) THEN from ELSE Len(T[o])
  /\ \A i \in 1..Len(T2[o]) : T2[o][i] = T[o][i]

\* Entries E2 are E without those of o behind index from.
AreCut(E, E2, o, from) == E2 = CutAt(E, o, from)

LEMMA EntCut ==
  ASSUME NEW O, NEW I, NEW B, I \subseteq Nat, NEW T, NEW T2, NEW o \in O, NEW from \in Nat,
         CutList(O, B, T, T2, o, from)
  PROVE  AreCut(Ent(O, I, B, T), Ent(O, I, B, T2), o, from)
<1>1. /\ \A p \in O : Len(T[p]) \in Nat /\ Len(T2[p]) \in Nat
      /\ \A p \in O \ {o} : T2[p] = T[p]
      /\ Len(T2[o]) = IF from < Len(T[o]) THEN from ELSE Len(T[o])
      /\ \A i \in 1..Len(T2[o]) : T2[o][i] = T[o][i]
  BY DEF CutList
<1>2. ASSUME NEW p \in O, NEW i \in I, NEW b \in B, NEW e, e = <<p, <<i, b>>>>
      PROVE  e \in Ent(O, I, B, T2) <=> e \in CutAt(Ent(O, I, B, T), o, from)
  <2>1. e[1] = p /\ e[2][1] = i /\ e[2][2] = b /\ e \in O \X (I \X B) /\ i \in Nat
    BY <1>2
  <2>2. e \in Ent(O, I, B, T2) <=> i \in 1..Len(T2[p]) /\ T2[p][i] = b
    BY <2>1 DEF Ent
  <2>3. e \in CutAt(Ent(O, I, B, T), o, from) <=> i \in 1..Len(T[p]) /\ T[p][i] = b /\ ~(p = o /\ i > from)
    BY <2>1 DEF Ent, CutAt
  <2>4. CASE p # o
    BY <1>1, <2>2, <2>3, <2>4
  <2>5. CASE p = o
    <3>1. PICK m \in Nat, n \in Nat : m = Len(T2[o]) /\ n = Len(T[o])
      BY <1>1
    <3>2. i \in 1..m <=> i \in 1..n /\ ~(i > from)
      BY <1>1, <2>1, <3>1
    <3> QED
      BY <1>1, <2>2, <2>3, <2>5, <3>1, <3>2
  <2> QED
    BY <2>4, <2>5
<1>3. ASSUME NEW e \in O \X (I \X B) PROVE \E p \in O, i \in I, b \in B : e = <<p, <<i, b>>>>
  <2>1. PICK p \in O, q \in I \X B : e = <<p, q>>
    OBVIOUS
  <2>2. q = <<q[1], q[2]>> /\ q[1] \in I /\ q[2] \in B
    OBVIOUS
  <2>3. e = <<p, <<q[1], q[2]>>>>
    BY <2>1, <2>2
  <2> QED
    BY <2>2, <2>3
<1>4. Ent(O, I, B, T2) \subseteq O \X (I \X B) /\ CutAt(Ent(O, I, B, T), o, from) \subseteq O \X (I \X B)
  BY DEF Ent, CutAt
<1>5. Ent(O, I, B, T2) = CutAt(Ent(O, I, B, T), o, from)
  BY <1>2, <1>3, <1>4
<1> QED
  BY <1>5 DEF AreCut

LEMMA EntSingle ==
  ASSUME NEW O, NEW I, NEW B, I \subseteq Nat, NEW T
  PROVE  Single(Ent(O, I, B, T))
<1>1. ASSUME NEW e \in Ent(O, I, B, T) PROVE e = <<e[1], <<e[2][1], e[2][2]>>>> /\ e[2][1] \in Nat /\ T[e[1]][e[2][1]] = e[2][2]
  BY DEF Ent
<1>2. ASSUME NEW x \in Ent(O, I, B, T), NEW y \in Ent(O, I, B, T), x[1] = y[1], x[2][1] = y[2][1] PROVE x = y
  <2>1. x[2][2] = y[2][2]
    BY <1>1, <1>2
  <2> QED
    BY <1>1, <1>2, <2>1
<1> QED
  BY <1>1, <1>2 DEF Single

LEMMA EntFinite ==
  ASSUME NEW O, NEW I, NEW B, IsFiniteSet(O), IsFiniteSet(I), IsFiniteSet(B), NEW T
  PROVE  IsFiniteSet(Ent(O, I, B, T))
<1>1. IsFiniteSet(I \X B)
  BY FS_Product
<1>2. IsFiniteSet(O \X (I \X B))
  BY <1>1, FS_Product
<1>3. Ent(O, I, B, T) \in SUBSET (O \X (I \X B))
  BY DEF Ent
<1> QED
  BY <1>2, <1>3, FS_Subset

\* List t is the rest of list u behind index from.
Rest(B, u, from, t) ==
  /\ t \in Seq(B) /\ u \in Seq(B)
  /\ Len(t) = IF from < Len(u) THEN Len(u) - from ELSE 0
  /\ \A j \in 1..Len(t) : t[j] = u[from + j]

LEMMA EntLists ==
  ASSUME NEW O, NEW I, NEW B, I \subseteq Nat, NEW T, NEW o \in O, NEW from \in Nat, NEW t,
         Rest(B, T[o], from, t), \A i \in 1..Len(T[o]) : i \in I
  PROVE  Lists_(Ent(O, I, B, T), B, o, from, t)
<1>0. t \in Seq(B) /\ T[o] \in Seq(B)
  BY DEF Rest
<1>1. PICK u \in Seq(B), m \in Nat, n \in Nat : u = T[o] /\ n = Len(u) /\ m = Len(t)
  <2>1. Len(T[o]) \in Nat /\ Len(t) \in Nat
    BY <1>0
  <2> QED
    BY <1>0, <2>1
<1>2. m = IF from < n THEN n - from ELSE 0
  BY <1>1 DEF Rest
<1>3. ASSUME NEW j \in 1..m PROVE <<o, <<from + j, t[j]>>>> \in Ent(O, I, B, T)
  <2>1. from + j \in 1..n
    BY <1>2
  <2>2. PICK i \in I : i = from + j
    BY <1>1, <2>1
  <2>3. t[j] = u[i] /\ i \in 1..n
    BY <1>1, <2>1, <2>2 DEF Rest
  <2>4. PICK b \in B : b = t[j] /\ b = u[i]
    BY <1>1, <2>3
  <2>5. PICK e : e = <<o, <<i, b>>>>
    OBVIOUS
  <2>6. e \in O \X (I \X B) /\ e[1] = o /\ e[2][1] = i /\ e[2][2] = b
    BY <2>5
  <2>7. e \in Ent(O, I, B, T)
    BY <1>1, <2>3, <2>4, <2>6 DEF Ent
  <2> QED
    BY <2>2, <2>4, <2>5, <2>7
<1>4. ASSUME NEW e \in Ent(O, I, B, T), e[1] = o PROVE e[2][1] <= from + m
  <2>1. e[2][1] \in 1..n
    BY <1>1, <1>4 DEF Ent
  <2> QED
    BY <1>2, <2>1
<1> QED
  BY <1>1, <1>3, <1>4 DEF Lists_, Rest

-----------------------------------------------------------------------------
(* Handing out and sharing blocks.                                         *)

\* The free list and the counts after block b is popped.
Popped(R, F, b, R2, F2) ==
  /\ Len(F) \in Nat \ {0} /\ b = F[Len(F)]
  /\ R2 = [R EXCEPT ![b] = 1] /\ F2 = SubSeq(F, 1, Len(F) - 1)

\* A new entry x of the block that is popped.
LEMMA PopGood ==
  ASSUME NEW B, NEW one \in BOOLEAN, NEW E, NEW R, NEW F, Good(B, one, E, R, F), NEW b \in B,
         NEW x, x \notin E, x[2][2] = b, NEW R2, NEW F2, Popped(R, F, b, R2, F2)
  PROVE  Good(B, one, E \cup {x}, R2, F2)
<1>1. R \in [B -> Nat] /\ F \in Seq(B) /\ IsFiniteSet(E) /\ \A e \in E : e[2][2] \in B
  BY DEF Good
<1>2. PICK n \in Nat : n + 1 = Len(F) /\ b = F[n + 1]
  <2>1. Len(F) \in Nat \ {0}
    BY DEF Popped
  <2>2. Len(F) - 1 \in Nat /\ (Len(F) - 1) + 1 = Len(F)
    BY <2>1
  <2> QED
    BY <2>2 DEF Popped
<1>3. F2 = SubSeq(F, 1, n) /\ R2 = [R EXCEPT ![b] = 1]
  <2>1. Len(F) - 1 = n
    BY <1>2
  <2> QED
    BY <2>1 DEF Popped
<1>4. F2 \in Seq(B) /\ Len(F2) = n /\ \A i \in 1..n : F2[i] = F[i]
  BY <1>1, <1>2, <1>3
<1>5. n + 1 \in 1..(n + 1) /\ \A i \in 1..n : i \in 1..(n + 1) /\ i # n + 1
  OBVIOUS
<1>6. \A i \in 1..(n + 1) : i \in 1..n \/ i = n + 1
  OBVIOUS
<1>7. /\ \A i, j \in 1..(n + 1) : F[i] = F[j] => i = j
      /\ \A c \in B : (\E i \in 1..(n + 1) : F[i] = c) <=> Naming(E, c) = {}
  BY <1>2 DEF Good
<1>8. Naming(E, b) = {}
  BY <1>2, <1>5, <1>7
<1>9. Naming(E \cup {x}, b) = {x} /\ \A c \in B : c # b => Naming(E \cup {x}, c) = Naming(E, c)
  BY <1>8 DEF Naming
<1>10. IsFiniteSet(E \cup {x}) /\ \A e \in E \cup {x} : e[2][2] \in B
  BY <1>1, FS_AddElement
<1>11. R2 \in [B -> Nat] /\ R2[b] = 1 /\ \A c \in B : c # b => R2[c] = R[c]
  BY <1>1, <1>3
<1>12. Cardinality({x}) = 1
  BY FS_Singleton
<1>13. \A i, j \in 1..n : F2[i] = F2[j] => i = j
  BY <1>4, <1>5, <1>7
<1>14. ASSUME NEW c \in B PROVE (\E i \in 1..n : F2[i] = c) <=> Naming(E \cup {x}, c) = {}
  <2>1. CASE c = b
    <3>1. \A i \in 1..n : F[i] # F[n + 1]
      BY <1>5, <1>7
    <3> QED
      BY <1>2, <1>4, <1>9, <2>1, <3>1
  <2>2. CASE c # b
    <3>1. (\E i \in 1..n : F2[i] = c) <=> \E i \in 1..(n + 1) : F[i] = c
      BY <1>2, <1>4, <1>5, <1>6, <2>2
    <3> QED
      BY <1>7, <1>9, <2>2, <3>1
  <2> QED
    BY <2>1, <2>2
<1>15. one => \A c \in B : R2[c] = Cardinality(Naming(E \cup {x}, c))
  <2> SUFFICES ASSUME one, NEW c \in B PROVE R2[c] = Cardinality(Naming(E \cup {x}, c))
    OBVIOUS
  <2>1. CASE c = b
    BY <1>9, <1>11, <1>12, <2>1
  <2>2. CASE c # b
    <3>1. R[c] = Cardinality(Naming(E, c))
      BY DEF Good
    <3> QED
      BY <1>9, <1>11, <2>2, <3>1
  <2> QED
    BY <2>1, <2>2
<1>16. \A c \in B : R2[c] <= 1 /\ \A y, z \in Naming(E \cup {x}, c) : y = z
  <2> TAKE c \in B
  <2>1. CASE c = b
    BY <1>9, <1>11, <2>1
  <2>2. CASE c # b
    <3>1. R[c] <= 1 /\ \A y, z \in Naming(E, c) : y = z
      BY DEF Good
    <3> QED
      BY <1>9, <1>11, <2>2, <3>1
  <2> QED
    BY <2>1, <2>2
<1> QED
  BY <1>4, <1>10, <1>11, <1>13, <1>14, <1>15, <1>16 DEF Good

\* The other layers.
LEMMA OthersPop ==
  ASSUME NEW B, NEW E, NEW R, NEW F, Good(B, FALSE, E, R, F), NEW b \in B, NEW R2, NEW F2, NEW F3,
         Popped(R, F3, b, R2, F2)
  PROVE  Good(B, FALSE, E, R2, F)
<1>1. R \in [B -> Nat] /\ \A c \in B : R[c] <= 1
  BY DEF Good
<1>2. R2 = [R EXCEPT ![b] = 1]
  BY DEF Popped
<1>3. R2 \in [B -> Nat] /\ \A c \in B : R2[c] <= 1
  BY <1>1, <1>2
<1> QED
  BY <1>3 DEF Good

\* From G and R to H and R2: block b of layer l is handed out.
Taken(L, l, b, G, R, H, R2) ==
  Popped(R, G[l], b, R2, H[l]) /\ \A k \in L \ {l} : H[k] = G[k]
Allocated(a, l) == [free |-> Allocate(a, l).free, ref |-> Allocate(a, l).ref]

LEMMA AllocateIs ==
  ASSUME NEW L, NEW B, NEW a, NEW G, NEW R, IsAlloc(L, B, a, G, R), NEW l \in L, a.free[l] # << >>
  PROVE  \E b \in B : /\ b = Allocate(a, l).got
                      /\ \E H, R2 : IsAlloc(L, B, Allocated(a, l), H, R2) /\ Taken(L, l, b, G, R, H, R2)
<1>1. /\ a = [free |-> G, ref |-> R] /\ G \in [L -> Seq(B)] /\ R \in [B -> Nat]
      /\ a.free = G /\ a.ref = R
  BY DEF IsAlloc
<1>2. PICK F \in Seq(B) : F = G[l] /\ F # << >>
  BY <1>1
<1>3. Len(F) \in Nat \ {0} /\ Len(F) \in 1..Len(F)
  BY <1>2
<1>4. PICK b \in B : b = F[Len(F)]
  BY <1>3
<1>5. PICK F2 \in Seq(B) : F2 = SubSeq(F, 1, Len(F) - 1)
  <2>1. PICK m : m = Len(F) - 1
    OBVIOUS
  <2>2. m \in Nat /\ m <= Len(F)
    BY <1>3, <2>1
  <2>3. SubSeq(F, 1, m) \in Seq(B)
    BY <1>3, <2>2
  <2> QED
    BY <2>1, <2>3
<1>6. PICK H : H = [G EXCEPT ![l] = F2]
  OBVIOUS
<1>7. PICK R2 : R2 = [R EXCEPT ![b] = 1]
  OBVIOUS
<1>8. H \in [L -> Seq(B)] /\ H[l] = F2 /\ \A k \in L \ {l} : H[k] = G[k]
  BY <1>1, <1>6
<1>9. R2 \in [B -> Nat]
  BY <1>1, <1>7
<1>10. Allocate(a, l) = [free |-> H, ref |-> R2, got |-> b]
  <2>1. [G EXCEPT ![l] = SubSeq(@, 1, Len(@) - 1)] = H
    BY <1>1, <1>2, <1>5, <1>6
  <2>2. b = a.free[l][Len(a.free[l])] /\ R2 = [a.ref EXCEPT ![b] = 1]
    BY <1>1, <1>2, <1>4, <1>7
  <2> QED
    BY <1>1, <2>1, <2>2 DEF Allocate
<1>11. Allocated(a, l) = [free |-> H, ref |-> R2] /\ Allocate(a, l).got = b
  BY <1>10 DEF Allocated
<1>12. Popped(R, G[l], b, R2, H[l])
  BY <1>2, <1>3, <1>4, <1>5, <1>7, <1>8 DEF Popped
<1>13. IsAlloc(L, B, Allocated(a, l), H, R2) /\ Taken(L, l, b, G, R, H, R2)
  BY <1>8, <1>9, <1>11, <1>12 DEF IsAlloc, Taken
<1> QED
  BY <1>11, <1>13

\* In layer l entry x is new.
OneNew(L, EE, E2, l, x) == x \notin EE[l] /\ \A k \in L : E2[k] = IF k = l THEN EE[l] \cup {x} ELSE EE[k]

\* With a new entry of block b in layer l the allocator is exact after Allocate.
ExactWith(L, B, one, EE, a, l, b) ==
  \A x, E2 : x[2][2] = b /\ OneNew(L, EE, E2, l, x) => All(L, B, one, E2, Allocated(a, l))

\* Allocate hands out a block, and the allocator is exact for the new entry.
LEMMA AllocateExact ==
  ASSUME NEW L, NEW B, NEW one \in BOOLEAN, NEW EE, NEW a, All(L, B, one, EE, a), NEW l \in L,
         a.free[l] # << >>
  PROVE  \E b \in B : b = Allocate(a, l).got /\ ExactWith(L, B, one, EE, a, l, b)
<1>1. PICK G, R : /\ IsAlloc(L, B, a, G, R) /\ (one => L = {1})
                  /\ \A k \in L : Good(B, one, EE[k], R, G[k])
  BY DEF All
<1>2. PICK b \in B : /\ b = Allocate(a, l).got
                     /\ \E H, R2 : IsAlloc(L, B, Allocated(a, l), H, R2) /\ Taken(L, l, b, G, R, H, R2)
  BY <1>1, AllocateIs
<1>3. PICK H, R2 : IsAlloc(L, B, Allocated(a, l), H, R2) /\ Taken(L, l, b, G, R, H, R2)
  BY <1>2
<1>4. ASSUME NEW x, NEW E2, x[2][2] = b, OneNew(L, EE, E2, l, x) PROVE All(L, B, one, E2, Allocated(a, l))
  <2>1. ASSUME NEW k \in L PROVE Good(B, one, E2[k], R2, H[k])
    <3>1. CASE k = l
      <4>1. PICK E, F, F2 : E = EE[l] /\ F = G[l] /\ F2 = H[l]
        OBVIOUS
      <4>2. Good(B, one, E, R, F) /\ Popped(R, F, b, R2, F2) /\ x \notin E
        BY <1>1, <1>3, <1>4, <4>1 DEF Taken, OneNew
      <4>3. Good(B, one, E \cup {x}, R2, F2)
        BY <1>4, <4>2, PopGood
      <4> QED
        BY <1>4, <3>1, <4>1, <4>3 DEF OneNew
    <3>2. CASE k # l
      <4>1. PICK E, F, F2, F3 : E = EE[k] /\ F = G[k] /\ F2 = H[l] /\ F3 = G[l]
        OBVIOUS
      <4>2. ~one
        BY <1>1, <3>2
      <4>3. Good(B, FALSE, E, R, F) /\ Popped(R, F3, b, R2, F2)
        BY <1>1, <1>3, <4>1, <4>2 DEF Taken
      <4>4. Good(B, FALSE, E, R2, F)
        BY <4>3, OthersPop
      <4>5. H[k] = F /\ E2[k] = E /\ one = FALSE
        BY <1>3, <1>4, <3>2, <4>1, <4>2 DEF Taken, OneNew
      <4> QED
        BY <4>1, <4>4, <4>5
    <3> QED
      BY <3>1, <3>2
  <2> QED
    BY <1>1, <1>3, <2>1 DEF All
<1> QED
  BY <1>2, <1>4 DEF ExactWith

\* Two sets that a function pairs off have as many elements.
LEMMA SameCount ==
  ASSUME NEW S, NEW T, IsFiniteSet(S), NEW f \in [S -> T],
         \A x, y \in S : f[x] = f[y] => x = y, \A y \in T : \E x \in S : f[x] = y
  PROVE  Cardinality(T) = Cardinality(S)
<1>1. f \in Bijection(S, T)
  BY DEF Bijection, Injection, Surjection, IsInjective
<1>2. ExistsBijection(S, T)
  BY <1>1 DEF ExistsBijection
<1> QED
  BY <1>2, FS_Bijection

-----------------------------------------------------------------------------
(* The lists of the sequences.                                             *)

LEMMA Sizes ==
  ASSUME config \in Configs
  PROVE  /\ config.NumLayers \in Nat \ {0} /\ config.BlockSize \in Nat \ {0}
         /\ config.MaxBlocks \in Nat /\ config.MaxLen \in Nat
         /\ Layers = 1..config.NumLayers /\ (config.NumLayers = 1 => Layers = {1})
         /\ IsFiniteSet(Indices) /\ Indices \subseteq Nat
         /\ \A n \in Nat : n <= config.MaxBlocks + config.MaxLen => \A i \in 1..n : i \in Indices
         /\ IsFiniteSet(Blocks) /\ IsFiniteSet(Owners)
<1>1. /\ config.NumLayers \in Nat \ {0} /\ config.BlockSize \in Nat \ {0}
      /\ config.MaxBlocks \in Nat /\ config.MaxLen \in Nat /\ IsFiniteSet(config.Names)
      /\ MaxSeqs \in Nat
  BY CacheAssumption
<1>2. Layers = 1..config.NumLayers /\ (config.NumLayers = 1 => Layers = {1})
  BY DEF Layers
<1>3. IsFiniteSet(Indices) /\ Indices \subseteq Nat
  <2>1. config.MaxBlocks + config.MaxLen \in Nat
    BY <1>1
  <2> QED
    BY <2>1, FS_Interval DEF Indices
<1>4. \A n \in Nat : n <= config.MaxBlocks + config.MaxLen => \A i \in 1..n : i \in Indices
  BY <1>1 DEF Indices
<1>5. IsFiniteSet(Blocks)
  <2>1. 0 \in Int /\ config.MaxBlocks - 1 \in Int
    BY <1>1
  <2> QED
    BY <2>1, FS_Interval DEF Blocks
<1>6. IsFiniteSet(Owners)
  BY <1>1, FS_Interval DEF Owners, SeqIDs
<1> QED
  BY <1>1, <1>2, <1>3, <1>4, <1>5, <1>6

\* What one owner holds behind an index is released.
Released(T, T2, o, from, blocks) ==
  \A l \in Layers : /\ CutList(Owners, Blocks, T[l], T2[l], o, from)
                    /\ Rest(Blocks, T[l][o], from, blocks[l])
                    /\ Len(T[l][o]) <= config.MaxBlocks + config.MaxLen

LEMMA ReleaseExact ==
  ASSUME config \in Configs, NEW T, NEW T2, NEW a, ExactFor(T, a), NEW o \in Owners,
         NEW from \in Nat, NEW blocks, Released(T, T2, o, from, blocks)
  PROVE  ExactFor(T2, FreeAll(a, blocks))
<1>0. PICK one \in BOOLEAN : one = (config.NumLayers = 1)
  OBVIOUS
<1>1. PICK n, L, B, EE, E2 :
        n = config.NumLayers /\ L = Layers /\ B = Blocks /\ EE = HeldOf(T) /\ E2 = HeldOf(T2)
  OBVIOUS
<1>2. All(L, B, one, EE, a)
  BY <1>0, <1>1, Zenon DEF ExactFor
<1>3. ASSUME NEW l \in L PROVE Single(EE[l]) /\ Lists_(EE[l], B, o, from, blocks[l]) /\ E2[l] = CutAt(EE[l], o, from)
  <2>1. EE[l] = Ent(Owners, Indices, Blocks, T[l]) /\ E2[l] = Ent(Owners, Indices, Blocks, T2[l])
    BY <1>1 DEF HeldOf
  <2>2. /\ CutList(Owners, Blocks, T[l], T2[l], o, from) /\ Rest(Blocks, T[l][o], from, blocks[l])
        /\ Len(T[l][o]) <= config.MaxBlocks + config.MaxLen
    BY <1>1 DEF Released
  <2>3. Indices \subseteq Nat
    BY Sizes
  <2>4. \A i \in 1..Len(T[l][o]) : i \in Indices
    <3>1. Len(T[l][o]) \in Nat
      BY <2>2 DEF CutList
    <3> QED
      BY <2>2, <3>1, Sizes
  <2>5. Single(EE[l])
    BY <2>1, <2>3, EntSingle
  <2>6. PICK U, U2, t : U = T[l] /\ U2 = T2[l] /\ t = blocks[l]
    OBVIOUS
  <2>7. Lists_(Ent(Owners, Indices, Blocks, U), Blocks, o, from, t)
    BY <2>2, <2>3, <2>4, <2>6, EntLists
  <2>8. Ent(Owners, Indices, Blocks, U2) = CutAt(Ent(Owners, Indices, Blocks, U), o, from)
    <3>1. CutList(Owners, Blocks, U, U2, o, from)
      BY <2>2, <2>6
    <3>2. PICK O, I, D : O = Owners /\ I = Indices /\ D = Blocks
      OBVIOUS
    <3>3. AreCut(Ent(O, I, D, U), Ent(O, I, D, U2), o, from)
      BY <2>3, <3>1, <3>2, EntCut
    <3> QED
      BY <3>2, <3>3 DEF AreCut
  <2> QED
    BY <1>1, <2>1, <2>5, <2>6, <2>7, <2>8
<1>4. \A l \in L : Single(EE[l]) /\ Lists_(EE[l], B, o, from, blocks[l])
  BY <1>3
<1>5. \A l \in L : E2[l] = CutAt(EE[l], o, from)
  BY <1>3
<1>6. n \in Nat /\ n = config.NumLayers /\ L = 1..n
  BY <1>1, Sizes
<1>7. All(L, B, one, E2, FreeAll(a, blocks))
  BY <1>2, <1>4, <1>5, <1>6, FreeAllExact
<1> QED
  BY <1>0, <1>1, <1>7, Zenon DEF ExactFor

\* In layer l the list of o has grown by block b.
GrownBy(T, T2, l, o, b) ==
  /\ \A k \in Layers \ {l} : T2[k] = T[k]
  /\ CutList(Owners, Blocks, T2[l], T[l], o, Len(T[l][o]))
  /\ Len(T2[l][o]) = Len(T[l][o]) + 1 /\ T2[l][o][Len(T[l][o]) + 1] = b
  /\ Len(T2[l][o]) <= config.MaxBlocks + config.MaxLen

LEMMA GrowExact ==
  ASSUME config \in Configs, NEW T, NEW a, ExactFor(T, a), NEW l \in Layers, a.free[l] # << >>
  PROVE  \E b \in Blocks : /\ b = Allocate(a, l).got
                           /\ \A T2, o : o \in Owners /\ GrownBy(T, T2, l, o, b) => ExactFor(T2, Allocated(a, l))
<1>0. PICK one \in BOOLEAN : one = (config.NumLayers = 1)
  OBVIOUS
<1>1. PICK EE : EE = HeldOf(T)
  OBVIOUS
<1>2. All(Layers, Blocks, one, EE, a)
  BY <1>0, <1>1, Zenon DEF ExactFor
<1>3. PICK b \in Blocks : b = Allocate(a, l).got /\ ExactWith(Layers, Blocks, one, EE, a, l, b)
  BY <1>2, AllocateExact
<1>4. ASSUME NEW T2, NEW o \in Owners, GrownBy(T, T2, l, o, b) PROVE ExactFor(T2, Allocated(a, l))
  <2>1. PICK E2 : E2 = HeldOf(T2)
    OBVIOUS
  <2>2. CutList(Owners, Blocks, T2[l], T[l], o, Len(T[l][o]))
    BY <1>4 DEF GrownBy
  <2>3. PICK n \in Nat : n = Len(T[l][o]) /\ Len(T2[l][o]) = n + 1 /\ T2[l][o][n + 1] = b /\ n + 1 <= config.MaxBlocks + config.MaxLen
    <3>1. Len(T[l][o]) \in Nat
      BY <2>2 DEF CutList
    <3> QED
      BY <1>4, <3>1 DEF GrownBy
  <2>4. Indices \subseteq Nat /\ n + 1 \in Indices
    BY <2>3, Sizes
  <2>5. PICK W, U : W = T2[l] /\ U = T[l]
    OBVIOUS
  <2>6. Ent(Owners, Indices, Blocks, U) = CutAt(Ent(Owners, Indices, Blocks, W), o, n)
    <3>1. CutList(Owners, Blocks, W, U, o, n)
      BY <2>2, <2>3, <2>5
    <3>2. PICK O, I, B : O = Owners /\ I = Indices /\ B = Blocks
      OBVIOUS
    <3>3. AreCut(Ent(O, I, B, W), Ent(O, I, B, U), o, n)
      BY <2>4, <3>1, <3>2, EntCut
    <3> QED
      BY <3>2, <3>3 DEF AreCut
  <2>7. PICK x : x = <<o, <<n + 1, b>>>>
    OBVIOUS
  <2>8. x[1] = o /\ x[2][1] = n + 1 /\ x[2][2] = b /\ x \in Owners \X (Indices \X Blocks)
    BY <2>4, <2>7
  <2>9. x \in Ent(Owners, Indices, Blocks, W)
    BY <2>3, <2>5, <2>8 DEF Ent
  <2>10. ASSUME NEW e \in Ent(Owners, Indices, Blocks, W), e[1] = o, e[2][1] > n PROVE e = x
    <3>1. e[2][1] \in 1..(n + 1)
      BY <2>3, <2>5, <2>10 DEF Ent
    <3>2. e[2][1] = n + 1
      BY <2>10, <3>1
    <3>3. PICK E : E = Ent(Owners, Indices, Blocks, W) /\ Single(E)
      BY <2>4, EntSingle
    <3> QED
      BY <2>8, <2>9, <2>10, <3>2, <3>3 DEF Single
  <2>11. Ent(Owners, Indices, Blocks, W) = Ent(Owners, Indices, Blocks, U) \cup {x}
    BY <2>6, <2>9, <2>10 DEF CutAt
  <2>12. x \notin Ent(Owners, Indices, Blocks, U)
    BY <2>6, <2>8 DEF CutAt
  <2>13. /\ EE[l] = Ent(Owners, Indices, Blocks, U) /\ E2[l] = Ent(Owners, Indices, Blocks, W)
         /\ \A k \in Layers \ {l} : E2[k] = EE[k]
    BY <1>1, <1>4, <2>1, <2>5 DEF HeldOf, GrownBy
  <2>14. OneNew(Layers, EE, E2, l, x)
    BY <2>11, <2>12, <2>13 DEF OneNew
  <2>15. All(Layers, Blocks, one, E2, Allocated(a, l))
    BY <1>3, <2>8, <2>14 DEF ExactWith
  <2> QED
    BY <1>0, <2>1, <2>15, Zenon DEF ExactFor
<1> QED
  BY <1>3, <1>4

\* A list that names no block twice is not longer than the number of blocks.
LEMMA InjectiveFits ==
  ASSUME NEW m \in Nat, NEW u \in Seq(0..(m - 1)), \A i, j \in 1..Len(u) : u[i] = u[j] => i = j
  PROVE  Len(u) <= m
<1>1. PICK n \in Nat : n = Len(u)
  <2>1. Len(u) \in Nat
    OBVIOUS
  <2> QED
    BY <2>1
<1>2. IsFiniteSet(1..n) /\ Cardinality(1..n) = n
  <2>1. 1 \in Int /\ n \in Int
    OBVIOUS
  <2>2. Cardinality(1..n) = IF 1 > n THEN 0 ELSE n - 1 + 1
    BY <2>1, FS_Interval
  <2> QED
    BY <2>1, <2>2, FS_Interval
<1>3. IsFiniteSet(0..(m - 1)) /\ Cardinality(0..(m - 1)) = m
  <2>1. 0 \in Int /\ m - 1 \in Int
    OBVIOUS
  <2>2. Cardinality(0..(m - 1)) = IF 0 > m - 1 THEN 0 ELSE m - 1 - 0 + 1
    BY <2>1, FS_Interval
  <2> QED
    BY <2>1, <2>2, FS_Interval
<1>4. PICK f : f = [i \in 1..n |-> u[i]]
  OBVIOUS
<1>5. f \in [1..n -> 0..(m - 1)]
  BY <1>1, <1>4
<1>6. \A i, j \in 1..n : f[i] = f[j] => i = j
  BY <1>1, <1>4
<1>7. f \in Injection(1..n, 0..(m - 1))
  BY <1>5, <1>6 DEF Injection, IsInjective
<1>8. Cardinality(1..n) <= Cardinality(0..(m - 1))
  BY <1>2, <1>3, <1>7, FS_Injection DEF ExistsInjection
<1> QED
  BY <1>1, <1>2, <1>3, <1>8

-----------------------------------------------------------------------------
(* Control: what an action leaves alone stays true.                        *)

LEMMA SameTypes ==
  ASSUME config' = config
  PROVE  /\ Layers' = Layers /\ Blocks' = Blocks /\ TableType' = TableType
         /\ NewBlockTable' = NewBlockTable
<1>1. Layers' = Layers /\ Blocks' = Blocks
  BY DEF Layers, Blocks
<1> QED
  BY <1>1 DEF TableType, NewBlockTable

\* The table objects of a sequence.
LEMMA ObjectsAre ==
  ASSUME NEW s \in SeqIDs
  PROVE  /\ MaxSeqs \in Nat /\ s \in Objects /\ MaxSeqs + s \in Objects /\ s # 0 /\ s \in Nat
         /\ MaxSeqs + s # 0 /\ s \in 0..MaxSeqs /\ \A t \in Objects : t \in 0..(2 * MaxSeqs) /\ t # 0
         /\ \A r \in SeqIDs : MaxSeqs + s # r /\ (MaxSeqs + s = MaxSeqs + r => s = r)
BY CacheAssumption DEF SeqIDs, Objects

\* A new table.
LEMMA NewTable ==
  ASSUME config \in Configs
  PROVE  /\ NewBlockTable \in TableType /\ NewBlockTable.seqLen = 0
         /\ NewBlockTable.ranges = << >> /\ \A l \in Layers : NewBlockTable.blocks[l] = << >>
<1>1. [l \in Layers |-> << >>] \in [Layers -> Seq(Blocks)]
  OBVIOUS
<1>2. 0 \in 0..config.MaxLen
  BY Sizes
<1>3. << >> \in Seq([start : Nat, num : Nat])
  OBVIOUS
<1> QED
  BY <1>1, <1>2, <1>3 DEF NewBlockTable, TableType

LEMMA LivesFrame ==
  ASSUME Lives, UNCHANGED <<config, nextSeqID, life, ins>>, batch' \subseteq batch
  PROVE  Lives'
BY DEF Lives, NoInsert, NoFragment, Layers

LEMMA RegisteredFrame ==
  ASSUME Registered, UNCHANGED sequences,
         \A s \in SeqIDs : \/ life'[s] = life[s]
                           \/ life[s] \in Present /\ life'[s] \in Present
                           \/ life[s] \in {"left", "torn"} /\ life'[s] \in {"left", "torn"}
  PROVE  Registered'
BY DEF Registered, Objects, Present

LEMMA TablesNext ==
  ASSUME Tables, config' = config, table' \in [Objects -> TableType],
         \A s \in SeqIDs : /\ life'[s] = "none" => life[s] = "none" /\ table'[s] = table[s]
                           /\ sequences'[s] # MaxSeqs + s =>
                                sequences[s] # MaxSeqs + s /\ table'[MaxSeqs + s] = table[MaxSeqs + s]
  PROVE  Tables'
<1>1. TableType' = TableType /\ NewBlockTable' = NewBlockTable /\ Objects' = Objects
  BY SameTypes DEF Objects
<1> QED
  BY <1>1 DEF Tables

LEMMA TablesFrame ==
  ASSUME Tables, UNCHANGED <<config, table, sequences>>,
         \A s \in SeqIDs : life'[s] = "none" => life[s] = "none"
  PROVE  Tables'
<1>1. table' \in [Objects -> TableType]
  BY DEF Tables
<1> QED
  BY <1>1, TablesNext

LEMMA StoredFrame ==
  ASSUME Stored, UNCHANGED <<config, ctx, version>>,
         \A s \in SeqIDs : life'[s] = "none" => life[s] = "none"
  PROVE  Stored'
BY DEF Stored

\* Another sequence changes its life, its entry and what it consists of.
LEMMA PassFrame ==
  ASSUME Pass, UNCHANGED <<config, op>>, batch' \subseteq batch,
         op.pc \notin {"idle", "dead"} =>
           life'[op.s] = life[op.s] /\ ctx'[op.s] = ctx[op.s] /\ sequences'[op.s] = sequences[op.s]
  PROVE  Pass'
<1>1. Layers' = Layers
  BY SameTypes
<1>2. op.pc \in {"idle", "store", "fill", "attend", "verify", "cut", "dead"}
  BY DEF Pass, OpType
<1> QED
  BY <1>1, <1>2 DEF Pass, OpType, SeqIDs

\* The sequence of a pass.
LEMMA PassSeq ==
  ASSUME Ctl, op.pc \notin {"idle", "dead"}
  PROVE  /\ op.s \in SeqIDs \ batch /\ op.layer \in Layers /\ life[op.s] \in {"live", "left"}
         /\ TableOf(op.s) \in Objects /\ TableOf(op.s) # 0
         /\ TableOf(op.s) = op.s \/ TableOf(op.s) = MaxSeqs + op.s
         /\ life[op.s] = "live" => sequences[op.s] = op.s
         /\ life[op.s] = "left" => TableOf(op.s) = MaxSeqs + op.s /\ sequences[op.s] \in {0, MaxSeqs + op.s}
         /\ ctx[op.s] \in Seq(KV) /\ Len(ctx[op.s]) \in Nat /\ Len(ctx[op.s]) <= config.MaxLen
         /\ op \in OpType /\ op.start \in Nat /\ op.i \in Nat /\ op.n \in Nat
<1>1. Lives /\ Registered /\ Stored /\ Pass
  BY DEF Ctl
<1>2. op.s \in SeqIDs \ batch /\ life[op.s] \in {"live", "left"} /\ op.layer \in Layers /\ op \in OpType
  BY <1>1 DEF Pass
<1>3. /\ life[op.s] = "live" => sequences[op.s] = op.s
      /\ life[op.s] = "left" => sequences[op.s] \in {0, MaxSeqs + op.s}
  BY <1>1, <1>2 DEF Registered, Present
<1>4. op.s # 0 /\ op.s \in Objects /\ MaxSeqs + op.s \in Objects /\ MaxSeqs + op.s # 0
  BY <1>2, ObjectsAre
<1>5. /\ life[op.s] = "live" => TableOf(op.s) = op.s
      /\ life[op.s] = "left" => TableOf(op.s) = MaxSeqs + op.s
  BY <1>3, <1>4 DEF TableOf
<1>6. ctx[op.s] \in Seq(KV) /\ Len(ctx[op.s]) <= config.MaxLen
  BY <1>1, <1>2 DEF Stored
<1>7. Len(ctx[op.s]) \in Nat
  BY <1>6
<1>8. op.start \in Nat /\ op.i \in Nat /\ op.n \in Nat
  BY <1>2 DEF OpType
<1> QED
  BY <1>2, <1>3, <1>4, <1>5, <1>6, <1>7, <1>8

\* An entry made for the sequence of the pass.
EntryMade == sequences' = [sequences EXCEPT ![op.s] = TableOf(op.s)]

LEMMA EntryIs ==
  ASSUME Ctl, op.pc \notin {"idle", "dead"}, EntryMade, UNCHANGED <<config, life>>
  PROVE  /\ Registered' /\ sequences'[op.s] = TableOf(op.s)
         /\ \A s \in SeqIDs : s # op.s => sequences'[s] = sequences[s]
         /\ \A s \in SeqIDs : sequences'[s] = sequences[s] \/ (sequences[s] = 0 /\ sequences'[s] \in Objects
                                                               /\ table[sequences'[s]] = NewBlockTable)
         /\ \A s \in SeqIDs : sequences'[s] # MaxSeqs + s => sequences[s] # MaxSeqs + s
<1>1. Registered /\ Tables
  BY DEF Ctl
<1>2. /\ op.s \in SeqIDs /\ TableOf(op.s) \in Objects
      /\ TableOf(op.s) = op.s \/ TableOf(op.s) = MaxSeqs + op.s
      /\ life[op.s] \in {"live", "left"}
      /\ life[op.s] = "live" => sequences[op.s] = op.s
      /\ life[op.s] = "left" => TableOf(op.s) = MaxSeqs + op.s /\ sequences[op.s] \in {0, MaxSeqs + op.s}
  BY PassSeq
<1>3. /\ sequences' \in [SeqIDs -> {0} \cup Objects] /\ sequences'[op.s] = TableOf(op.s)
      /\ \A s \in SeqIDs : s # op.s => sequences'[s] = sequences[s]
  BY <1>1, <1>2 DEF Registered, EntryMade
<1>4. MaxSeqs + op.s # op.s /\ MaxSeqs + op.s # 0 /\ op.s # 0
  BY <1>2, ObjectsAre
<1>5. life[op.s] = "live" => TableOf(op.s) = op.s
  BY <1>2, <1>4 DEF TableOf
<1>6. Registered'
  BY <1>1, <1>2, <1>3, <1>5 DEF Registered, Objects, Present
<1>7. \A s \in SeqIDs : sequences'[s] # MaxSeqs + s => sequences[s] # MaxSeqs + s
  BY <1>2, <1>3, <1>4, <1>5
<1>8. ASSUME NEW s \in SeqIDs
      PROVE  sequences'[s] = sequences[s] \/ (sequences[s] = 0 /\ sequences'[s] \in Objects
                                              /\ table[sequences'[s]] = NewBlockTable)
  <2>1. CASE s # op.s
    BY <1>3, <2>1
  <2>2. CASE s = op.s /\ life[op.s] = "live"
    BY <1>2, <1>3, <1>5, <2>2
  <2>3. CASE s = op.s /\ life[op.s] = "left" /\ sequences[op.s] = 0
    <3>1. table[MaxSeqs + op.s] = NewBlockTable
      BY <1>1, <1>2, <1>4, <2>3 DEF Tables
    <3> QED
      BY <1>2, <1>3, <2>3, <3>1
  <2>4. CASE s = op.s /\ life[op.s] = "left" /\ sequences[op.s] # 0
    BY <1>2, <1>3, <2>4
  <2> QED
    BY <1>2, <2>1, <2>2, <2>3, <2>4
<1> QED
  BY <1>3, <1>6, <1>7, <1>8

\* A table of the sequence of the pass changes: its first one, or the one in the map.
OwnTable(t) == t = op.s \/ (t = MaxSeqs + op.s /\ sequences'[op.s] = t)

LEMMA OwnTableChanges ==
  ASSUME Ctl, op.pc \notin {"idle", "dead"}, NEW t \in Objects, OwnTable(t), config' = config,
         NEW w \in TableType, table' = [table EXCEPT ![t] = w],
         \A s \in SeqIDs : /\ life'[s] = "none" => life[s] = "none"
                           /\ sequences'[s] # MaxSeqs + s => sequences[s] # MaxSeqs + s
  PROVE  Tables' /\ table'[t] = w /\ \A r \in Objects : r # t => table'[r] = table[r]
<1>1. Tables
  BY DEF Ctl
<1>2. op.s \in SeqIDs /\ life[op.s] # "none"
  BY PassSeq
<1>3. table' \in [Objects -> TableType] /\ table'[t] = w /\ \A r \in Objects : r # t => table'[r] = table[r]
  BY <1>1 DEF Tables
<1>4. ASSUME NEW s \in SeqIDs
      PROVE  /\ life'[s] = "none" => table'[s] = table[s]
             /\ sequences'[s] # MaxSeqs + s => table'[MaxSeqs + s] = table[MaxSeqs + s]
  <2>1. s \in Objects /\ MaxSeqs + s \in Objects /\ MaxSeqs + s # op.s /\ MaxSeqs + op.s # s
        /\ (MaxSeqs + s = MaxSeqs + op.s => s = op.s)
    BY <1>2, ObjectsAre
  <2>2. life'[s] = "none" => t # s
    BY <1>2, <2>1 DEF OwnTable
  <2>3. sequences'[s] # MaxSeqs + s => t # MaxSeqs + s
    BY <2>1 DEF OwnTable
  <2> QED
    BY <1>3, <2>1, <2>2, <2>3
<1>5. Tables'
  BY <1>1, <1>3, <1>4, TablesNext
<1> QED
  BY <1>3, <1>5

-----------------------------------------------------------------------------
(* Control: the handlers.                                                  *)

LEMMA InitCtl ==
  ASSUME Init, NoFragments
  PROVE  Ctl
<1>1. config \in Configs /\ MaxSeqs \in Nat /\ config.Names = {}
  BY CacheAssumption DEF Init, NoFragments
<1>2. Lives
  BY <1>1 DEF Init, Lives, SeqIDs, Present
<1>3. Registered
  BY <1>1 DEF Init, Registered, Present
<1>4. Tables
  <2>1. table \in [Objects -> TableType]
    BY <1>1, NewTable DEF Init
  <2>2. \A s \in SeqIDs : s \in Objects /\ MaxSeqs + s \in Objects
    BY ObjectsAre
  <2> QED
    BY <2>1, <2>2 DEF Init, Tables
<1>5. Stored
  <2>1. Len(<< >>) = 0 /\ config.MaxLen \in Nat
    BY <1>1, Sizes
  <2> QED
    BY <2>1 DEF Init, Stored
<1>6. Pass
  BY <1>1 DEF Init, Idle, Pass, OpType
<1> QED
  BY <1>2, <1>3, <1>4, <1>5, <1>6 DEF Ctl

LEMMA CreateCtl ==
  ASSUME Ctl, CreateSequence
  PROVE  /\ Ctl' /\ \A s \in SeqIDs : life'[s] = "torn" <=> life[s] = "torn"
         /\ \A s \in SeqIDs : sequences'[s] = sequences[s] \/ (sequences[s] = 0 /\ sequences'[s] \in Objects
                                                               /\ table[sequences'[s]] = NewBlockTable)
<1>1. Lives /\ Registered /\ Tables /\ Stored /\ Pass /\ MaxSeqs \in Nat
  BY CacheAssumption DEF Ctl
<1>2. /\ nextSeqID <= MaxSeqs /\ nextSeqID' = nextSeqID + 1
      /\ sequences' = [sequences EXCEPT ![nextSeqID] = nextSeqID]
      /\ life' = [life EXCEPT ![nextSeqID] = "fresh"]
      /\ UNCHANGED <<config, table, ctx, version, batch, op, ins>>
  BY DEF CreateSequence
<1>3. PICK q \in SeqIDs : q = nextSeqID /\ life[q] = "none"
  BY <1>1, <1>2 DEF Lives, SeqIDs
<1>4. /\ life' \in [SeqIDs -> Present \cup {"none", "gone", "left", "torn"}]
      /\ life'[q] = "fresh" /\ \A s \in SeqIDs : s # q => life'[s] = life[s]
  BY <1>1, <1>2, <1>3 DEF Lives, Present
<1>5. /\ sequences' \in [SeqIDs -> {0} \cup Objects]
      /\ sequences'[q] = q /\ \A s \in SeqIDs : s # q => sequences'[s] = sequences[s]
  <2>1. q \in Objects
    BY ObjectsAre
  <2> QED
    BY <1>1, <1>2, <1>3, <2>1 DEF Registered
<1>6. Lives'
  <2>1. nextSeqID' \in 1..(MaxSeqs + 1)
    BY <1>1, <1>2 DEF Lives
  <2>2. \A s \in SeqIDs : life'[s] = "none" <=> s >= nextSeqID'
    BY <1>1, <1>2, <1>3, <1>4 DEF Lives, SeqIDs
  <2>3. \A s \in batch : life'[s] \in {"live", "left"}
    BY <1>1, <1>3, <1>4 DEF Lives
  <2>4. NoInsert' = NoInsert
    BY <1>2 DEF NoInsert, NoFragment, Layers
  <2> QED
    BY <1>1, <1>2, <1>4, <2>1, <2>2, <2>3, <2>4 DEF Lives
<1>7. Registered'
  BY <1>1, <1>4, <1>5 DEF Registered, Present, Objects
<1>8. \A s \in SeqIDs : life'[s] = "none" => life[s] = "none"
  BY <1>4
<1>9. Tables'
  <2>1. table' \in [Objects -> TableType]
    BY <1>1, <1>2 DEF Tables
  <2>2. sequences[q] = 0 /\ MaxSeqs + q # 0
    BY <1>1, <1>3, ObjectsAre DEF Registered
  <2>3. \A s \in SeqIDs : sequences'[s] # MaxSeqs + s => sequences[s] # MaxSeqs + s
    BY <1>5, <2>2
  <2> QED
    BY <1>1, <1>2, <1>8, <2>1, <2>3, TablesNext
<1>10. Stored'
  BY <1>1, <1>2, <1>8, StoredFrame
<1>11. Pass'
  <2>1. op.pc \notin {"idle", "dead"} => op.s \in SeqIDs /\ op.s # q
    BY <1>1, <1>3 DEF Pass
  <2> QED
    BY <1>1, <1>2, <1>4, <1>5, <2>1, PassFrame
<1>12. sequences[q] = 0 /\ q \in Objects /\ table[q] = NewBlockTable
  BY <1>1, <1>3, ObjectsAre DEF Registered, Tables
<1> QED
  BY <1>3, <1>4, <1>5, <1>6, <1>7, <1>9, <1>10, <1>11, <1>12 DEF Ctl

LEMMA PublishCtl ==
  ASSUME Ctl, NEW q \in SeqIDs, Publish(q)
  PROVE  Ctl' /\ \A s \in SeqIDs : life'[s] = "torn" <=> life[s] = "torn"
<1>1. Lives /\ Registered /\ Tables /\ Stored /\ Pass
  BY DEF Ctl
<1>2. /\ life[q] = "fresh" /\ life' = [life EXCEPT ![q] = "live"]
      /\ UNCHANGED <<config, sequences, nextSeqID, table, ctx, version, batch, op, ins>>
  BY DEF Publish
<1>3. /\ life' \in [SeqIDs -> Present \cup {"none", "gone", "left", "torn"}]
      /\ life'[q] = "live" /\ \A s \in SeqIDs : s # q => life'[s] = life[s]
  BY <1>1, <1>2 DEF Lives, Present
<1>4. Lives'
  <2>1. NoInsert' = NoInsert
    BY <1>2 DEF NoInsert, NoFragment, Layers
  <2> QED
    BY <1>1, <1>2, <1>3, <2>1 DEF Lives
<1>5. Registered'
  BY <1>1, <1>2, <1>3, RegisteredFrame DEF Present
<1>6. Tables' /\ Stored'
  BY <1>1, <1>2, <1>3, TablesFrame, StoredFrame
<1>7. Pass'
  <2>1. op.pc \notin {"idle", "dead"} => op.s \in SeqIDs /\ op.s # q
    BY <1>1, <1>2 DEF Pass
  <2> QED
    BY <1>1, <1>2, <1>3, <2>1, PassFrame
<1> QED
  BY <1>2, <1>3, <1>4, <1>5, <1>6, <1>7 DEF Ctl

\* The sequence and its entry go; Run may go on with the sequence.
Held(q) == op.s = q \/ q \in batch

LEMMA DeleteIs ==
  ASSUME Ctl, NEW q \in SeqIDs, DeleteSequence(q)
  PROVE  /\ life[q] \in {"live", "finished"} /\ sequences[q] = q
         /\ life' = [life EXCEPT ![q] = IF Held(q) THEN "left" ELSE "gone"]
         /\ alloc' = FreeAll(alloc, table[q].blocks)
         /\ sequences' = [sequences EXCEPT ![q] = 0]
         /\ Held(q) => UNCHANGED <<table, ctx, version>>
         /\ ~Held(q) => /\ table' = [table EXCEPT ![q] = NewBlockTable]
                        /\ ctx' = [ctx EXCEPT ![q] = << >>] /\ version' = [version EXCEPT ![q] = 0]
         /\ UNCHANGED <<config, data, nextSeqID, batch, op, ins>>
<1>1. life[q] \in {"live", "finished"}
  BY DEF DeleteSequence
<1>2. q # 0
  BY ObjectsAre
<1>3. sequences[q] = q
  BY <1>1 DEF Ctl, Registered, Present
<1> QED
  BY <1>1, <1>2, <1>3 DEF DeleteSequence, Held

LEMMA DeleteCtl ==
  ASSUME Ctl, NEW q \in SeqIDs, DeleteSequence(q)
  PROVE  /\ Ctl' /\ \A s \in SeqIDs : life'[s] = "torn" <=> life[s] = "torn"
         /\ sequences'[q] = 0 /\ \A s \in SeqIDs : s # q => sequences'[s] = sequences[s]
         /\ \A t \in Objects : t # q => table'[t] = table[t]
<1>1. Lives /\ Registered /\ Tables /\ Stored /\ Pass /\ config \in Configs
  BY DEF Ctl, Lives
<1>2. /\ life[q] \in {"live", "finished"} /\ sequences[q] = q
      /\ life' = [life EXCEPT ![q] = IF Held(q) THEN "left" ELSE "gone"]
      /\ sequences' = [sequences EXCEPT ![q] = 0]
      /\ Held(q) => UNCHANGED <<table, ctx, version>>
      /\ ~Held(q) => /\ table' = [table EXCEPT ![q] = NewBlockTable]
                     /\ ctx' = [ctx EXCEPT ![q] = << >>] /\ version' = [version EXCEPT ![q] = 0]
      /\ UNCHANGED <<config, nextSeqID, batch, op, ins>>
  BY DeleteIs
<1>3. /\ life' \in [SeqIDs -> Present \cup {"none", "gone", "left", "torn"}]
      /\ life'[q] = (IF Held(q) THEN "left" ELSE "gone") /\ \A s \in SeqIDs : s # q => life'[s] = life[s]
  BY <1>1, <1>2 DEF Lives, Present
<1>4. /\ sequences' \in [SeqIDs -> {0} \cup Objects]
      /\ sequences'[q] = 0 /\ \A s \in SeqIDs : s # q => sequences'[s] = sequences[s]
  BY <1>1, <1>2 DEF Registered
<1>5. /\ table' \in [Objects -> TableType] /\ \A t \in Objects : t # q => table'[t] = table[t]
  <2>1. NewBlockTable \in TableType
    BY <1>1, NewTable
  <2> QED
    BY <1>1, <1>2, <2>1 DEF Tables
<1>6. Lives'
  <2>1. \A s \in SeqIDs : life'[s] = "none" <=> life[s] = "none"
    BY <1>2, <1>3
  <2>2. \A s \in batch : life'[s] \in {"live", "left"}
    BY <1>1, <1>3 DEF Lives, Held
  <2>3. NoInsert' = NoInsert
    BY <1>2 DEF NoInsert, NoFragment, Layers
  <2> QED
    BY <1>1, <1>2, <1>3, <2>1, <2>2, <2>3 DEF Lives
<1>7. Registered'
  BY <1>1, <1>3, <1>4 DEF Registered, Present, Objects
<1>8. Tables'
  <2>1. ASSUME NEW s \in SeqIDs
        PROVE  /\ life'[s] = "none" => life[s] = "none" /\ table'[s] = table[s]
               /\ sequences'[s] # MaxSeqs + s =>
                    sequences[s] # MaxSeqs + s /\ table'[MaxSeqs + s] = table[MaxSeqs + s]
    <3>1. s \in Objects /\ MaxSeqs + s \in Objects /\ MaxSeqs + s # q /\ MaxSeqs + q # q
      BY ObjectsAre
    <3>2. life'[s] = "none" => s # q
      BY <1>3
    <3> QED
      BY <1>2, <1>3, <1>4, <1>5, <3>1, <3>2
  <2> QED
    BY <1>1, <1>2, <1>5, <2>1, TablesNext
<1>9. Stored'
  <2>1. \A s \in SeqIDs : life'[s] = "none" => life[s] = "none"
    BY <1>3
  <2>2. CASE Held(q)
    BY <1>1, <1>2, <2>1, <2>2, StoredFrame
  <2>3. CASE ~Held(q)
    <3>1. /\ ctx' \in [SeqIDs -> Seq(KV)] /\ ctx'[q] = << >> /\ version' \in [SeqIDs -> Int]
          /\ \A s \in SeqIDs : s # q => ctx'[s] = ctx[s]
      <4>1. ctx \in [SeqIDs -> Seq(KV)] /\ version \in [SeqIDs -> Int] /\ 0 \in Int
        BY <1>1 DEF Stored
      <4>2. << >> \in Seq(KV)
        OBVIOUS
      <4>3. ctx' = [ctx EXCEPT ![q] = << >>] /\ version' = [version EXCEPT ![q] = 0]
        BY <1>2, <2>3
      <4>4. version' \in [SeqIDs -> Int]
        BY <4>1, <4>3
      <4> QED
        BY <4>1, <4>2, <4>3, <4>4
    <3>2. Len(<< >>) = 0 /\ config.MaxLen \in Nat
      BY <1>1, Sizes
    <3>3. ASSUME NEW s \in SeqIDs
          PROVE  Len(ctx'[s]) <= config.MaxLen /\ (life'[s] = "none" => ctx'[s] = << >>)
      BY <1>1, <2>1, <3>1, <3>2 DEF Stored
    <3> QED
      BY <1>2, <3>1, <3>3 DEF Stored
  <2> QED
    BY <2>2, <2>3
<1>10. Pass'
  <2>1. Layers' = Layers
    BY <1>2, SameTypes
  <2>2. CASE op.pc \in {"idle", "dead"}
    BY <1>1, <1>2, <2>2 DEF Pass, OpType
  <2>3. CASE op.pc \notin {"idle", "dead"}
    <3>1. op.s \in SeqIDs \ batch /\ life[op.s] \in {"live", "left"}
      BY <1>1, <2>3 DEF Pass
    <3>2. CASE op.s # q
      <4>1. ctx'[op.s] = ctx[op.s]
        BY <1>1, <1>2, <3>1, <3>2 DEF Stored
      <4> QED
        BY <1>1, <1>2, <1>3, <1>4, <3>1, <3>2, <4>1, PassFrame
    <3>3. CASE op.s = q
      <4>1. Held(q) /\ life'[op.s] = "left" /\ ctx'[op.s] = ctx[op.s]
        BY <1>2, <1>3, <3>3 DEF Held
      <4>2. op.pc \in {"fill", "cut"} => op.obj # 0 /\ op.obj = op.s
        BY <1>1, <1>2, <3>3 DEF Pass
      <4>3. op \in OpType /\ op.pc \in {"store", "fill", "attend", "verify", "cut"}
        BY <1>1, <2>3 DEF Pass, OpType
      <4> QED
        BY <1>1, <1>2, <2>1, <2>3, <3>1, <4>1, <4>2, <4>3 DEF Pass, OpType, SeqIDs
    <3> QED
      BY <3>2, <3>3
  <2> QED
    BY <2>2, <2>3
<1> QED
  BY <1>2, <1>3, <1>4, <1>5, <1>6, <1>7, <1>8, <1>9, <1>10 DEF Ctl

-----------------------------------------------------------------------------
(* Control: the Run goroutine.                                             *)

LEMMA FormBatchCtl ==
  ASSUME Ctl, FormBatch
  PROVE  Ctl'
<1>1. Lives /\ Registered /\ Tables /\ Stored /\ Pass
  BY DEF Ctl
<1>2. /\ op.pc = "idle" /\ batch' \subseteq SeqIDs /\ \A s \in batch' : life[s] = "live"
      /\ UNCHANGED <<config, alloc, data, sequences, table, fragments, nextSeqID, life, ctx, version, op, ins>>
  BY DEF FormBatch
<1>3. NoInsert' = NoInsert /\ Layers' = Layers
  BY <1>2 DEF NoInsert, NoFragment, Layers
<1>4. Lives'
  BY <1>1, <1>2, <1>3 DEF Lives
<1>5. Registered' /\ Tables' /\ Stored'
  BY <1>1, <1>2, RegisteredFrame, TablesFrame, StoredFrame
<1>6. Pass'
  BY <1>1, <1>2, <1>3 DEF Pass, OpType
<1> QED
  BY <1>4, <1>5, <1>6 DEF Ctl

\* The K/V of n more tokens of s.
Brought(c, s, n, v) == c \o [j \in 1..n |-> <<s, Len(c) + j - 1, v>>]

LEMMA BroughtIs ==
  ASSUME NEW c \in Seq(KV), NEW q \in Int, NEW n \in Nat, NEW v \in Int
  PROVE  /\ Brought(c, q, n, v) \in Seq(KV) /\ Len(Brought(c, q, n, v)) = Len(c) + n
         /\ \A i \in 1..Len(c) : Brought(c, q, n, v)[i] = c[i]
<1>1. PICK m \in Nat : m = Len(c)
  <2>1. Len(c) \in Nat
    OBVIOUS
  <2> QED
    BY <2>1
<1>2. ASSUME NEW j \in 1..n PROVE <<q, m + j - 1, v>> \in KV
  BY DEF KV
<1>3. PICK e \in [1..n -> KV] : e = [j \in 1..n |-> <<q, m + j - 1, v>>]
  BY <1>2
<1>4. e \in Seq(KV) /\ Len(e) = n
  <2>1. DOMAIN e = 1..n
    OBVIOUS
  <2> QED
    BY <2>1
<1>5. PICK d : d = c \o e
  OBVIOUS
<1>6. d \in Seq(KV) /\ Len(d) = m + n /\ \A i \in 1..m : d[i] = c[i]
  <2>1. d \in Seq(KV)
    BY <1>4, <1>5
  <2>2. Len(d) = m + n
    <3>1. Len(c \o e) = Len(c) + Len(e)
      BY <1>4, ConcatProperties, Zenon
    <3> QED
      BY <1>1, <1>4, <1>5, <3>1
  <2>3. \A i \in 1..m : d[i] = c[i]
    BY <1>1, <1>4, <1>5
  <2> QED
    BY <2>1, <2>2, <2>3
<1>7. Brought(c, q, n, v) = d
  BY <1>1, <1>3, <1>5 DEF Brought
<1> QED
  BY <1>1, <1>6, <1>7

LEMMA StartPassCtl ==
  ASSUME Ctl, NEW q \in SeqIDs, NEW n \in Chunks, StartPass(q, n)
  PROVE  Ctl'
<1>1. /\ Lives /\ Registered /\ Tables /\ Stored /\ Pass
      /\ MaxSeqs \in Nat /\ n \in Nat \ {0} /\ config \in Configs
  BY CacheAssumption DEF Ctl, Lives
<1>2. /\ op.pc = "idle" /\ q \in batch /\ Len(ctx[q]) + n <= config.MaxLen
      /\ batch' = batch \ {q}
      /\ op' = [pc |-> "store", s |-> q, obj |-> 0, layer |-> 1, i |-> 0, start |-> Len(ctx[q]), n |-> n]
      /\ ctx' = [ctx EXCEPT ![q] = Brought(ctx[q], q, n, version[q])]
      /\ UNCHANGED <<config, alloc, data, sequences, table, fragments, nextSeqID, life, version, ins>>
  BY DEF StartPass, Brought
<1>3. PICK c \in Seq(KV), m \in Nat : c = ctx[q] /\ m = Len(c)
  <2>1. ctx[q] \in Seq(KV)
    BY <1>1 DEF Stored
  <2>2. Len(ctx[q]) \in Nat
    BY <2>1
  <2> QED
    BY <2>1, <2>2
<1>4. PICK d \in Seq(KV) : d = Brought(c, q, n, version[q]) /\ Len(d) = m + n
  <2>1. version[q] \in Int /\ q \in Int
    BY <1>1 DEF Stored, SeqIDs
  <2>2. PICK v \in Int : v = version[q]
    BY <2>1
  <2>3. PICK k \in Nat : k = n
    BY <1>1
  <2>4. Brought(c, q, k, v) \in Seq(KV) /\ Len(Brought(c, q, k, v)) = Len(c) + k
    BY <2>1, BroughtIs
  <2> QED
    BY <1>3, <2>2, <2>3, <2>4
<1>5. life[q] \in {"live", "left"}
  BY <1>1, <1>2 DEF Lives
<1>6. ctx' \in [SeqIDs -> Seq(KV)] /\ ctx'[q] = d /\ \A s \in SeqIDs : s # q => ctx'[s] = ctx[s]
  <2>1. ctx' = [ctx EXCEPT ![q] = d]
    BY <1>2, <1>3, <1>4
  <2> QED
    BY <1>1, <2>1 DEF Stored
<1>7. /\ op'.pc = "store" /\ op'.s = q /\ op'.layer = 1 /\ op'.i = 0 /\ op'.start = m /\ op'.n = n
      /\ op' \in OpType
  <2>1. q \in 0..MaxSeqs /\ 0 \in 0..(2 * MaxSeqs)
    BY <1>1 DEF SeqIDs
  <2> QED
    BY <1>1, <1>2, <1>3, <2>1 DEF OpType
<1>8. Lives' /\ Registered' /\ Tables'
  BY <1>1, <1>2, LivesFrame, RegisteredFrame, TablesFrame
<1>9. Stored'
  <2>1. m + n <= config.MaxLen
    BY <1>2, <1>3
  <2> QED
    BY <1>1, <1>2, <1>4, <1>5, <1>6, <2>1 DEF Stored
<1>10. Pass'
  <2>1. Layers' = Layers /\ 1 \in Layers
    BY <1>1, <1>2, SameTypes, Sizes
  <2>2. op'.i < op'.n /\ op'.n > 0 /\ Len(ctx'[op'.s]) = op'.start + op'.n /\ op'.start + op'.n <= config.MaxLen
    BY <1>1, <1>2, <1>3, <1>4, <1>6, <1>7
  <2>3. op'.s \in SeqIDs \ batch' /\ life'[op'.s] \in {"live", "left"} /\ op'.layer \in Layers'
    BY <1>2, <1>5, <1>7, <2>1
  <2>4. op' \in OpType' /\ SeqIDs' = SeqIDs /\ config' = config
    BY <1>2, <1>7 DEF OpType, SeqIDs
  <2> QED
    BY <1>7, <2>2, <2>3, <2>4 DEF Pass
<1> QED
  BY <1>8, <1>9, <1>10 DEF Ctl

\* The pass goes on with the same tokens of the same sequence.
SamePass == op'.s = op.s /\ op'.start = op.start /\ op'.n = op.n /\ op' \in OpType

LEMMA PassGoesOn ==
  ASSUME Ctl, op.pc \notin {"idle", "dead"}, SamePass, op'.pc \notin {"idle", "dead"}, op'.layer \in Layers,
         UNCHANGED <<config, life, batch, ctx>>,
         op'.pc \in {"fill", "cut"} =>
           op'.obj # 0 /\ (op'.obj = sequences'[op.s] \/ (op'.obj = op.s /\ life[op.s] = "left")),
         op'.pc \in {"store", "fill"} => op'.i < op'.n /\ op.pc \in {"store", "fill", "attend"},
         op'.pc = "attend" => op.pc \in {"store", "fill", "attend"}
  PROVE  Pass'
<1>1. Pass
  BY DEF Ctl
<1>2. /\ op.s \in SeqIDs \ batch /\ life[op.s] \in {"live", "left"} /\ op.n > 0 /\ op.start + op.n <= config.MaxLen
      /\ op.pc \in {"store", "fill", "attend", "verify", "cut"}
  BY <1>1 DEF Pass, OpType
<1>3. op.pc \in {"store", "fill", "attend"} => Len(ctx[op.s]) = op.start + op.n
  BY <1>1 DEF Pass
<1>4. op.start + op.n <= Len(ctx[op.s])
  <2>1. op.start + op.n \in Nat
    BY PassSeq
  <2> QED
    BY <1>1, <1>2, <1>3, <2>1 DEF Pass
<1>5. Layers' = Layers /\ OpType' = OpType /\ SeqIDs' = SeqIDs
  BY SameTypes DEF OpType, SeqIDs
<1>6. op'.s = op.s /\ op'.start = op.start /\ op'.n = op.n /\ op' \in OpType
  BY DEF SamePass
<1> QED
  BY <1>2, <1>3, <1>4, <1>5, <1>6 DEF Pass

LEMMA StoreKVLookupCtl ==
  ASSUME Ctl, StoreKVLookup
  PROVE  /\ Ctl'
         /\ \A s \in SeqIDs : sequences'[s] = sequences[s] \/ (sequences[s] = 0 /\ sequences'[s] \in Objects
                                                               /\ table[sequences'[s]] = NewBlockTable)
<1>1. Lives /\ Registered /\ Tables /\ Stored /\ Pass
  BY DEF Ctl
<1>2. /\ op.pc = "store" /\ EntryMade
      /\ op' = [op EXCEPT !.pc = "fill", !.obj = TableOf(op.s)]
      /\ UNCHANGED <<config, alloc, data, table, fragments, nextSeqID, life, ctx, version, batch, ins>>
  BY DEF StoreKVLookup, EntryMade
<1>3. op \in OpType /\ op.layer \in Layers /\ TableOf(op.s) \in Objects /\ TableOf(op.s) # 0 /\ op.s \in SeqIDs
  BY <1>2, PassSeq
<1>4. /\ Registered' /\ sequences'[op.s] = TableOf(op.s)
      /\ \A s \in SeqIDs : sequences'[s] = sequences[s] \/ (sequences[s] = 0 /\ sequences'[s] \in Objects
                                                            /\ table[sequences'[s]] = NewBlockTable)
      /\ \A s \in SeqIDs : sequences'[s] # MaxSeqs + s => sequences[s] # MaxSeqs + s
  BY <1>2, EntryIs
<1>5. /\ op'.pc = "fill" /\ op'.obj = TableOf(op.s) /\ op'.layer = op.layer /\ op'.i = op.i /\ SamePass
  <2>1. TableOf(op.s) \in 0..(2 * MaxSeqs)
    BY <1>3, ObjectsAre
  <2> QED
    BY <1>2, <1>3, <2>1 DEF OpType, SamePass
<1>6. Lives' /\ Stored'
  BY <1>1, <1>2, LivesFrame, StoredFrame
<1>7. Tables'
  <2>1. table' \in [Objects -> TableType]
    BY <1>1, <1>2 DEF Tables
  <2> QED
    BY <1>1, <1>2, <1>4, <2>1, TablesNext
<1>8. Pass'
  <2>1. op.i < op.n
    BY <1>1, <1>2 DEF Pass
  <2> QED
    BY <1>2, <1>3, <1>4, <1>5, <2>1, PassGoesOn DEF SamePass
<1> QED
  BY <1>4, <1>6, <1>7, <1>8 DEF Ctl

\* A table with other fields.
Excepts(t, A, B, C, X, Y) ==
  /\ [t EXCEPT !.blocks = X, !.seqLen = Y] = [blocks |-> X, seqLen |-> Y, ranges |-> C]
  /\ [t EXCEPT !.blocks = X] = [blocks |-> X, seqLen |-> B, ranges |-> C]
  /\ [t EXCEPT !.seqLen = Y] = [blocks |-> A, seqLen |-> Y, ranges |-> C]

LEMMA TableExcept ==
  ASSUME NEW t, NEW A, NEW B, NEW C, NEW X, NEW Y, t = [blocks |-> A, seqLen |-> B, ranges |-> C]
  PROVE  Excepts(t, A, B, C, X, Y)
<1>1. PICK u : u = [t EXCEPT !.blocks = X]
  OBVIOUS
<1>2. u = [blocks |-> X, seqLen |-> B, ranges |-> C]
  BY <1>1
<1>3. [u EXCEPT !.seqLen = Y] = [blocks |-> X, seqLen |-> Y, ranges |-> C]
  BY <1>2
<1>4. [t EXCEPT !.blocks = X, !.seqLen = Y] = [u EXCEPT !.seqLen = Y]
  BY <1>1
<1>5. [t EXCEPT !.seqLen = Y] = [blocks |-> A, seqLen |-> Y, ranges |-> C]
  OBVIOUS
<1> QED
  BY <1>1, <1>2, <1>3, <1>4, <1>5 DEF Excepts

\* AllocateBlock panics when the layer has no block left, or extends the table
\* that is in the map.
AllocateDead == op' = [Idle EXCEPT !.pc = "dead"] /\ UNCHANGED <<alloc, table>>
AllocateGets ==
  /\ alloc.free[op.layer] # << >> /\ alloc' = Allocated(alloc, op.layer)
  /\ table' = [table EXCEPT ![TableOf(op.s)].blocks[op.layer] = Append(@, Allocate(alloc, op.layer).got)]
  /\ UNCHANGED op

LEMMA AllocateBlockIs ==
  ASSUME Ctl, AllocateBlock
  PROVE  /\ op.pc = "fill" /\ EntryMade /\ (AllocateDead \/ AllocateGets)
         /\ UNCHANGED <<config, data, fragments, nextSeqID, life, ctx, version, batch, ins>>
BY DEF AllocateBlock, AllocateDead, AllocateGets, Allocated, EntryMade

\* Block b at the end of the list of layer l of table t.
WithBlock(t, l, b) == [t EXCEPT !.blocks = [t.blocks EXCEPT ![l] = Append(t.blocks[l], b)]]

LEMMA WithBlockIs ==
  ASSUME NEW t \in TableType, NEW l \in Layers, NEW b \in Blocks
  PROVE  /\ WithBlock(t, l, b) \in TableType
         /\ WithBlock(t, l, b).blocks[l] = Append(t.blocks[l], b)
         /\ \A k \in Layers : k # l => WithBlock(t, l, b).blocks[k] = t.blocks[k]
<1>1. t.blocks \in [Layers -> Seq(Blocks)] /\ t = [blocks |-> t.blocks, seqLen |-> t.seqLen, ranges |-> t.ranges]
  BY DEF TableType
<1>2. PICK v \in Seq(Blocks) : v = t.blocks[l]
  BY <1>1
<1>3. Append(v, b) \in Seq(Blocks)
  BY Appended
<1>4. PICK X \in [Layers -> Seq(Blocks)] : X = [t.blocks EXCEPT ![l] = Append(v, b)]
  BY <1>1, <1>3
<1>5. WithBlock(t, l, b) = [blocks |-> X, seqLen |-> t.seqLen, ranges |-> t.ranges]
  <2>1. PICK A, B, C : t = [blocks |-> A, seqLen |-> B, ranges |-> C] /\ A = t.blocks /\ B = t.seqLen /\ C = t.ranges
    BY <1>1
  <2>2. Excepts(t, A, B, C, X, X)
    BY <2>1, TableExcept
  <2>3. WithBlock(t, l, b) = [t EXCEPT !.blocks = X]
    BY <1>2, <1>4 DEF WithBlock
  <2> QED
    BY <2>1, <2>2, <2>3 DEF Excepts
<1>6. X[l] = Append(v, b) /\ \A k \in Layers : k # l => X[k] = t.blocks[k]
  BY <1>1, <1>4
<1>7. WithBlock(t, l, b) \in TableType /\ WithBlock(t, l, b).blocks = X
  BY <1>5 DEF TableType
<1> QED
  BY <1>2, <1>6, <1>7

\* The pass goes on in the same place.
LEMMA AllocateBlockCtl ==
  ASSUME Ctl, AllocateBlock, alloc.free[op.layer] # << >> => Allocate(alloc, op.layer).got \in Blocks
  PROVE  /\ Ctl'
         /\ \A s \in SeqIDs : sequences'[s] = sequences[s] \/ (sequences[s] = 0 /\ sequences'[s] \in Objects
                                                               /\ table[sequences'[s]] = NewBlockTable)
         /\ AllocateGets => /\ sequences'[op.s] = TableOf(op.s) /\ table[TableOf(op.s)] \in TableType
                            /\ table'[TableOf(op.s)] = WithBlock(table[TableOf(op.s)], op.layer, Allocate(alloc, op.layer).got)
                            /\ \A r \in Objects : r # TableOf(op.s) => table'[r] = table[r]
<1>1. Lives /\ Registered /\ Tables /\ Stored /\ Pass
  BY DEF Ctl
<1>2. /\ op.pc = "fill" /\ EntryMade /\ (AllocateDead \/ AllocateGets)
      /\ UNCHANGED <<config, data, fragments, nextSeqID, life, ctx, version, batch, ins>>
  BY AllocateBlockIs
<1>3. /\ op \in OpType /\ op.layer \in Layers /\ op.s \in SeqIDs /\ TableOf(op.s) \in Objects
      /\ TableOf(op.s) = op.s \/ TableOf(op.s) = MaxSeqs + op.s
      /\ life[op.s] \in {"live", "left"} /\ (life[op.s] = "live" => sequences[op.s] = op.s)
      /\ life[op.s] = "left" => TableOf(op.s) = MaxSeqs + op.s /\ sequences[op.s] \in {0, MaxSeqs + op.s}
      /\ op.s # 0
  BY <1>2, PassSeq, ObjectsAre
<1>4. /\ Registered' /\ sequences'[op.s] = TableOf(op.s)
      /\ \A s \in SeqIDs : sequences'[s] = sequences[s] \/ (sequences[s] = 0 /\ sequences'[s] \in Objects
                                                            /\ table[sequences'[s]] = NewBlockTable)
      /\ \A s \in SeqIDs : sequences'[s] # MaxSeqs + s => sequences[s] # MaxSeqs + s
  BY <1>2, EntryIs
<1>5. Lives' /\ Stored'
  BY <1>1, <1>2, LivesFrame, StoredFrame
<1>6. CASE AllocateDead
  <2>1. op'.pc = "dead" /\ op'.s = 0 /\ op' \in OpType /\ UNCHANGED table
    <3>1. 0 \in 0..MaxSeqs /\ 0 \in 0..(2 * MaxSeqs)
      BY CacheAssumption
    <3> QED
      BY <1>6, <3>1 DEF AllocateDead, Idle, OpType
  <2>2. table' \in [Objects -> TableType]
    BY <1>1, <2>1 DEF Tables
  <2>3. Tables'
    BY <1>1, <1>2, <1>4, <2>1, <2>2, TablesNext
  <2>4. Pass'
    <3>1. OpType' = OpType
      BY DEF OpType
    <3> QED
      BY <2>1, <3>1 DEF Pass
  <2>5. ~AllocateGets
    BY <1>2, <2>1 DEF AllocateGets
  <2> QED
    BY <1>4, <1>5, <2>3, <2>4, <2>5 DEF Ctl
<1>7. CASE AllocateGets
  <2>1. PICK b \in Blocks : b = Allocate(alloc, op.layer).got
    BY <1>7 DEF AllocateGets
  <2>2. PICK q \in Objects : q = TableOf(op.s)
    BY <1>3
  <2>3. PICK t \in TableType : t = table[q]
    BY <1>1 DEF Tables
  <2>4. PICK w \in TableType : w = WithBlock(t, op.layer, b)
    BY <1>3, WithBlockIs
  <2>5. table' = [table EXCEPT ![q] = w]
    <3>1. table' = [table EXCEPT ![q].blocks[op.layer] = Append(@, b)]
      BY <1>7, <2>1, <2>2 DEF AllocateGets
    <3>2. [table EXCEPT ![q].blocks[op.layer] = Append(@, b)]
            = [table EXCEPT ![q] = [t EXCEPT !.blocks = [t.blocks EXCEPT ![op.layer] = Append(t.blocks[op.layer], b)]]]
      BY <2>3
    <3> QED
      BY <2>4, <3>1, <3>2 DEF WithBlock
  <2>6. OwnTable(q)
    BY <1>3, <1>4, <2>2 DEF OwnTable
  <2>7. Tables' /\ table'[q] = w /\ \A r \in Objects : r # q => table'[r] = table[r]
    BY <1>2, <1>4, <2>5, <2>6, OwnTableChanges
  <2>8. Pass'
    <3>1. UNCHANGED op
      BY <1>7 DEF AllocateGets
    <3>2. SamePass /\ op'.pc = "fill" /\ op'.layer \in Layers /\ op'.i < op'.n
      BY <1>1, <1>2, <1>3, <3>1 DEF SamePass, Pass
    <3>3. op.obj # 0 /\ (op.obj = sequences'[op.s] \/ (op.obj = op.s /\ life[op.s] = "left"))
      <4>1. op.obj # 0 /\ (op.obj = sequences[op.s] \/ (op.obj = op.s /\ life[op.s] = "left"))
        BY <1>1, <1>2 DEF Pass
      <4>2. sequences[op.s] # 0 => sequences'[op.s] = sequences[op.s]
        BY <1>3, <1>4
      <4> QED
        BY <4>1, <4>2
    <3> QED
      BY <1>2, <3>1, <3>2, <3>3, PassGoesOn
  <2> QED
    BY <1>4, <1>5, <2>1, <2>2, <2>3, <2>4, <2>7, <2>8 DEF Ctl
<1> QED
  BY <1>2, <1>6, <1>7

\* The length of one table changes.
LEMMA LengthIs ==
  ASSUME NEW t \in TableType, NEW n \in 0..config.MaxLen
  PROVE  /\ [t EXCEPT !.seqLen = n] \in TableType
         /\ [t EXCEPT !.seqLen = n].blocks = t.blocks /\ [t EXCEPT !.seqLen = n].seqLen = n
<1>1. t = [blocks |-> t.blocks, seqLen |-> t.seqLen, ranges |-> t.ranges]
  BY DEF TableType
<1>2. PICK A, B, C : t = [blocks |-> A, seqLen |-> B, ranges |-> C] /\ A = t.blocks /\ B = t.seqLen /\ C = t.ranges
  BY <1>1
<1>3. Excepts(t, A, B, C, A, n)
  BY <1>2, TableExcept
<1>4. PICK w : w = [t EXCEPT !.seqLen = n] /\ w = [blocks |-> A, seqLen |-> n, ranges |-> C]
  BY <1>3 DEF Excepts
<1> QED
  BY <1>2, <1>4 DEF TableType

LEMMA WriteKVCtl ==
  ASSUME Ctl, WriteKV
  PROVE  /\ Ctl' /\ \A t \in Objects : table'[t].blocks = table[t].blocks
         /\ op'.s = op.s /\ op'.start = op.start /\ op'.n = op.n /\ op'.layer = op.layer
         /\ \/ op'.pc = "store" /\ op'.i = op.i + 1
            \/ op'.pc = "attend" /\ op.i + 1 = op.n
<1>1. Lives /\ Registered /\ Tables /\ Stored /\ Pass /\ config \in Configs
  BY DEF Ctl, Lives
<1>2. /\ op.pc = "fill" /\ table' = [table EXCEPT ![op.obj].seqLen = Larger(@, Pos + 1)]
      /\ op' = IF op.i + 1 < op.n THEN [op EXCEPT !.pc = "store", !.i = @ + 1]
                                  ELSE [op EXCEPT !.pc = "attend"]
      /\ UNCHANGED <<config, alloc, sequences, fragments, nextSeqID, life, ctx, version, batch, ins>>
  BY DEF WriteKV
<1>3. /\ op.s \in SeqIDs /\ op.layer \in Layers /\ op \in OpType
      /\ op.start \in Nat /\ op.i \in Nat /\ op.n \in Nat /\ op.s \in Objects /\ MaxSeqs + op.s \in Objects
      /\ life[op.s] = "live" => sequences[op.s] = op.s
      /\ life[op.s] = "left" => sequences[op.s] \in {0, MaxSeqs + op.s}
      /\ life[op.s] \in {"live", "left"}
  BY <1>2, PassSeq, ObjectsAre
<1>4. /\ op.obj # 0 /\ (op.obj = sequences[op.s] \/ (op.obj = op.s /\ life[op.s] = "left"))
      /\ op.i < op.n /\ op.start + op.n <= config.MaxLen
  BY <1>1, <1>2 DEF Pass
<1>5. PICK q \in Objects : q = op.obj /\ OwnTable(q)
  BY <1>2, <1>3, <1>4 DEF OwnTable
<1>6. PICK t \in TableType : t = table[q]
  BY <1>1 DEF Tables
<1>7. PICK n \in 0..config.MaxLen : n = Larger(t.seqLen, Pos + 1)
  <2>1. PICK m \in Nat, k \in Nat : m = config.MaxLen /\ k = t.seqLen /\ k <= m
    BY <1>1, Sizes DEF TableType
  <2>2. PICK p \in Nat : p = Pos + 1 /\ p <= m
    BY <1>3, <1>4, <2>1 DEF Pos
  <2> QED
    BY <2>1, <2>2 DEF Larger
<1>8. PICK w \in TableType : w = [t EXCEPT !.seqLen = n] /\ w.blocks = t.blocks
  BY LengthIs
<1>9. table' = [table EXCEPT ![q] = w]
  <2>1. [table EXCEPT ![q].seqLen = Larger(@, Pos + 1)] = [table EXCEPT ![q] = [t EXCEPT !.seqLen = Larger(t.seqLen, Pos + 1)]]
    BY <1>6
  <2> QED
    BY <1>2, <1>5, <1>7, <1>8, <2>1
<1>10. Tables' /\ table'[q] = w /\ \A r \in Objects : r # q => table'[r] = table[r]
  BY <1>2, <1>5, <1>9, OwnTableChanges
<1>11. /\ op'.s = op.s /\ op'.start = op.start /\ op'.n = op.n /\ op'.layer = op.layer /\ op' \in OpType
       /\ \/ op'.pc = "store" /\ op'.i = op.i + 1 /\ op'.i < op.n
          \/ op'.pc = "attend" /\ op.i + 1 = op.n
  <2>1. CASE op.i + 1 < op.n
    <3>1. op.i + 1 \in Nat
      BY <1>3
    <3> QED
      BY <1>2, <1>3, <2>1, <3>1 DEF OpType
  <2>2. CASE ~(op.i + 1 < op.n)
    <3>1. op.i + 1 = op.n
      BY <1>3, <1>4, <2>2
    <3> QED
      BY <1>2, <1>3, <2>2, <3>1 DEF OpType
  <2> QED
    BY <2>1, <2>2
<1>12. Lives' /\ Registered' /\ Stored'
  BY <1>1, <1>2, LivesFrame, RegisteredFrame, StoredFrame
<1>13. Pass'
  <2>1. SamePass /\ op'.layer \in Layers
    BY <1>3, <1>11 DEF SamePass
  <2> QED
    BY <1>2, <1>11, <2>1, PassGoesOn
<1> QED
  BY <1>6, <1>8, <1>10, <1>11, <1>12, <1>13 DEF Ctl

\* The attention of a layer: the next layer follows, the verification or the end.
NextLayer == op' = [op EXCEPT !.pc = "store", !.layer = @ + 1, !.i = 0] /\ op.layer < config.NumLayers /\ UNCHANGED life
ToVerify == op' = [op EXCEPT !.pc = "verify"] /\ op.layer = config.NumLayers /\ UNCHANGED life
PassEnds ==
  /\ op' \in {Idle, [Idle EXCEPT !.pc = "dead"]}
  /\ life' = life \/ (life[op.s] = "live" /\ life' = [life EXCEPT ![op.s] = "finished"])
  /\ op'.pc = "idle" => op.layer = config.NumLayers

LEMMA AttendIs ==
  ASSUME Ctl, Attend
  PROVE  /\ op.pc = "attend" /\ (NextLayer \/ ToVerify \/ PassEnds)
         /\ UNCHANGED <<config, alloc, data, sequences, table, fragments, nextSeqID, ctx, version, batch, ins>>
<1>1. op.pc = "attend" /\ UNCHANGED <<config, alloc, data, sequences, table, fragments, nextSeqID, ctx, version, batch, ins>>
  BY DEF Attend
<1>2. op.s \in SeqIDs /\ op.layer \in Layers
  BY <1>1, PassSeq
<1>3. life = [s \in SeqIDs |-> life[s]] /\ config \in Configs
  BY DEF Ctl, Lives
<1>4. ~(op.layer < config.NumLayers) => op.layer = config.NumLayers
  BY <1>2, <1>3, Sizes
<1>5. CASE sequences[op.s] = 0
  <2>1. op' = [Idle EXCEPT !.pc = "dead"] /\ UNCHANGED life
    BY <1>5 DEF Attend
  <2>2. op'.pc = "dead"
    BY <2>1 DEF Idle
  <2> QED
    BY <1>1, <2>1, <2>2 DEF PassEnds
<1>6. CASE sequences[op.s] # 0 /\ op.layer < config.NumLayers
  BY <1>1, <1>6 DEF Attend, NextLayer
<1>7. CASE sequences[op.s] # 0 /\ ~(op.layer < config.NumLayers) /\ op.n > 1 /\ op.start > 0
  BY <1>1, <1>4, <1>7 DEF Attend, ToVerify
<1>8. CASE sequences[op.s] # 0 /\ ~(op.layer < config.NumLayers) /\ ~(op.n > 1 /\ op.start > 0)
  <2>1. op' = Idle /\ \E end \in {life[op.s], "finished"} : life' = [life EXCEPT ![op.s] = IF @ = "live" THEN end ELSE @]
    BY <1>8 DEF Attend
  <2>2. PICK end \in {life[op.s], "finished"} : life' = [life EXCEPT ![op.s] = IF @ = "live" THEN end ELSE @]
    BY <2>1
  <2>3. life' = life \/ (life[op.s] = "live" /\ life' = [life EXCEPT ![op.s] = "finished"])
    <3>1. CASE life[op.s] = "live" /\ end = "finished"
      BY <2>2, <3>1
    <3>2. CASE ~(life[op.s] = "live" /\ end = "finished")
      <4>1. life' = [life EXCEPT ![op.s] = life[op.s]]
        BY <2>2, <3>2
      <4> QED
        BY <1>2, <1>3, <4>1
    <3> QED
      BY <3>1, <3>2
  <2> QED
    BY <1>1, <1>4, <1>8, <2>1, <2>3 DEF PassEnds
<1> QED
  BY <1>5, <1>6, <1>7, <1>8

\* Run is done with the sequence.
LEMMA IdleIs ==
  /\ Idle \in OpType /\ [Idle EXCEPT !.pc = "dead"] \in OpType
  /\ Idle.pc = "idle" /\ Idle.s = 0 /\ [Idle EXCEPT !.pc = "dead"].pc = "dead" /\ [Idle EXCEPT !.pc = "dead"].s = 0
<1>1. 0 \in 0..MaxSeqs /\ 0 \in 0..(2 * MaxSeqs)
  BY CacheAssumption
<1> QED
  BY <1>1 DEF Idle, OpType

LEMMA PassOver ==
  ASSUME op' \in {Idle, [Idle EXCEPT !.pc = "dead"]}
  PROVE  Pass'
<1>1. OpType' = OpType
  BY DEF OpType
<1>2. op' \in OpType /\ op'.s = 0 /\ op'.pc \in {"idle", "dead"}
  BY IdleIs
<1> QED
  BY <1>1, <1>2 DEF Pass

LEMMA AttendCtl ==
  ASSUME Ctl, Attend
  PROVE  Ctl' /\ \A s \in SeqIDs : life'[s] = "torn" <=> life[s] = "torn"
<1>1. Lives /\ Registered /\ Tables /\ Stored /\ Pass
  BY DEF Ctl
<1>2. /\ op.pc = "attend" /\ (NextLayer \/ ToVerify \/ PassEnds)
      /\ UNCHANGED <<config, alloc, data, sequences, table, fragments, nextSeqID, ctx, version, batch, ins>>
  BY AttendIs
<1>3. op.s \in SeqIDs \ batch /\ op.layer \in Layers /\ op \in OpType /\ op.n \in Nat /\ config \in Configs
  BY <1>1, <1>2, PassSeq DEF Lives
<1>4. CASE NextLayer
  <2>1. Lives' /\ Registered' /\ Tables' /\ Stored'
    BY <1>1, <1>2, <1>4, LivesFrame, RegisteredFrame, TablesFrame, StoredFrame DEF NextLayer
  <2>2. op.layer + 1 \in Layers /\ op.layer + 1 \in Nat
    BY <1>3, <1>4, Sizes DEF NextLayer
  <2>3. /\ op'.s = op.s /\ op'.start = op.start /\ op'.n = op.n /\ op' \in OpType
        /\ op'.pc = "store" /\ op'.layer = op.layer + 1 /\ op'.i = 0
    BY <1>3, <1>4, <2>2 DEF NextLayer, OpType
  <2>4. op.n > 0
    BY <1>1, <1>2 DEF Pass
  <2>5. Pass'
    BY <1>2, <1>3, <1>4, <2>2, <2>3, <2>4, PassGoesOn DEF SamePass, NextLayer
  <2> QED
    BY <1>4, <2>1, <2>5 DEF Ctl, NextLayer
<1>5. CASE ToVerify
  <2>1. Lives' /\ Registered' /\ Tables' /\ Stored'
    BY <1>1, <1>2, <1>5, LivesFrame, RegisteredFrame, TablesFrame, StoredFrame DEF ToVerify
  <2>2. /\ op'.s = op.s /\ op'.start = op.start /\ op'.n = op.n /\ op' \in OpType
        /\ op'.pc = "verify" /\ op'.layer = op.layer
    BY <1>3, <1>5 DEF ToVerify, OpType
  <2>3. Pass'
    BY <1>2, <1>3, <1>5, <2>2, PassGoesOn DEF SamePass, ToVerify
  <2> QED
    BY <1>5, <2>1, <2>3 DEF Ctl, ToVerify
<1>6. CASE PassEnds
  <2>1. /\ life' \in [SeqIDs -> Present \cup {"none", "gone", "left", "torn"}]
        /\ \A s \in SeqIDs : life'[s] = life[s] \/ (s = op.s /\ life[s] = "live" /\ life'[s] = "finished")
    BY <1>1, <1>3, <1>6 DEF PassEnds, Lives, Present
  <2>2. Lives'
    <3>1. NoInsert' = NoInsert
      BY <1>2 DEF NoInsert, NoFragment, Layers
    <3>2. \A s \in batch : life'[s] \in {"live", "left"}
      BY <1>1, <1>3, <2>1 DEF Lives
    <3>3. \A s \in SeqIDs : life'[s] = "none" <=> life[s] = "none"
      BY <2>1
    <3> QED
      BY <1>1, <1>2, <2>1, <3>1, <3>2, <3>3 DEF Lives
  <2>3. Registered'
    BY <1>1, <1>2, <2>1, RegisteredFrame DEF Present
  <2>4. Tables' /\ Stored'
    BY <1>1, <1>2, <2>1, TablesFrame, StoredFrame
  <2>5. Pass'
    BY <1>6, PassOver DEF PassEnds
  <2> QED
    BY <2>1, <2>2, <2>3, <2>4, <2>5 DEF Ctl
<1> QED
  BY <1>2, <1>4, <1>5, <1>6

LEMMA TruncateLookupCtl ==
  ASSUME Ctl, NEW len, TruncateLookup(len)
  PROVE  Ctl'
<1>1. Lives /\ Registered /\ Tables /\ Stored /\ Pass /\ MaxSeqs \in Nat
  BY CacheAssumption DEF Ctl
<1>2. /\ op.pc = "verify" /\ len \in (op.start + 1)..(op.start + op.n)
      /\ UNCHANGED <<config, alloc, data, sequences, table, fragments, nextSeqID, life, ctx, version, batch, ins>>
  BY DEF TruncateLookup
<1>3. /\ op.s \in SeqIDs \ batch /\ life[op.s] \in {"live", "left"} /\ op \in OpType /\ op.layer \in Layers
      /\ op.start \in Nat /\ op.n \in Nat /\ Len(ctx[op.s]) \in Nat
  BY <1>2, PassSeq
<1>4. Lives' /\ Registered' /\ Tables' /\ Stored'
  BY <1>1, <1>2, LivesFrame, RegisteredFrame, TablesFrame, StoredFrame
<1>5. CASE sequences[op.s] = 0
  BY <1>2, <1>4, <1>5, PassOver DEF TruncateLookup, Ctl
<1>6. CASE sequences[op.s] # 0
  <2>1. op' = [op EXCEPT !.pc = "cut", !.obj = sequences[op.s], !.n = len - op.start]
    BY <1>6 DEF TruncateLookup
  <2>2. PICK m \in Nat : m = len - op.start /\ m > 0 /\ m <= op.n
    BY <1>2, <1>3
  <2>3. /\ op' \in OpType /\ op'.pc = "cut" /\ op'.s = op.s /\ op'.obj = sequences[op.s] /\ op'.layer = op.layer
        /\ op'.start = op.start /\ op'.n = m
    <3>1. sequences[op.s] \in 0..(2 * MaxSeqs)
      BY <1>1, <1>3 DEF Registered, Objects
    <3> QED
      BY <1>3, <2>1, <2>2, <3>1 DEF OpType
  <2>4. op.start + op.n <= Len(ctx[op.s]) /\ op.start + op.n <= config.MaxLen
    BY <1>1, <1>2 DEF Pass
  <2>5. op'.start + op'.n <= Len(ctx'[op'.s]) /\ op'.start + op'.n <= config.MaxLen /\ op'.n > 0
    <3>1. config.MaxLen \in Nat
      BY <1>1, Sizes DEF Lives
    <3>2. op.start + m <= op.start + op.n
      BY <1>3, <2>2
    <3>3. PICK a \in Nat, b \in Nat : a = op.start + m /\ b = op.start + op.n
      BY <1>3, <2>2
    <3>4. PICK c \in Nat, d \in Nat : c = Len(ctx[op.s]) /\ d = config.MaxLen
      BY <1>3, <3>1
    <3>5. a <= b /\ b <= c /\ b <= d
      BY <2>4, <3>2, <3>3, <3>4
    <3>6. a <= c /\ a <= d
      BY <3>5
    <3>7. ctx'[op'.s] = ctx[op.s] /\ op'.start + op'.n = op.start + m
      BY <1>2, <2>3
    <3> QED
      BY <2>2, <2>3, <3>3, <3>4, <3>6, <3>7
  <2>6. Layers' = Layers /\ OpType' = OpType /\ SeqIDs' = SeqIDs
    BY <1>2, SameTypes DEF OpType, SeqIDs
  <2>7. Pass'
    BY <1>2, <1>3, <1>6, <2>3, <2>5, <2>6 DEF Pass
  <2> QED
    BY <1>4, <2>7 DEF Ctl
<1> QED
  BY <1>5, <1>6

-----------------------------------------------------------------------------
(* Control: the rollback.                                                  *)

LEMMA ProdGe ==
  ASSUME NEW q \in Int, NEW a \in Nat, NEW b \in Nat \ {0}, q >= a + 1
  PROVE  b * q >= a + b
<1>1. PICK d \in Nat : q = a + 1 + d
  <2>1. q - (a + 1) \in Nat /\ q = a + 1 + (q - (a + 1))
    OBVIOUS
  <2> QED BY <2>1
<1>2. PICK c \in Nat : b = c + 1
  <2>1. b - 1 \in Nat /\ b = (b - 1) + 1
    OBVIOUS
  <2> QED BY <2>1
<1>3. b * q = b * a + b + b * d
  BY <1>1
<1>4. b * a = c * a + a
  BY <1>2
<1>5. b * d \in Nat /\ c * a \in Nat /\ b * a \in Nat
  OBVIOUS
<1> QED
  BY <1>3, <1>4, <1>5

LEMMA DivLe ==
  ASSUME NEW a \in Nat, NEW b \in Nat \ {0}
  PROVE  /\ a \div b \in Nat /\ a \div b <= a
         /\ (a + b - 1) \div b \in Nat /\ (a + b - 1) \div b <= a
<1>1. ASSUME NEW x \in Nat, x < a + b PROVE x \div b \in Nat /\ x \div b <= a
  <2>1. PICK q : q = x \div b
    OBVIOUS
  <2>2. q \in Int /\ b * q <= x /\ q >= 0
    BY <2>1
  <2>3. q <= a
    <3> SUFFICES ASSUME q >= a + 1 PROVE FALSE
      BY <2>2
    <3>1. b * q >= a + b
      BY <2>2, ProdGe
    <3>2. b * q \in Int
      BY <2>2
    <3> QED
      BY <1>1, <2>2, <3>1, <3>2
  <2> QED
    BY <2>1, <2>2, <2>3
<1>2. a \in Nat /\ a < a + b /\ a + b - 1 \in Nat /\ a + b - 1 < a + b
  OBVIOUS
<1> QED
  BY <1>1, <1>2

\* What TruncateBlocks keeps of a table, and what is released.
KeptBlocks(t, keep) ==
  [l \in Layers |-> IF keep < Len(t.blocks[l]) THEN SubSeq(t.blocks[l], 1, keep) ELSE t.blocks[l]]
CutBlocks(t, keep) == [l \in Layers |-> SubSeq(t.blocks[l], keep + 1, Len(t.blocks[l]))]

TruncateKeeps == UNCHANGED <<alloc, table, life, ctx, version>>
TruncateCuts(len, keep) ==
  /\ len < table[op.obj].seqLen
  /\ alloc' = FreeAll(alloc, CutBlocks(table[op.obj], keep))
  /\ table' = [table EXCEPT ![op.obj] = [table[op.obj] EXCEPT !.blocks = KeptBlocks(table[op.obj], keep), !.seqLen = len]]
  /\ life' = [life EXCEPT ![op.s] = IF op.obj = sequences[op.s] THEN @ ELSE "torn"]
  /\ ctx' = [ctx EXCEPT ![op.s] = SubSeq(ctx[op.s], 1, len)]
  /\ version' = [version EXCEPT ![op.s] = 1 - @]

\* The table that is cut.
LEMMA CutTable ==
  ASSUME Ctl, op.pc = "cut"
  PROVE  /\ op.obj \in Objects /\ table[op.obj] \in TableType
         /\ op.obj = sequences[op.s] \/ (op.obj = op.s /\ life[op.s] = "left")
         /\ op.obj = op.s \/ (op.obj = MaxSeqs + op.s /\ sequences[op.s] = op.obj)
<1>1. op.obj # 0 /\ (op.obj = sequences[op.s] \/ (op.obj = op.s /\ life[op.s] = "left"))
  BY DEF Ctl, Pass
<1>2. /\ op.s \in SeqIDs /\ life[op.s] \in {"live", "left"} /\ (life[op.s] = "live" => sequences[op.s] = op.s)
      /\ life[op.s] = "left" => sequences[op.s] \in {0, MaxSeqs + op.s}
  BY PassSeq
<1>3. op.s \in Objects /\ MaxSeqs + op.s \in Objects
  BY <1>2, ObjectsAre
<1>4. op.obj = op.s \/ (op.obj = MaxSeqs + op.s /\ sequences[op.s] = op.obj)
  BY <1>1, <1>2
<1>5. op.obj \in Objects /\ table[op.obj] \in TableType
  BY <1>3, <1>4 DEF Ctl, Tables
<1> QED
  BY <1>1, <1>4, <1>5

LEMMA TruncateIs ==
  ASSUME Ctl, TruncateSequence
  PROVE  \E len \in Nat, keep \in Nat :
           /\ op.pc = "cut" /\ op' = Idle
           /\ keep <= len /\ len <= Len(ctx[op.s]) /\ len > 0
           /\ keep = NeededBlocks(len) /\ op.start < len
           /\ TruncateKeeps \/ TruncateCuts(len, keep)
           /\ UNCHANGED <<config, data, sequences, fragments, nextSeqID, batch, ins>>
<1>1. Pass /\ config \in Configs /\ op.pc = "cut"
  BY DEF Ctl, Lives, TruncateSequence
<1>2. op.start \in Nat /\ op.n \in Nat
  BY <1>1, PassSeq
<1>3. op.start + op.n <= Len(ctx[op.s]) /\ op.n > 0
  BY <1>1 DEF Pass
<1>4. PICK len \in Nat : len = op.start + op.n /\ len > 0 /\ op.start < len
  BY <1>2, <1>3
<1>5. PICK keep \in Nat : keep = NeededBlocks(len) /\ keep <= len
  <2>1. config.BlockSize \in Nat \ {0}
    BY <1>1, Sizes
  <2> QED
    BY <2>1, DivLe DEF NeededBlocks
<1>6. PICK t : t = table[op.obj]
  OBVIOUS
<1>7. /\ op' = Idle
      /\ UNCHANGED <<config, data, sequences, fragments, nextSeqID, batch, ins>>
  BY DEF TruncateSequence
<1>8. IF len >= t.seqLen THEN UNCHANGED <<alloc, table, life, ctx, version>>
         ELSE /\ alloc' = FreeAll(alloc, [l \in Layers |-> SubSeq(t.blocks[l], keep + 1, Len(t.blocks[l]))])
              /\ table' = [table EXCEPT ![op.obj] =
                   [t EXCEPT !.blocks = [l \in Layers |-> IF keep < Len(t.blocks[l])
                                                            THEN SubSeq(t.blocks[l], 1, keep)
                                                            ELSE t.blocks[l]],
                             !.seqLen = len]]
              /\ life' = [life EXCEPT ![op.s] = IF op.obj = sequences[op.s] THEN @ ELSE "torn"]
              /\ ctx' = [ctx EXCEPT ![op.s] = SubSeq(@, 1, len)]
              /\ version' = [version EXCEPT ![op.s] = 1 - @]
  BY <1>4, <1>5, <1>6, Zenon DEF TruncateSequence
<1>9. CASE len >= t.seqLen
  <2>1. TruncateKeeps
    BY <1>8, <1>9 DEF TruncateKeeps
  <2> QED
    BY <1>1, <1>3, <1>4, <1>5, <1>7, <2>1
<1>10. CASE ~(len >= t.seqLen)
  <2>1. len < t.seqLen
    <3>1. config.MaxLen \in Nat
      BY <1>1, Sizes
    <3>3. t \in TableType
      BY <1>1, <1>6, CutTable
    <3>2. t.seqLen \in Nat
      BY <3>1, <3>3 DEF TableType
    <3> QED
      BY <1>10, <3>2
  <2>2. TruncateCuts(len, keep)
    BY <1>6, <1>8, <1>10, <2>1 DEF TruncateCuts, KeptBlocks, CutBlocks
  <2> QED
    BY <1>1, <1>3, <1>4, <1>5, <1>7, <2>2
<1> QED
  BY <1>9, <1>10

\* The lists that are kept.
LEMMA KeptBlocksAre ==
  ASSUME NEW t \in TableType, NEW keep \in Nat, NEW l \in Layers
  PROVE  /\ Rest(Blocks, t.blocks[l], keep, CutBlocks(t, keep)[l])
         /\ KeptBlocks(t, keep)[l] \in Seq(Blocks) /\ t.blocks[l] \in Seq(Blocks)
         /\ Len(KeptBlocks(t, keep)[l]) = IF keep < Len(t.blocks[l]) THEN keep ELSE Len(t.blocks[l])
         /\ \A i \in 1..Len(KeptBlocks(t, keep)[l]) : KeptBlocks(t, keep)[l][i] = t.blocks[l][i]
<1>1. t.blocks \in [Layers -> Seq(Blocks)]
  BY DEF TableType
<1>2. PICK u \in Seq(Blocks), n \in Nat : u = t.blocks[l] /\ n = Len(u)
  <2>1. t.blocks[l] \in Seq(Blocks)
    BY <1>1
  <2>2. Len(t.blocks[l]) \in Nat
    BY <2>1
  <2> QED
    BY <2>1, <2>2
<1>3. CutBlocks(t, keep)[l] = SubSeq(u, keep + 1, n)
  BY <1>2 DEF CutBlocks
<1>4. KeptBlocks(t, keep)[l] = IF keep < n THEN SubSeq(u, 1, keep) ELSE u
  BY <1>2 DEF KeptBlocks
<1>5. PICK v : v = SubSeq(u, keep + 1, n)
  OBVIOUS
<1>6. v \in Seq(Blocks) /\ Len(v) = (IF keep < n THEN n - keep ELSE 0) /\ \A j \in 1..Len(v) : v[j] = u[keep + j]
  <2>1. keep + 1 \in Nat /\ keep + 1 \in Int /\ n \in Int
    OBVIOUS
  <2>2. /\ Len(v) = IF keep + 1 <= n THEN n - (keep + 1) + 1 ELSE 0
        /\ \A j \in 1..Len(v) : v[j] = u[keep + 1 + j - 1]
    BY <1>5, <2>1, SubSeqProperties
  <2>3. v \in Seq(Blocks)
    <3>1. \A j \in (keep + 1)..n : u[j] \in Blocks
      BY <1>2
    <3> QED
      BY <1>2, <1>5, <2>1, <3>1, SubSeqProperties
  <2>4. \A j \in 1..Len(v) : keep + 1 + j - 1 = keep + j
    OBVIOUS
  <2>5. keep < n <=> keep + 1 <= n
    OBVIOUS
  <2>6. n - (keep + 1) + 1 = n - keep
    OBVIOUS
  <2> QED
    BY <2>2, <2>3, <2>4, <2>5, <2>6
<1>7. Rest(Blocks, u, keep, v)
  BY <1>2, <1>6 DEF Rest
<1>8. CASE keep < n
  <2>1. PICK w : w = SubSeq(u, 1, keep)
    OBVIOUS
  <2>2. w \in Seq(Blocks) /\ Len(w) = keep /\ \A i \in 1..keep : w[i] = u[i]
    BY <1>2, <1>8, <2>1
  <2> QED
    BY <1>2, <1>3, <1>4, <1>5, <1>7, <1>8, <2>1, <2>2
<1>9. CASE ~(keep < n)
  BY <1>2, <1>3, <1>4, <1>5, <1>7, <1>9
<1> QED
  BY <1>8, <1>9

\* The table that is kept.
Keeps(t, w, X, n) == w = [t EXCEPT !.blocks = X, !.seqLen = n] /\ w.blocks = X /\ w.seqLen = n

LEMMA KeptIs ==
  ASSUME config \in Configs, NEW t \in TableType, NEW len \in 0..config.MaxLen, NEW keep \in Nat
  PROVE  \E w \in TableType : Keeps(t, w, KeptBlocks(t, keep), len)
<1>1. PICK X : X = KeptBlocks(t, keep)
  OBVIOUS
<1>2. PICK A, B, C : t = [blocks |-> A, seqLen |-> B, ranges |-> C] /\ A = t.blocks /\ B = t.seqLen /\ C = t.ranges
  BY DEF TableType
<1>3. Excepts(t, A, B, C, X, len)
  BY <1>2, TableExcept
<1>4. PICK w : w = [t EXCEPT !.blocks = X, !.seqLen = len] /\ w = [blocks |-> X, seqLen |-> len, ranges |-> C]
  BY <1>3 DEF Excepts
<1>5. X \in [Layers -> Seq(Blocks)]
  <2>1. \A l \in Layers : X[l] \in Seq(Blocks)
    BY <1>1, KeptBlocksAre
  <2> QED
    BY <1>1, <2>1 DEF KeptBlocks
<1>6. w \in TableType
  BY <1>2, <1>4, <1>5 DEF TableType
<1>7. Keeps(t, w, X, len)
  BY <1>4 DEF Keeps
<1> QED
  BY <1>1, <1>6, <1>7

LEMMA TruncateCtl ==
  ASSUME Ctl, TruncateSequence
  PROVE  /\ Ctl' /\ \A s \in SeqIDs : life[s] = "torn" => life'[s] = "torn"
         /\ op.obj # sequences[op.s] => TruncateKeeps \/ life'[op.s] = "torn"
         /\ \A len, keep : TruncateCuts(len, keep) /\ len <= config.MaxLen /\ len \in Nat /\ keep \in Nat =>
              /\ table'[op.obj].blocks = KeptBlocks(table[op.obj], keep)
              /\ \A t \in Objects : t # op.obj => table'[t] = table[t]
<1>1. Lives /\ Registered /\ Tables /\ Stored /\ Pass /\ MaxSeqs \in Nat /\ config \in Configs
  BY CacheAssumption DEF Ctl, Lives
<1>2. PICK len \in Nat, keep \in Nat :
           /\ op.pc = "cut" /\ op' = Idle
           /\ keep <= len /\ len <= Len(ctx[op.s]) /\ len > 0
           /\ TruncateKeeps \/ TruncateCuts(len, keep)
           /\ UNCHANGED <<config, data, sequences, fragments, nextSeqID, batch, ins>>
  BY TruncateIs
<1>3. /\ op.s \in SeqIDs \ batch /\ op.s # 0 /\ life[op.s] \in {"live", "left"} /\ life[op.s] # "torn"
      /\ ctx[op.s] \in Seq(KV) /\ Len(ctx[op.s]) \in Nat /\ Len(ctx[op.s]) <= config.MaxLen
      /\ life[op.s] = "left" => sequences[op.s] \in {0, MaxSeqs + op.s}
  BY <1>2, PassSeq, ObjectsAre
<1>4. /\ op.obj \in Objects /\ table[op.obj] \in TableType
      /\ op.obj = sequences[op.s] \/ (op.obj = op.s /\ life[op.s] = "left")
      /\ op.obj = op.s \/ (op.obj = MaxSeqs + op.s /\ sequences[op.s] = op.obj)
  BY <1>2, CutTable
<1>5. Pass'
  BY <1>2, PassOver
<1>6. ASSUME NEW n, NEW k, TruncateCuts(n, k), n <= config.MaxLen, n \in Nat, k \in Nat
      PROVE  /\ table'[op.obj].blocks = KeptBlocks(table[op.obj], k)
             /\ \A t \in Objects : t # op.obj => table'[t] = table[t]
             /\ Tables' \/ \E s \in SeqIDs : life'[s] = "none" /\ life[s] # "none"
  <2>1. PICK t \in TableType : t = table[op.obj]
    BY <1>4
  <2>2. n \in 0..config.MaxLen
    BY <1>1, <1>6, Sizes
  <2>3. PICK w \in TableType : w = [t EXCEPT !.blocks = KeptBlocks(t, k), !.seqLen = n] /\ w.blocks = KeptBlocks(t, k)
    <3>1. PICK i \in 0..config.MaxLen, j \in Nat : i = n /\ j = k
      BY <1>6, <2>2
    <3>2. PICK w \in TableType : Keeps(t, w, KeptBlocks(t, j), i)
      BY <1>1, KeptIs
    <3> QED
      BY <3>1, <3>2 DEF Keeps
  <2>4. table' = [table EXCEPT ![op.obj] = w]
    BY <1>6, <2>1, <2>3 DEF TruncateCuts
  <2>5. table'[op.obj] = w /\ \A r \in Objects : r # op.obj => table'[r] = table[r]
    BY <1>1, <1>4, <2>4 DEF Tables
  <2>6. OwnTable(op.obj)
    BY <1>2, <1>4 DEF OwnTable
  <2>7. CASE \A s \in SeqIDs : life'[s] = "none" => life[s] = "none"
    <3>1. PICK q \in Objects : q = op.obj
      BY <1>4
    <3>2. Tables'
      BY <1>2, <2>4, <2>6, <2>7, <3>1, OwnTableChanges
    <3> QED
      BY <2>1, <2>3, <2>5, <3>2
  <2>8. CASE ~\A s \in SeqIDs : life'[s] = "none" => life[s] = "none"
    BY <2>1, <2>3, <2>5, <2>8
  <2> QED
    BY <2>7, <2>8
<1>7. CASE TruncateKeeps
  <2>1. Lives' /\ Registered' /\ Tables' /\ Stored'
    BY <1>1, <1>2, <1>7, LivesFrame, RegisteredFrame, TablesFrame, StoredFrame DEF TruncateKeeps
  <2> QED
    BY <1>5, <1>6, <1>7, <2>1 DEF Ctl, TruncateKeeps
<1>8. CASE TruncateCuts(len, keep)
  <2>1. /\ life' \in [SeqIDs -> Present \cup {"none", "gone", "left", "torn"}]
        /\ \A s \in SeqIDs : s # op.s => life'[s] = life[s]
        /\ life'[op.s] = IF op.obj = sequences[op.s] THEN life[op.s] ELSE "torn"
    BY <1>1, <1>3, <1>8 DEF Lives, TruncateCuts
  <2>2. op.obj # sequences[op.s] => life[op.s] = "left"
    BY <1>4
  <2>3. Lives'
    <3>1. NoInsert' = NoInsert
      BY <1>2 DEF NoInsert, NoFragment, Layers
    <3>2. \A s \in SeqIDs : life'[s] = "none" <=> life[s] = "none"
      BY <1>3, <2>1
    <3>3. \A s \in batch : life'[s] \in {"live", "left"}
      BY <1>1, <1>3, <2>1 DEF Lives
    <3> QED
      BY <1>1, <1>2, <2>1, <3>1, <3>2, <3>3 DEF Lives
  <2>4. Registered'
    BY <1>1, <1>2, <1>3, <2>1, <2>2, RegisteredFrame
  <2>5. Tables'
    <3>1. len <= config.MaxLen
      BY <1>2, <1>3, <1>1, Sizes
    <3> QED
      BY <1>3, <1>6, <1>8, <2>1, <3>1
  <2>6. PICK c \in Seq(KV) : c = SubSeq(ctx[op.s], 1, len) /\ Len(c) = len
    <3>1. PICK d \in Seq(KV) : d = ctx[op.s] /\ len <= Len(d)
      BY <1>2, <1>3
    <3>2. SubSeq(d, 1, len) \in Seq(KV) /\ Len(SubSeq(d, 1, len)) = len
      BY <3>1
    <3> QED
      BY <3>1, <3>2
  <2>7. /\ ctx' \in [SeqIDs -> Seq(KV)] /\ ctx'[op.s] = c
        /\ \A s \in SeqIDs : s # op.s => ctx'[s] = ctx[s]
    <3>1. ctx' = [ctx EXCEPT ![op.s] = c]
      BY <1>8, <2>6 DEF TruncateCuts
    <3> QED
      BY <1>1, <1>3, <3>1 DEF Stored
  <2>8. version' \in [SeqIDs -> Int]
    <3>1. version \in [SeqIDs -> Int] /\ 1 - version[op.s] \in Int
      BY <1>1, <1>3 DEF Stored
    <3>2. version' = [version EXCEPT ![op.s] = 1 - version[op.s]]
      BY <1>8 DEF TruncateCuts
    <3> QED
      BY <3>1, <3>2
  <2>9. Stored'
    <3>1. len <= config.MaxLen
      BY <1>2, <1>3, <1>1, Sizes
    <3>2. ASSUME NEW s \in SeqIDs PROVE Len(ctx'[s]) <= config.MaxLen /\ (life'[s] = "none" => ctx'[s] = << >>)
      BY <1>1, <1>3, <2>1, <2>6, <2>7, <3>1, <3>2 DEF Stored
    <3> QED
      BY <1>2, <2>7, <2>8, <3>2 DEF Stored
  <2> QED
    BY <1>3, <1>5, <1>6, <2>1, <2>3, <2>4, <2>5, <2>9 DEF Ctl
<1> QED
  BY <1>2, <1>7, <1>8

-----------------------------------------------------------------------------
(* The allocator is one, whatever has been freed how often.                *)

LEMMA FreeLayerTyped ==
  ASSUME NEW a, Typed(a), NEW l \in Layers, NEW t \in Seq(Blocks)
  PROVE  Typed(FreeLayer(a, l, t))
<1>1. PICK n \in Nat : n = Len(t)
  <2>1. Len(t) \in Nat
    OBVIOUS
  <2> QED
    BY <2>1
<1>2. PICK g : Steps(a, l, t, g, n) /\ FreeLayer(a, l, t) = g[n]
  BY <1>1, FreeLayerIs
<1> DEFINE T == {i \in Nat : i <= n => Typed(g[i])}
<1>3. 0 \in T
  <2>1. g[0] = a
    BY <1>2 DEF Steps
  <2> QED
    BY <2>1
<1>4. ASSUME NEW i \in T PROVE i + 1 \in T
  <2> SUFFICES ASSUME i + 1 <= n PROVE Typed(g[i + 1])
    OBVIOUS
  <2>1. i \in Nat /\ i <= n /\ i + 1 \in 0..n /\ i + 1 # 0 /\ (i + 1) - 1 = i /\ i + 1 \in 1..Len(t)
    BY <1>1
  <2>2. PICK c : c = g[i] /\ Typed(c)
    BY <2>1
  <2>3. PICK b \in Blocks : b = t[i + 1]
    BY <2>1
  <2>4. g[i + 1] = Free(c, l, b)
    BY <1>2, <2>1, <2>2, <2>3 DEF Steps
  <2>5. PICK G, R : IsAlloc(Layers, Blocks, c, G, R)
    BY <2>2 DEF Typed
  <2>6. PICK H, R2 : IsAlloc(Layers, Blocks, Free(c, l, b), H, R2)
    BY <2>5, FreeIs
  <2> QED
    BY <2>4, <2>6 DEF Typed
<1> HIDE DEF T
<1>5. n \in T
  <2>1. T \subseteq Nat
    BY DEF T
  <2> QED BY <1>3, <1>4, <2>1, NatInd
<1> QED
  BY <1>2, <1>5 DEF T

LEMMA FreeAllTyped ==
  ASSUME config \in Configs, NEW a, Typed(a), NEW blocks, \A l \in Layers : blocks[l] \in Seq(Blocks)
  PROVE  Typed(FreeAll(a, blocks))
<1>1. PICK n \in Nat : n = config.NumLayers /\ Layers = 1..n
  BY Sizes
<1>2. PICK g : LayerSteps(a, blocks, g, n) /\ FreeAll(a, blocks) = g[n]
  BY <1>1, FreeAllIs
<1> DEFINE T == {i \in Nat : i <= n => Typed(g[i])}
<1>3. 0 \in T
  <2>1. g[0] = a
    BY <1>2 DEF LayerSteps
  <2> QED
    BY <2>1
<1>4. ASSUME NEW i \in T PROVE i + 1 \in T
  <2> SUFFICES ASSUME i + 1 <= n PROVE Typed(g[i + 1])
    OBVIOUS
  <2>1. i \in Nat /\ i <= n /\ i + 1 \in 0..n /\ i + 1 # 0 /\ (i + 1) - 1 = i
    BY <1>1
  <2>2. PICK c : c = g[i] /\ Typed(c)
    BY <2>1
  <2>3. PICK l \in Layers : l = i + 1
    BY <1>1, <2>1
  <2>4. PICK t \in Seq(Blocks) : t = blocks[l]
    OBVIOUS
  <2>5. g[i + 1] = FreeLayer(c, l, t)
    BY <1>2, <2>1, <2>2, <2>3, <2>4 DEF LayerSteps
  <2>6. Typed(FreeLayer(c, l, t))
    BY <2>2, FreeLayerTyped
  <2> QED
    BY <2>5, <2>6
<1> HIDE DEF T
<1>5. n \in T
  <2>1. T \subseteq Nat
    BY DEF T
  <2> QED BY <1>3, <1>4, <2>1, NatInd
<1> QED
  BY <1>2, <1>5 DEF T

LEMMA AllocateTyped ==
  ASSUME NEW a, Typed(a), NEW l \in Layers, a.free[l] # << >>
  PROVE  Allocate(a, l).got \in Blocks /\ Typed(Allocated(a, l))
<1>1. PICK G, R : IsAlloc(Layers, Blocks, a, G, R)
  BY DEF Typed
<1>2. PICK b \in Blocks : /\ b = Allocate(a, l).got
                          /\ \E H, R2 : IsAlloc(Layers, Blocks, Allocated(a, l), H, R2) /\ Taken(Layers, l, b, G, R, H, R2)
  BY <1>1, AllocateIs
<1> QED
  BY <1>2 DEF Typed

LEMMA TypedNext ==
  ASSUME config' = config, Typed(alloc')
  PROVE  Typed(alloc)'
<1>1. Layers' = Layers /\ Blocks' = Blocks
  BY SameTypes
<1> QED
  BY <1>1 DEF Typed

-----------------------------------------------------------------------------
(* The accounts of the sequences.                                          *)

\* In the next state, with the same configuration.
LEMMA AccountsNext ==
  ASSUME config' = config, AccountsOf(ListsOf(sequences', table'), alloc')
  PROVE  Accounts'
<1>1. Layers' = Layers /\ Blocks' = Blocks /\ Indices' = Indices /\ Owners' = Owners
  BY DEF Layers, Blocks, Indices, Owners, SeqIDs
<1>2. ListsOf(sequences, table)' = ListsOf(sequences', table')
  BY <1>1 DEF ListsOf
<1>3. HeldOf(ListsOf(sequences, table))' = HeldOf(ListsOf(sequences', table'))
  BY <1>1, <1>2 DEF HeldOf
<1>4. config.NumLayers' = config.NumLayers /\ config.MaxBlocks' = config.MaxBlocks
  OBVIOUS
<1> QED
  BY <1>1, <1>2, <1>3, <1>4 DEF Accounts, AccountsOf, ExactFor, ListsFit

\* Lists T2 are the lists T.
LEMMA AccountsSame ==
  ASSUME NEW T, NEW T2, NEW a, AccountsOf(T, a), \A l \in Layers : T2[l] = T[l]
  PROVE  AccountsOf(T2, a)
<1>1. HeldOf(T2) = HeldOf(T)
  BY DEF HeldOf
<1>2. ExactFor(T2, a)
  BY <1>1 DEF AccountsOf, ExactFor
<1>3. ListsFit(T2)
  BY DEF AccountsOf, ListsFit
<1> QED
  BY <1>2, <1>3 DEF AccountsOf

\* What sequence s is registered with.
List(sq, tb, l, s) == IF sq[s] = 0 THEN << >> ELSE tb[sq[s]].blocks[l]

LEMMA ListIs ==
  ASSUME NEW sq, NEW tb, NEW l \in Layers, NEW s \in Owners
  PROVE  ListsOf(sq, tb)[l][s] = List(sq, tb, l, s)
BY DEF ListsOf, List

\* No registered table has got other blocks, and what is registered anew is empty.
LEMMA SameLists ==
  ASSUME Ctl, ListsFit(ListsOf(sequences, table)),
         \A s \in SeqIDs : \/ sequences'[s] = sequences[s]
                           \/ /\ sequences[s] = 0 /\ sequences'[s] \in Objects
                              /\ table[sequences'[s]] = NewBlockTable,
         \A t \in Objects : table'[t].blocks = table[t].blocks
  PROVE  \A l \in Layers : ListsOf(sequences', table')[l] = ListsOf(sequences, table)[l]
<1>1. Registered /\ config \in Configs
  BY DEF Ctl, Lives
<1>2. ASSUME NEW l \in Layers, NEW s \in SeqIDs PROVE List(sequences', table', l, s) = List(sequences, table, l, s)
  <2>1. sequences[s] \in {0} \cup Objects
    BY <1>1 DEF Registered
  <2>2. CASE sequences'[s] = sequences[s]
    <3>1. sequences[s] # 0 => table'[sequences[s]].blocks = table[sequences[s]].blocks
      BY <2>1
    <3> QED
      BY <2>2, <3>1 DEF List
  <2>3. CASE sequences[s] = 0 /\ sequences'[s] \in Objects /\ table[sequences'[s]] = NewBlockTable
    <3>1. table'[sequences'[s]].blocks[l] = << >>
      BY <1>1, <2>3, NewTable
    <3> QED
      BY <2>3, <3>1 DEF List
  <2> QED
    BY <2>2, <2>3
<1>3. \A l \in Layers : /\ ListsOf(sequences', table')[l] = [s \in Owners |-> List(sequences', table', l, s)]
                        /\ ListsOf(sequences, table)[l] = [s \in Owners |-> List(sequences, table, l, s)]
  BY DEF ListsOf, List
<1>4. ASSUME NEW l \in Layers
      PROVE  [s \in Owners |-> List(sequences', table', l, s)] = [s \in Owners |-> List(sequences, table, l, s)]
  BY <1>2, <1>4 DEF Owners
<1> QED
  BY <1>3, <1>4

\* Nothing that counts has changed.
LEMMA AccountsFrame ==
  ASSUME Ctl, Accounts, UNCHANGED <<config, alloc>>,
         \A s \in SeqIDs : \/ sequences'[s] = sequences[s]
                           \/ /\ sequences[s] = 0 /\ sequences'[s] \in Objects
                              /\ table[sequences'[s]] = NewBlockTable,
         \A t \in Objects : table'[t].blocks = table[t].blocks
  PROVE  Accounts'
<1>1. AccountsOf(ListsOf(sequences, table), alloc) /\ ListsFit(ListsOf(sequences, table))
  BY DEF Accounts, AccountsOf
<1>2. \A l \in Layers : ListsOf(sequences', table')[l] = ListsOf(sequences, table)[l]
  BY <1>1, SameLists
<1>3. PICK T, T2, a : T = ListsOf(sequences, table) /\ T2 = ListsOf(sequences', table') /\ a = alloc /\ a = alloc'
  OBVIOUS
<1>4. AccountsOf(T2, a)
  BY <1>1, <1>2, <1>3, AccountsSame
<1> QED
  BY <1>3, <1>4, AccountsNext

\* A sequence is registered with one of its own two tables.
LEMMA OwnEntry ==
  ASSUME Ctl, NEW s \in SeqIDs
  PROVE  /\ sequences[s] \in {0, s, MaxSeqs + s}
         /\ \A q \in SeqIDs : q # s => sequences[s] # q /\ sequences[s] # MaxSeqs + q
<1>1. Lives /\ Registered
  BY DEF Ctl
<1>2. sequences[s] \in {0, s, MaxSeqs + s}
  BY <1>1 DEF Lives, Registered, Present
<1>3. ASSUME NEW q \in SeqIDs, q # s PROVE sequences[s] # q /\ sequences[s] # MaxSeqs + q
  <2>1. q # 0 /\ MaxSeqs + q # 0 /\ MaxSeqs + s # q /\ MaxSeqs + q # s /\ MaxSeqs + s # MaxSeqs + q
    BY <1>3, ObjectsAre
  <2> QED
    BY <1>2, <1>3, <2>1
<1> QED
  BY <1>2, <1>3

\* The lists of the others stay, if only a table of q and the entry of q change.
OnlyOf(q) ==
  /\ \A s \in SeqIDs : s # q => sequences'[s] = sequences[s]
  /\ \A t \in Objects : t # q /\ t # MaxSeqs + q => table'[t].blocks = table[t].blocks

LEMMA OthersLists ==
  ASSUME Ctl, NEW q \in SeqIDs, OnlyOf(q), NEW l \in Layers, NEW s \in SeqIDs, s # q
  PROVE  List(sequences', table', l, s) = List(sequences, table, l, s)
<1>1. sequences'[s] = sequences[s]
  BY DEF OnlyOf
<1>2. sequences[s] \in {0} \cup Objects
  BY DEF Ctl, Registered
<1>3. sequences[s] # q /\ sequences[s] # MaxSeqs + q
  BY OwnEntry
<1>4. sequences[s] # 0 => table'[sequences[s]].blocks = table[sequences[s]].blocks
  BY <1>2, <1>3 DEF OnlyOf
<1> QED
  BY <1>1, <1>4 DEF List

\* List v is u up to index from, and t the rest of it.
Splits(u, v, from, t) ==
  /\ v \in Seq(Blocks) /\ Len(v) = IF from < Len(u) THEN from ELSE Len(u)
  /\ \A i \in 1..Len(v) : v[i] = u[i]
  /\ Rest(Blocks, u, from, t)

\* An owner's list is cut in every layer, and what is cut off is released.
CutTo(q, from, blocks) ==
  \A l \in Layers : Splits(List(sequences, table, l, q), List(sequences', table', l, q), from, blocks[l])

LEMMA ReleaseAccounts ==
  ASSUME Ctl, Accounts, config' = config, NEW q \in SeqIDs, OnlyOf(q), NEW from \in Nat, NEW blocks,
         CutTo(q, from, blocks), alloc' = FreeAll(alloc, blocks)
  PROVE  Accounts'
<1>1. config \in Configs /\ AccountsOf(ListsOf(sequences, table), alloc)
  BY DEF Ctl, Lives, Accounts
<1>2. PICK T, T2 : T = ListsOf(sequences, table) /\ T2 = ListsOf(sequences', table')
  OBVIOUS
<1>3. \A l \in Layers, s \in Owners : T[l][s] \in Seq(Blocks) /\ Len(T[l][s]) <= config.MaxBlocks
  BY <1>1, <1>2 DEF AccountsOf, ListsFit
<1>4. \A l \in Layers, s \in Owners : T[l][s] = List(sequences, table, l, s) /\ T2[l][s] = List(sequences', table', l, s)
  BY <1>2, ListIs
<1>5. \A l \in Layers, s \in Owners : s # q => T2[l][s] = T[l][s]
  BY <1>4, OthersLists DEF Owners
<1>6. ASSUME NEW l \in Layers
      PROVE  /\ T2[l][q] \in Seq(Blocks) /\ T[l][q] \in Seq(Blocks)
             /\ Len(T2[l][q]) = IF from < Len(T[l][q]) THEN from ELSE Len(T[l][q])
             /\ \A i \in 1..Len(T2[l][q]) : T2[l][q][i] = T[l][q][i]
             /\ Rest(Blocks, T[l][q], from, blocks[l])
  <2>1. q \in Owners
    BY DEF Owners
  <2>2. Splits(T[l][q], T2[l][q], from, blocks[l])
    BY <1>4, <2>1 DEF CutTo
  <2> QED
    BY <1>3, <2>1, <2>2 DEF Splits
<1>7. ASSUME NEW l \in Layers, NEW s \in Owners PROVE T2[l][s] \in Seq(Blocks) /\ Len(T2[l][s]) <= config.MaxBlocks
  <2>1. CASE s # q
    BY <1>3, <1>5, <2>1
  <2>2. CASE s = q
    <3>1. PICK m \in Nat, n \in Nat : m = Len(T2[l][q]) /\ n = Len(T[l][q])
      <4>1. Len(T2[l][q]) \in Nat /\ Len(T[l][q]) \in Nat
        BY <1>6
      <4> QED
        BY <4>1
    <3>2. m <= n
      BY <1>6, <3>1
    <3>3. n <= config.MaxBlocks /\ config.MaxBlocks \in Nat
      BY <1>1, <1>3, <2>2, <3>1, Sizes
    <3> QED
      BY <1>6, <2>2, <3>1, <3>2, <3>3
  <2> QED
    BY <2>1, <2>2
<1>8. Released(T, T2, q, from, blocks)
  <2> SUFFICES ASSUME NEW l \in Layers
               PROVE  /\ CutList(Owners, Blocks, T[l], T2[l], q, from)
                      /\ Rest(Blocks, T[l][q], from, blocks[l])
                      /\ Len(T[l][q]) <= config.MaxBlocks + config.MaxLen
    BY DEF Released
  <2>1. CutList(Owners, Blocks, T[l], T2[l], q, from)
    BY <1>3, <1>5, <1>6, <1>7 DEF CutList
  <2>2. Len(T[l][q]) <= config.MaxBlocks + config.MaxLen
    <3>1. Len(T[l][q]) \in Nat /\ Len(T[l][q]) <= config.MaxBlocks
      BY <1>3, <1>6 DEF Owners
    <3>2. config.MaxBlocks \in Nat /\ config.MaxLen \in Nat
      BY <1>1, Sizes
    <3> QED
      BY <3>1, <3>2
  <2> QED
    BY <1>6, <2>1, <2>2
<1>9. ExactFor(T2, alloc')
  <2>1. q \in Owners /\ ExactFor(T, alloc)
    BY <1>1, <1>2 DEF Owners, AccountsOf
  <2>2. ExactFor(T2, FreeAll(alloc, blocks))
    BY <1>1, <1>8, <2>1, ReleaseExact
  <2> QED
    BY <2>2
<1>10. ListsFit(T2)
  BY <1>7 DEF ListsFit
<1>11. AccountsOf(ListsOf(sequences', table'), alloc')
  BY <1>2, <1>9, <1>10 DEF AccountsOf
<1> QED
  BY <1>11, AccountsNext

LEMMA DeleteAccounts ==
  ASSUME Ctl, Accounts, NEW q \in SeqIDs, DeleteSequence(q)
  PROVE  Accounts'
<1>1. /\ sequences[q] = q /\ alloc' = FreeAll(alloc, table[q].blocks) /\ config' = config
  BY DeleteIs
<1>2. /\ sequences'[q] = 0 /\ \A s \in SeqIDs : s # q => sequences'[s] = sequences[s]
      /\ \A t \in Objects : t # q => table'[t] = table[t]
  BY DeleteCtl
<1>3. OnlyOf(q)
  BY <1>2 DEF OnlyOf
<1>4. q # 0 /\ q \in Objects /\ table[q] \in TableType
  BY ObjectsAre DEF Ctl, Tables
<1>5. ASSUME NEW l \in Layers
      PROVE  /\ List(sequences', table', l, q) = << >>
             /\ List(sequences, table, l, q) = table[q].blocks[l]
             /\ table[q].blocks[l] \in Seq(Blocks)
  BY <1>1, <1>2, <1>4 DEF List, TableType
<1>6. ASSUME NEW u \in Seq(Blocks) PROVE Splits(u, << >>, 0, u)
  <2>1. PICK n \in Nat : n = Len(u)
    <3>1. Len(u) \in Nat
      OBVIOUS
    <3> QED
      BY <3>1
  <2>3. Rest(Blocks, u, 0, u)
    <3>1. n = IF 0 < n THEN n - 0 ELSE 0
      OBVIOUS
    <3>2. \A j \in 1..n : 0 + j = j
      OBVIOUS
    <3> QED
      BY <2>1, <3>1, <3>2 DEF Rest
  <2>4. Len(<< >>) = 0 /\ << >> \in Seq(Blocks)
    OBVIOUS
  <2> QED
    BY <2>1, <2>3, <2>4 DEF Splits
<1>9. CutTo(q, 0, table[q].blocks)
  BY <1>5, <1>6 DEF CutTo
<1>7. PICK from \in Nat : from = 0
  OBVIOUS
<1>10. PICK blocks : blocks = table[q].blocks
  OBVIOUS
<1>8. CutTo(q, from, blocks) /\ alloc' = FreeAll(alloc, blocks)
  BY <1>1, <1>7, <1>9, <1>10
<1> QED
  BY <1>1, <1>3, <1>8, ReleaseAccounts

LEMMA TruncateAccounts ==
  ASSUME Ctl, ~Torn => Accounts, TruncateSequence, ~Torn'
  PROVE  Accounts'
<1>1. PICK len \in Nat, keep \in Nat :
           /\ op.pc = "cut" /\ len <= Len(ctx[op.s])
           /\ TruncateKeeps \/ TruncateCuts(len, keep)
           /\ UNCHANGED <<config, data, sequences, fragments, nextSeqID, batch, ins>>
  BY TruncateIs
<1>2. /\ \A s \in SeqIDs : life[s] = "torn" => life'[s] = "torn"
      /\ op.obj # sequences[op.s] => TruncateKeeps \/ life'[op.s] = "torn"
      /\ \A n, k : TruncateCuts(n, k) /\ n <= config.MaxLen /\ n \in Nat /\ k \in Nat =>
           /\ table'[op.obj].blocks = KeptBlocks(table[op.obj], k)
           /\ \A t \in Objects : t # op.obj => table'[t] = table[t]
  BY TruncateCtl
<1>3. Accounts
  BY <1>2 DEF Torn, SeqIDs
<1>4. op.s \in SeqIDs /\ Len(ctx[op.s]) \in Nat /\ Len(ctx[op.s]) <= config.MaxLen /\ config.MaxLen \in Nat
  BY <1>1, PassSeq, Sizes DEF Ctl, Lives
<1>5. CASE TruncateKeeps
  BY <1>1, <1>3, <1>5, AccountsFrame DEF TruncateKeeps
<1>6. CASE ~TruncateKeeps
  <2>1. TruncateCuts(len, keep) /\ len <= config.MaxLen
    BY <1>1, <1>4, <1>6
  <2>2. op.obj = sequences[op.s]
    <3>1. life'[op.s] # "torn"
      BY <1>4 DEF Torn, SeqIDs
    <3> QED
      BY <1>2, <1>6, <3>1
  <2>3. /\ op.obj \in Objects /\ table[op.obj] \in TableType /\ (op.obj = op.s \/ op.obj = MaxSeqs + op.s)
        /\ op.obj # 0
    BY <1>1, <1>4, CutTable, ObjectsAre
  <2>4. table'[op.obj].blocks = KeptBlocks(table[op.obj], keep) /\ \A t \in Objects : t # op.obj => table'[t] = table[t]
    BY <1>2, <2>1
  <2>5. PICK q \in SeqIDs : q = op.s /\ OnlyOf(q)
    BY <1>1, <1>4, <2>3, <2>4 DEF OnlyOf
  <2>6. PICK t \in TableType : t = table[op.obj]
    BY <2>3
  <2>7. ASSUME NEW l \in Layers
        PROVE  Splits(List(sequences, table, l, q), List(sequences', table', l, q), keep, CutBlocks(t, keep)[l])
    <3>1. List(sequences, table, l, q) = t.blocks[l] /\ List(sequences', table', l, q) = KeptBlocks(t, keep)[l]
      BY <1>1, <2>2, <2>3, <2>4, <2>5, <2>6 DEF List
    <3>2. PICK u, v, r : u = t.blocks[l] /\ v = KeptBlocks(t, keep)[l] /\ r = CutBlocks(t, keep)[l]
      OBVIOUS
    <3>3. Splits(u, v, keep, r)
      BY <3>2, KeptBlocksAre DEF Splits
    <3> QED
      BY <3>1, <3>2, <3>3
  <2>8. CutTo(q, keep, CutBlocks(t, keep))
    BY <2>7 DEF CutTo
  <2>9. alloc' = FreeAll(alloc, CutBlocks(t, keep)) /\ config' = config
    BY <1>1, <2>1, <2>6 DEF TruncateCuts
  <2>10. PICK blocks : blocks = CutBlocks(t, keep)
    OBVIOUS
  <2> QED
    BY <1>3, <2>5, <2>8, <2>9, <2>10, ReleaseAccounts
<1> QED
  BY <1>5, <1>6

\* No list is longer than the layer has blocks.
LEMMA ExactFits ==
  ASSUME config \in Configs, NEW T, NEW a, ExactFor(T, a), NEW l \in Layers, NEW o \in Owners,
         T[l][o] \in Seq(Blocks), Len(T[l][o]) <= config.MaxBlocks + config.MaxLen
  PROVE  Len(T[l][o]) <= config.MaxBlocks
<1>0. PICK one \in BOOLEAN : one = (config.NumLayers = 1)
  OBVIOUS
<1>1. All(Layers, Blocks, one, HeldOf(T), a)
  BY <1>0, Zenon DEF ExactFor
<1>2. PICK G, R : \A k \in Layers : Good(Blocks, one, HeldOf(T)[k], R, G[k])
  BY <1>1 DEF All
<1>3. PICK E : E = Ent(Owners, Indices, Blocks, T[l]) /\ Good(Blocks, one, E, R, G[l])
  BY <1>2 DEF HeldOf
<1>4. PICK u \in Seq(Blocks), n \in Nat : u = T[l][o] /\ n = Len(u)
  <2>1. Len(T[l][o]) \in Nat
    OBVIOUS
  <2> QED
    BY <2>1
<1>5. \A i \in 1..n : i \in Indices
  BY <1>4, Sizes
<1>6. ASSUME NEW i \in 1..n, NEW j \in 1..n, u[i] = u[j] PROVE i = j
  <2>1. PICK b \in Blocks : b = u[i] /\ b = u[j]
    BY <1>4, <1>6
  <2>2. PICK x, y : x = <<o, <<i, b>>>> /\ y = <<o, <<j, b>>>>
    OBVIOUS
  <2>3. x \in Naming(E, b) /\ y \in Naming(E, b)
    <3>1. /\ x \in Owners \X (Indices \X Blocks) /\ x[1] = o /\ x[2][1] = i /\ x[2][2] = b
          /\ y \in Owners \X (Indices \X Blocks) /\ y[1] = o /\ y[2][1] = j /\ y[2][2] = b
      BY <1>5, <2>2
    <3> QED
      BY <1>3, <1>4, <2>1, <3>1 DEF Ent, Naming
  <2>4. x = y
    BY <1>3, <2>3 DEF Good
  <2> QED
    BY <2>2, <2>4
<1>7. PICK m \in Nat : m = config.MaxBlocks /\ Blocks = 0..(m - 1)
  BY Sizes DEF Blocks
<1>8. Len(u) <= m
  <2>1. u \in Seq(0..(m - 1)) /\ \A i, j \in 1..Len(u) : u[i] = u[j] => i = j
    BY <1>4, <1>6, <1>7
  <2> QED
    BY <2>1, InjectiveFits
<1> QED
  BY <1>4, <1>7, <1>8

\* The list of the running sequence before and after it has got a block.
LEMMA GetsList ==
  ASSUME Ctl, op.pc \notin {"idle", "dead"}, EntryMade, UNCHANGED <<config, life>>, NEW b \in Blocks,
         table[TableOf(op.s)] \in TableType, table'[TableOf(op.s)] = WithBlock(table[TableOf(op.s)], op.layer, b)
  PROVE  \A l \in Layers : List(sequences', table', l, op.s)
                             = IF l = op.layer THEN Append(List(sequences, table, l, op.s), b)
                                               ELSE List(sequences, table, l, op.s)
<1>1. /\ op.s \in SeqIDs /\ op.layer \in Layers /\ TableOf(op.s) # 0
      /\ sequences'[op.s] = TableOf(op.s)
      /\ sequences'[op.s] = sequences[op.s] \/ (sequences[op.s] = 0 /\ table[sequences'[op.s]] = NewBlockTable)
  BY PassSeq, EntryIs
<1>2. PICK t \in TableType : t = table[TableOf(op.s)]
  OBVIOUS
<1>3. ASSUME NEW l \in Layers PROVE List(sequences, table, l, op.s) = t.blocks[l]
  <2>1. CASE sequences[op.s] # 0
    BY <1>1, <1>2, <2>1 DEF List
  <2>2. CASE sequences[op.s] = 0
    <3>1. t = NewBlockTable
      BY <1>1, <1>2, <2>2
    <3>2. t.blocks[l] = << >>
      BY <3>1, NewTable DEF Ctl, Lives
    <3> QED
      BY <2>2, <3>2 DEF List
  <2> QED
    BY <2>1, <2>2
<1>4. ASSUME NEW l \in Layers
      PROVE  WithBlock(t, op.layer, b).blocks[l] = IF l = op.layer THEN Append(t.blocks[l], b) ELSE t.blocks[l]
  <2>1. PICK k \in Layers : k = op.layer
    BY <1>1
  <2>2. /\ WithBlock(t, k, b).blocks[k] = Append(t.blocks[k], b)
        /\ \A j \in Layers : j # k => WithBlock(t, k, b).blocks[j] = t.blocks[j]
    BY WithBlockIs
  <2> QED
    BY <2>1, <2>2
<1>5. \A l \in Layers : List(sequences', table', l, op.s) = WithBlock(t, op.layer, b).blocks[l]
  BY <1>1, <1>2 DEF List
<1> QED
  BY <1>3, <1>4, <1>5

\* List v is u with b at its end.
Grows(u, v, b) ==
  /\ u \in Seq(Blocks) /\ v \in Seq(Blocks) /\ Len(v) = Len(u) + 1 /\ v[Len(u) + 1] = b
  /\ \A i \in 1..Len(u) : u[i] = v[i]

LEMMA AppendGrows ==
  ASSUME NEW u \in Seq(Blocks), NEW b \in Blocks
  PROVE  Grows(u, Append(u, b), b)
<1>1. PICK v : v = Append(u, b)
  OBVIOUS
<1>2. v \in Seq(Blocks) /\ Len(v) = Len(u) + 1 /\ \A i \in 1..Len(u) : v[i] = u[i]
  BY <1>1, Appended
<1>3. v[Len(u) + 1] = b
  BY <1>1, Appended
<1> QED
  BY <1>1, <1>2, <1>3 DEF Grows

LEMMA GrowAccounts ==
  ASSUME Ctl, Accounts, config' = config, NEW q \in SeqIDs, OnlyOf(q), NEW l \in Layers,
         alloc.free[l] # << >>, alloc' = Allocated(alloc, l), config.MaxLen > 0,
         Grows(List(sequences, table, l, q), List(sequences', table', l, q), Allocate(alloc, l).got),
         \A k \in Layers : k # l => List(sequences', table', k, q) = List(sequences, table, k, q)
  PROVE  Accounts'
<1>1. config \in Configs /\ AccountsOf(ListsOf(sequences, table), alloc)
  BY DEF Ctl, Lives, Accounts
<1>2. PICK T, T2 : T = ListsOf(sequences, table) /\ T2 = ListsOf(sequences', table')
  OBVIOUS
<1>3. \A k \in Layers, s \in Owners : T[k][s] \in Seq(Blocks) /\ Len(T[k][s]) <= config.MaxBlocks
  BY <1>1, <1>2 DEF AccountsOf, ListsFit
<1>4. \A k \in Layers, s \in Owners : T[k][s] = List(sequences, table, k, s) /\ T2[k][s] = List(sequences', table', k, s)
  BY <1>2, ListIs
<1>5. ASSUME NEW k \in Layers, NEW s \in Owners, s # q \/ k # l PROVE T2[k][s] = T[k][s]
  <2>1. CASE s # q
    BY <1>4, <2>1, OthersLists DEF Owners
  <2>2. CASE s = q
    BY <1>4, <1>5, <2>2
  <2> QED
    BY <2>1, <2>2
<1>6. q \in Owners /\ ExactFor(T, alloc)
  BY <1>1, <1>2 DEF Owners, AccountsOf
<1>7. PICK b \in Blocks : /\ b = Allocate(alloc, l).got
                          /\ \A U, o : o \in Owners /\ GrownBy(T, U, l, o, b) => ExactFor(U, Allocated(alloc, l))
  BY <1>1, <1>6, GrowExact
<1>8. PICK u \in Seq(Blocks), v \in Seq(Blocks), n \in Nat :
        u = T[l][q] /\ v = T2[l][q] /\ n = Len(u) /\ Len(v) = n + 1 /\ v[n + 1] = b /\ \A i \in 1..n : u[i] = v[i]
  <2>1. Grows(T[l][q], T2[l][q], b)
    BY <1>4, <1>6, <1>7
  <2>2. T[l][q] \in Seq(Blocks) /\ T2[l][q] \in Seq(Blocks)
    BY <2>1 DEF Grows
  <2>3. Len(T[l][q]) \in Nat
    BY <2>2
  <2> QED
    BY <2>1, <2>2, <2>3 DEF Grows
<1>9. n + 1 <= config.MaxBlocks + config.MaxLen
  <2>1. PICK m \in Nat, k \in Nat : m = config.MaxBlocks /\ k = config.MaxLen /\ k > 0
    BY <1>1, Sizes
  <2>2. n <= m
    BY <1>3, <1>6, <1>8, <2>1
  <2> QED
    BY <2>1, <2>2
<1>10. \A k \in Layers, s \in Owners : T2[k][s] \in Seq(Blocks)
  BY <1>3, <1>5, <1>8
<1>11. GrownBy(T, T2, l, q, b)
  <2>1. \A k \in Layers \ {l} : T2[k] = T[k]
    <3> SUFFICES ASSUME NEW k \in Layers, k # l PROVE T2[k] = T[k]
      OBVIOUS
    <3>1. T2[k] = [s \in Owners |-> T2[k][s]] /\ T[k] = [s \in Owners |-> T[k][s]]
      BY <1>2 DEF ListsOf
    <3>2. \A s \in Owners : T2[k][s] = T[k][s]
      BY <1>5
    <3> QED
      BY <3>1, <3>2
  <2>2. CutList(Owners, Blocks, T2[l], T[l], q, n)
    <3>1. Len(T[l][q]) = IF n < Len(T2[l][q]) THEN n ELSE Len(T2[l][q])
      BY <1>8
    <3>2. \A i \in 1..Len(T[l][q]) : T[l][q][i] = T2[l][q][i]
      BY <1>8
    <3>3. \A s \in Owners \ {q} : T[l][s] = T2[l][s]
      BY <1>5
    <3> QED
      BY <1>3, <1>10, <3>1, <3>2, <3>3 DEF CutList
  <2> QED
    BY <1>8, <1>9, <2>1, <2>2 DEF GrownBy
<1>12. ExactFor(T2, alloc')
  BY <1>6, <1>7, <1>11
<1>13. ListsFit(T2)
  <2> SUFFICES ASSUME NEW k \in Layers, NEW s \in Owners
               PROVE  T2[k][s] \in Seq(Blocks) /\ Len(T2[k][s]) <= config.MaxBlocks
    BY DEF ListsFit
  <2>1. CASE s # q \/ k # l
    BY <1>3, <1>5, <2>1
  <2>2. CASE s = q /\ k = l
    <3>1. T2[l][q] \in Seq(Blocks) /\ Len(T2[l][q]) <= config.MaxBlocks + config.MaxLen
      BY <1>8, <1>9
    <3>2. Len(T2[l][q]) <= config.MaxBlocks
      BY <1>1, <1>6, <1>12, <3>1, ExactFits
    <3> QED
      BY <2>2, <3>1, <3>2
  <2> QED
    BY <2>1, <2>2
<1>14. AccountsOf(ListsOf(sequences', table'), alloc')
  BY <1>2, <1>12, <1>13 DEF AccountsOf
<1> QED
  BY <1>14, AccountsNext

LEMMA AllocateAccounts ==
  ASSUME Ctl, Typed(alloc), Accounts, AllocateBlock
  PROVE  Accounts'
<1>1. /\ op.pc = "fill" /\ EntryMade /\ (AllocateDead \/ AllocateGets)
      /\ UNCHANGED <<config, data, fragments, nextSeqID, life, ctx, version, batch, ins>>
  BY AllocateBlockIs
<1>2. op.s \in SeqIDs /\ op.layer \in Layers
      /\ (TableOf(op.s) = op.s \/ TableOf(op.s) = MaxSeqs + op.s)
  BY <1>1, PassSeq
<1>3. alloc.free[op.layer] # << >> => Allocate(alloc, op.layer).got \in Blocks
  BY <1>2, AllocateTyped
<1>4. /\ \A s \in SeqIDs : sequences'[s] = sequences[s] \/ (sequences[s] = 0 /\ sequences'[s] \in Objects
                                                            /\ table[sequences'[s]] = NewBlockTable)
      /\ AllocateGets => /\ sequences'[op.s] = TableOf(op.s) /\ table[TableOf(op.s)] \in TableType
                         /\ table'[TableOf(op.s)] = WithBlock(table[TableOf(op.s)], op.layer, Allocate(alloc, op.layer).got)
                         /\ \A r \in Objects : r # TableOf(op.s) => table'[r] = table[r]
  BY <1>3, AllocateBlockCtl
<1>5. CASE AllocateDead
  BY <1>1, <1>4, <1>5, AccountsFrame DEF AllocateDead
<1>6. CASE AllocateGets
  <2>1. PICK b \in Blocks : b = Allocate(alloc, op.layer).got
    BY <1>3, <1>6 DEF AllocateGets
  <2>2. alloc.free[op.layer] # << >> /\ alloc' = Allocated(alloc, op.layer)
    BY <1>6 DEF AllocateGets
  <2>3. PICK q \in SeqIDs, l \in Layers : q = op.s /\ l = op.layer
    BY <1>2
  <2>4. OnlyOf(q)
    <3>1. \A s \in SeqIDs : s # op.s => sequences'[s] = sequences[s]
      BY <1>1, EntryIs
    <3> QED
      BY <1>2, <1>4, <1>6, <2>3, <3>1 DEF OnlyOf
  <2>5. \A k \in Layers : List(sequences', table', k, op.s)
                            = IF k = op.layer THEN Append(List(sequences, table, k, op.s), b)
                                              ELSE List(sequences, table, k, op.s)
    BY <1>1, <1>4, <1>6, <2>1, GetsList
  <2>6. \A k \in Layers : k # l => List(sequences', table', k, q) = List(sequences, table, k, q)
    BY <2>3, <2>5
  <2>7. PICK u \in Seq(Blocks) : u = List(sequences, table, l, q)
    <3>1. ListsOf(sequences, table)[l][q] \in Seq(Blocks)
      BY DEF Accounts, AccountsOf, ListsFit, Owners
    <3> QED
      BY <3>1, ListIs DEF Owners
  <2>8. Grows(List(sequences, table, l, q), List(sequences', table', l, q), Allocate(alloc, l).got)
    BY <2>1, <2>3, <2>5, <2>7, AppendGrows
  <2>9. config.MaxLen > 0
    <3>1. op.n > 0 /\ op.start + op.n <= config.MaxLen /\ config \in Configs
      BY <1>1 DEF Ctl, Pass, Lives
    <3>2. op.n \in Nat /\ op.start \in Nat /\ config.MaxLen \in Nat
      BY <1>1, <3>1, PassSeq, Sizes
    <3> QED
      BY <3>1, <3>2
  <2>10. alloc.free[l] # << >> /\ alloc' = Allocated(alloc, l) /\ config' = config
    BY <1>1, <2>2, <2>3
  <2> QED
    BY <2>4, <2>6, <2>8, <2>9, <2>10, GrowAccounts
<1> QED
  BY <1>1, <1>5, <1>6

\* At first every block is free, once.
LEMMA FullIsGood ==
  ASSUME NEW m \in Nat, NEW one \in BOOLEAN, NEW B, B = 0..(m - 1), NEW R, R = [b \in B |-> 0]
  PROVE  Good(B, one, {}, R, FullFreeList(m))
<1>1. PICK F : F = FullFreeList(m)
  OBVIOUS
<1>2. \A i \in 1..m : m - i \in B
  OBVIOUS
<1>3. F \in Seq(B) /\ Len(F) = m /\ \A i \in 1..m : F[i] = m - i
  <2>1. F = [i \in 1..m |-> m - i]
    BY <1>1 DEF FullFreeList
  <2>2. F \in [1..m -> B]
    BY <1>2, <2>1
  <2>3. F \in Seq(B)
    BY <2>2
  <2>4. DOMAIN F = 1..m
    BY <2>2
  <2> QED
    BY <2>1, <2>3, <2>4
<1>4. \A i, j \in 1..Len(F) : F[i] = F[j] => i = j
  BY <1>3
<1>5. ASSUME NEW b \in B PROVE \E i \in 1..Len(F) : F[i] = b
  <2>1. PICK i \in 1..m : i = m - b
    OBVIOUS
  <2>2. F[i] = b
    BY <1>3, <2>1
  <2> QED
    BY <1>3, <2>2
<1>6. \A b \in B : Naming({}, b) = {}
  BY DEF Naming
<1>7. IsFiniteSet({}) /\ Cardinality({}) = 0
  BY FS_EmptySet
<1>8. R \in [B -> Nat] /\ \A b \in B : R[b] = 0
  OBVIOUS
<1>9. Good(B, one, {}, R, F)
  <2>1. /\ IsFiniteSet({}) /\ \A e \in {} : e[2][2] \in B
        /\ R \in [B -> Nat] /\ F \in Seq(B)
    BY <1>3, <1>7, <1>8
  <2>2. \A b \in B : (\E i \in 1..Len(F) : F[i] = b) <=> Naming({}, b) = {}
    BY <1>5, <1>6
  <2>3. \A b \in B : R[b] = Cardinality(Naming({}, b))
    BY <1>6, <1>7, <1>8
  <2>4. \A b \in B : R[b] <= 1 /\ \A x, y \in Naming({}, b) : x = y
    BY <1>6, <1>8
  <2> QED
    BY <1>4, <2>1, <2>2, <2>3, <2>4, Zenon DEF Good
<1> QED
  BY <1>1, <1>9

LEMMA InitPaged ==
  ASSUME Init, NoFragments
  PROVE  PagedInv
<1>1. Ctl
  BY InitCtl
<1>2. /\ config \in Configs
      /\ alloc = [free |-> [l \in Layers |-> FullFreeList(config.MaxBlocks)], ref |-> [b \in Blocks |-> 0]]
      /\ \A s \in SeqIDs : sequences[s] = 0
  BY DEF Init
<1>3. PICK T : T = ListsOf(sequences, table)
  OBVIOUS
<1>4. ASSUME NEW l \in Layers PROVE HeldOf(T)[l] = {} /\ \A o \in Owners : T[l][o] = << >>
  <2>1. ASSUME NEW o \in Owners PROVE T[l][o] = << >>
    <3>1. T[l][o] = List(sequences, table, l, o)
      BY <1>3, ListIs
    <3> QED
      BY <1>2, <3>1 DEF List, Owners
  <2>2. PICK U : U = T[l]
    OBVIOUS
  <2>3. Ent(Owners, Indices, Blocks, U) = {}
    <3>1. \A e \in Owners \X (Indices \X Blocks) : e[1] \in Owners
      OBVIOUS
    <3>2. Len(<< >>) = 0
      OBVIOUS
    <3>3. \A e \in Owners \X (Indices \X Blocks) : ~(e[2][1] \in 1..Len(U[e[1]]))
      BY <2>1, <2>2, <3>1, <3>2
    <3> QED
      BY <3>3 DEF Ent
  <2> QED
    BY <2>1, <2>2, <2>3 DEF HeldOf
<1>5. PICK one \in BOOLEAN : one = (config.NumLayers = 1)
  OBVIOUS
<1>6. PICK m \in Nat : m = config.MaxBlocks /\ Blocks = 0..(m - 1)
  BY <1>2, Sizes DEF Blocks
<1>7. PICK R : R = [b \in Blocks |-> 0]
  OBVIOUS
<1>8. Good(Blocks, one, {}, R, FullFreeList(m))
  BY <1>6, <1>7, FullIsGood
<1>9. PICK G : G = [l \in Layers |-> FullFreeList(m)]
  OBVIOUS
<1>10. IsAlloc(Layers, Blocks, alloc, G, R)
  <2>1. FullFreeList(m) \in Seq(Blocks) /\ R \in [Blocks -> Nat]
    BY <1>8 DEF Good
  <2>2. G \in [Layers -> Seq(Blocks)]
    BY <1>9, <2>1
  <2> QED
    BY <1>2, <1>6, <1>7, <1>9, <2>1, <2>2 DEF IsAlloc
<1>11. one => Layers = {1}
  BY <1>2, <1>5, Sizes
<1>12. \A l \in Layers : Good(Blocks, one, HeldOf(T)[l], R, G[l])
  BY <1>4, <1>8, <1>9
<1>13. All(Layers, Blocks, one, HeldOf(T), alloc)
  BY <1>10, <1>11, <1>12 DEF All
<1>14. ListsFit(T)
  <2>1. Len(<< >>) = 0 /\ << >> \in Seq(Blocks) /\ 0 <= config.MaxBlocks
    BY <1>6
  <2> QED
    BY <1>4, <2>1 DEF ListsFit
<1>15. AccountsOf(T, alloc)
  <2>1. ExactFor(T, alloc)
    BY <1>5, <1>13, Zenon DEF ExactFor
  <2> QED
    BY <1>14, <2>1 DEF AccountsOf
<1>16. Typed(alloc)
  BY <1>10 DEF Typed
<1> QED
  BY <1>1, <1>3, <1>15, <1>16 DEF PagedInv, Accounts

-----------------------------------------------------------------------------
(* The invariant.                                                          *)

\* A step that leaves the allocator and what is registered alone.
LEMMA QuietStep ==
  ASSUME PagedInv, Ctl', UNCHANGED <<config, alloc>>, Torn => Torn',
         \A s \in SeqIDs : \/ sequences'[s] = sequences[s]
                           \/ /\ sequences[s] = 0 /\ sequences'[s] \in Objects
                              /\ table[sequences'[s]] = NewBlockTable,
         \A t \in Objects : table'[t].blocks = table[t].blocks
  PROVE  PagedInv'
<1>1. Ctl /\ Typed(alloc) /\ (~Torn => Accounts)
  BY DEF PagedInv
<1>2. Typed(alloc)'
  <2>1. Typed(alloc')
    BY <1>1
  <2> QED
    BY <2>1, TypedNext
<1>3. ~Torn' => Accounts'
  BY <1>1, AccountsFrame
<1> QED
  BY <1>2, <1>3 DEF PagedInv

\* Nobody is torn who was not.
LEMMA SameTorn ==
  ASSUME \A s \in SeqIDs : life[s] = "torn" => life'[s] = "torn"
  PROVE  Torn => Torn'
BY DEF Torn, SeqIDs

LEMMA DeleteStep ==
  ASSUME PagedInv, NEW q \in SeqIDs, DeleteSequence(q)
  PROVE  PagedInv'
<1>1. Ctl /\ Typed(alloc) /\ (~Torn => Accounts) /\ config \in Configs
  BY DEF PagedInv, Ctl, Lives
<1>2. Ctl' /\ \A s \in SeqIDs : life'[s] = "torn" <=> life[s] = "torn"
  BY <1>1, DeleteCtl
<1>3. sequences[q] = q /\ alloc' = FreeAll(alloc, table[q].blocks) /\ config' = config
  BY <1>1, DeleteIs
<1>4. \A l \in Layers : table[q].blocks[l] \in Seq(Blocks)
  <2>1. table[q] \in TableType
    BY <1>1, ObjectsAre DEF Ctl, Tables
  <2> QED
    BY <2>1 DEF TableType
<1>5. Typed(alloc)'
  <2>1. Typed(alloc')
    BY <1>1, <1>3, <1>4, FreeAllTyped
  <2> QED
    BY <1>3, <2>1, TypedNext
<1>6. ~Torn' => Accounts'
  BY <1>1, <1>2, DeleteAccounts, SameTorn
<1> QED
  BY <1>2, <1>5, <1>6 DEF PagedInv

LEMMA AllocateStep ==
  ASSUME PagedInv, AllocateBlock
  PROVE  PagedInv'
<1>1. Ctl /\ Typed(alloc) /\ (~Torn => Accounts) /\ config \in Configs
  BY DEF PagedInv, Ctl, Lives
<1>2. /\ op.pc = "fill" /\ (AllocateDead \/ AllocateGets) /\ UNCHANGED <<config, life>>
  BY <1>1, AllocateBlockIs
<1>3. op.layer \in Layers
  BY <1>1, <1>2, PassSeq
<1>4. alloc.free[op.layer] # << >> => Allocate(alloc, op.layer).got \in Blocks /\ Typed(Allocated(alloc, op.layer))
  BY <1>1, <1>3, AllocateTyped
<1>5. Ctl'
  BY <1>1, <1>4, AllocateBlockCtl
<1>6. Typed(alloc)'
  <2>1. Typed(alloc')
    BY <1>1, <1>2, <1>4 DEF AllocateDead, AllocateGets
  <2> QED
    BY <1>2, <2>1, TypedNext
<1>7. ~Torn' => Accounts'
  BY <1>1, <1>2, AllocateAccounts, SameTorn
<1> QED
  BY <1>5, <1>6, <1>7 DEF PagedInv

LEMMA TruncateStep ==
  ASSUME PagedInv, TruncateSequence
  PROVE  PagedInv'
<1>1. Ctl /\ Typed(alloc) /\ (~Torn => Accounts) /\ config \in Configs
  BY DEF PagedInv, Ctl, Lives
<1>2. PICK len \in Nat, keep \in Nat :
        op.pc = "cut" /\ (TruncateKeeps \/ TruncateCuts(len, keep)) /\ UNCHANGED config
  BY <1>1, TruncateIs
<1>3. Ctl'
  BY <1>1, TruncateCtl
<1>4. PICK t \in TableType : t = table[op.obj]
  BY <1>1, <1>2, CutTable
<1>5. \A l \in Layers : CutBlocks(t, keep)[l] \in Seq(Blocks)
  BY KeptBlocksAre DEF Rest
<1>6. Typed(FreeAll(alloc, CutBlocks(t, keep)))
  BY <1>1, <1>5, FreeAllTyped
<1>7. Typed(alloc)'
  <2>1. Typed(alloc')
    BY <1>1, <1>2, <1>4, <1>6 DEF TruncateKeeps, TruncateCuts
  <2> QED
    BY <1>2, <2>1, TypedNext
<1>8. ~Torn' => Accounts'
  BY <1>1, TruncateAccounts
<1> QED
  BY <1>3, <1>7, <1>8 DEF PagedInv

LEMMA RunStep ==
  ASSUME PagedInv, Run
  PROVE  PagedInv'
<1>1. Ctl
  BY DEF PagedInv
<1>2. CASE FormBatch
  BY <1>1, <1>2, FormBatchCtl, QuietStep, SameTorn DEF FormBatch
<1>3. ASSUME NEW s \in SeqIDs, NEW n \in Chunks, StartPass(s, n) PROVE PagedInv'
  BY <1>1, <1>3, StartPassCtl, QuietStep, SameTorn DEF StartPass
<1>4. CASE StoreKVLookup
  <2>1. UNCHANGED <<config, alloc, table, life>>
    BY <1>4 DEF StoreKVLookup
  <2> QED
    BY <1>1, <1>4, <2>1, StoreKVLookupCtl, QuietStep, SameTorn
<1>5. CASE AllocateBlock
  BY <1>5, AllocateStep
<1>6. CASE WriteKV
  <2>1. UNCHANGED <<config, alloc, sequences, life>>
    BY <1>6 DEF WriteKV
  <2> QED
    BY <1>1, <1>6, <2>1, WriteKVCtl, QuietStep, SameTorn
<1>7. CASE Attend
  <2>1. UNCHANGED <<config, alloc, sequences, table>>
    BY <1>7 DEF Attend
  <2> QED
    BY <1>1, <1>7, <2>1, AttendCtl, QuietStep, SameTorn
<1>8. ASSUME NEW len, TruncateLookup(len) PROVE PagedInv'
  BY <1>1, <1>8, TruncateLookupCtl, QuietStep, SameTorn DEF TruncateLookup
<1>9. CASE TruncateSequence
  BY <1>9, TruncateStep
<1> QED
  BY <1>2, <1>3, <1>4, <1>5, <1>6, <1>7, <1>8, <1>9 DEF Run

LEMMA HandlerStep ==
  ASSUME PagedInv, Handlers
  PROVE  PagedInv'
<1>1. Ctl
  BY DEF PagedInv
<1>2. CASE CreateSequence
  <2>1. UNCHANGED <<config, alloc, table>>
    BY <1>2 DEF CreateSequence
  <2> QED
    BY <1>1, <1>2, <2>1, CreateCtl, QuietStep, SameTorn
<1>3. ASSUME NEW s \in SeqIDs, Publish(s) PROVE PagedInv'
  <2>1. UNCHANGED <<config, alloc, sequences, table>>
    BY <1>3 DEF Publish
  <2> QED
    BY <1>1, <1>3, <2>1, PublishCtl, QuietStep, SameTorn
<1>4. ASSUME NEW s \in SeqIDs, DeleteSequence(s) PROVE PagedInv'
  BY <1>4, DeleteStep
<1> QED
  BY <1>2, <1>3, <1>4 DEF Handlers

\* There is no fragment to cache, delete or insert.
LEMMA FragmentStep ==
  ASSUME PagedInv, Fragments
  PROVE  FALSE
<1>1. config.Names = {} /\ ins = NoInsert
  BY DEF PagedInv, Ctl, Lives
<1>2. ins.pc = "idle"
  BY <1>1 DEF NoInsert
<1> QED
  BY <1>1, <1>2 DEF Fragments, InsertTable, ShareBlock, InsertRange

LEMMA StutterStep ==
  ASSUME PagedInv, UNCHANGED vars
  PROVE  PagedInv'
<1>1. /\ UNCHANGED <<config, sequences, table, nextSeqID, life, ctx, version, batch, op, ins, alloc>>
      /\ Lives /\ Registered /\ Tables /\ Stored /\ Pass
  BY DEF PagedInv, Ctl, vars
<1>2. Lives' /\ Registered' /\ Tables' /\ Stored'
  BY <1>1, LivesFrame, RegisteredFrame, TablesFrame, StoredFrame
<1>3. Pass'
  BY <1>1, PassFrame
<1>4. Ctl'
  BY <1>2, <1>3 DEF Ctl
<1> QED
  BY <1>1, <1>4, QuietStep, SameTorn

\* Every step keeps control, tables and allocator in agreement.
LEMMA PagedStep ==
  ASSUME PagedInv, [Next]_vars
  PROVE  PagedInv'
BY RunStep, HandlerStep, FragmentStep, StutterStep DEF Next

-----------------------------------------------------------------------------
(* What the runs check.                                                    *)

\* Where the lists L of the ids N have block b.
Places(N, I, L, b) == {u \in N \X I : u[2] \in 1..Len(L[u[1]]) /\ L[u[1]][u[2]] = b}

LEMMA PlacesCount ==
  ASSUME NEW N, NEW I, NEW B, NEW L, NEW b \in B, IsFiniteSet(N), IsFiniteSet(I)
  PROVE  Cardinality(Naming(Ent(N, I, B, L), b)) = Cardinality(Places(N, I, L, b))
<1>1. PICK P, Q, E : P = Places(N, I, L, b) /\ Q = Naming(E, b) /\ E = Ent(N, I, B, L)
  OBVIOUS
<1>2. IsFiniteSet(P)
  <2>1. IsFiniteSet(N \X I) /\ P \in SUBSET (N \X I)
    BY <1>1, FS_Product DEF Places
  <2> QED
    BY <2>1, FS_Subset
<1>3. PICK f : f = [u \in P |-> <<u[1], <<u[2], b>>>>]
  OBVIOUS
<1>4. ASSUME NEW u \in P PROVE f[u] \in Q /\ f[u][1] = u[1] /\ f[u][2][1] = u[2] /\ u = <<u[1], u[2]>>
  <2>1. u \in N \X I /\ u[2] \in 1..Len(L[u[1]]) /\ L[u[1]][u[2]] = b
    BY <1>1 DEF Places
  <2>2. PICK n \in N, i \in I : u = <<n, i>> /\ n = u[1] /\ i = u[2]
    BY <2>1
  <2>3. PICK e : e = <<n, <<i, b>>>>
    OBVIOUS
  <2>4. e[1] = n /\ e[2][1] = i /\ e[2][2] = b /\ e \in N \X (I \X B)
    BY <2>3
  <2>5. e \in E
    BY <1>1, <2>1, <2>2, <2>4 DEF Ent
  <2>6. e \in Q
    BY <1>1, <2>4, <2>5 DEF Naming
  <2>7. f[u] = e
    BY <1>3, <2>2, <2>3
  <2> QED
    BY <2>2, <2>4, <2>6, <2>7
<1>5. \A u, v \in P : f[u] = f[v] => u = v
  BY <1>4
<1>6. ASSUME NEW e \in Q PROVE \E u \in P : f[u] = e
  <2>1. e \in E /\ e[2][2] = b
    BY <1>1 DEF Naming
  <2>2. e \in N \X (I \X B) /\ e[2][1] \in 1..Len(L[e[1]]) /\ L[e[1]][e[2][1]] = e[2][2]
    BY <1>1, <2>1 DEF Ent
  <2>3. PICK n \in N, i \in I : n = e[1] /\ i = e[2][1] /\ e = <<n, <<i, e[2][2]>>>>
    BY <2>2
  <2>4. PICK u : u = <<n, i>>
    OBVIOUS
  <2>5. u[1] = n /\ u[2] = i /\ u \in N \X I
    BY <2>4
  <2>6. u \in P
    BY <1>1, <2>1, <2>2, <2>3, <2>5 DEF Places
  <2>7. f[u] = e
    BY <1>3, <2>1, <2>3, <2>5, <2>6
  <2> QED
    BY <2>6, <2>7
<1>7. f \in [P -> Q]
  BY <1>3, <1>4
<1>8. Cardinality(Q) = Cardinality(P)
  BY <1>2, <1>5, <1>6, <1>7, SameCount
<1> QED
  BY <1>1, <1>8

\* The references to a block are the entries that name it.
LEMMA ReferencesAre ==
  ASSUME PagedInv, ~Torn, NEW l \in Layers, NEW b \in Blocks, NEW E, E = HeldOf(ListsOf(sequences, table))[l]
  PROVE  References(l, b) = Cardinality(Naming(E, b)) /\ IsFiniteSet(Naming(E, b))
<1>1. config \in Configs /\ config.Names = {} /\ Registered /\ ListsFit(ListsOf(sequences, table))
  BY DEF PagedInv, Ctl, Lives, Accounts, AccountsOf
<1>2. IsFiniteSet(Indices) /\ IsFiniteSet(Owners) /\ IsFiniteSet(Blocks) /\ Owners = SeqIDs
  BY <1>1, Sizes DEF Owners
<1>3. PICK T : T = ListsOf(sequences, table)[l] /\ E = Ent(Owners, Indices, Blocks, T)
  BY DEF HeldOf
<1>4. InTables(l, b) = Places(SeqIDs, Indices, T, b)
  <2>1. ASSUME NEW s \in SeqIDs, NEW i \in Indices
        PROVE  (sequences[s] # 0 /\ Occurs(table[sequences[s]].blocks, l, i, b)) <=> (i \in 1..Len(T[s]) /\ T[s][i] = b)
    <3>1. PICK u \in Seq(Blocks) : u = T[s] /\ u = List(sequences, table, l, s)
      <4>1. T[s] \in Seq(Blocks) /\ T[s] = List(sequences, table, l, s)
        BY <1>1, <1>2, <1>3, ListIs DEF ListsFit
      <4> QED
        BY <4>1
    <3>2. DOMAIN u = 1..Len(u)
      OBVIOUS
    <3>3. CASE sequences[s] = 0
      <4>1. u = << >> /\ Len(<< >>) = 0
        BY <3>1, <3>3 DEF List
      <4> QED
        BY <3>1, <3>3, <4>1
    <3>4. CASE sequences[s] # 0
      BY <3>1, <3>2, <3>4 DEF List, Occurs
    <3> QED
      BY <3>3, <3>4
  <2> QED
    BY <2>1 DEF InTables, Places
<1>5. InFragments(l, b) = {}
  <2>1. config.Names \X Indices = {}
    BY <1>1
  <2> QED
    BY <2>1 DEF InFragments
<1>6. PICK O, I, B : O = Owners /\ I = Indices /\ B = Blocks /\ b \in B
  OBVIOUS
<1>7. Cardinality(Naming(Ent(O, I, B, T), b)) = Cardinality(Places(O, I, T, b))
  BY <1>2, <1>6, PlacesCount
<1>8. IsFiniteSet(Naming(E, b)) /\ Cardinality(Naming(E, b)) \in Nat
  <2>1. IsFiniteSet(E)
    BY <1>2, <1>3, EntFinite
  <2> QED
    BY <2>1, NamingFinite
<1>9. Cardinality(InFragments(l, b)) = 0
  BY <1>5, FS_EmptySet
<1> QED
  BY <1>2, <1>3, <1>4, <1>6, <1>7, <1>8, <1>9 DEF References

LEMMA PagedTypeOK ==
  ASSUME PagedInv
  PROVE  TypeOK
<1>1. Lives /\ Registered /\ Tables /\ Pass
  BY DEF PagedInv, Ctl
<1>2. PICK G, R : IsAlloc(Layers, Blocks, alloc, G, R)
  BY DEF PagedInv, Typed
<1>3. alloc.ref \in [Blocks -> Nat] /\ \A l \in Layers : alloc.free[l] \in Seq(Blocks)
  BY <1>2 DEF IsAlloc
<1>4. ASSUME NEW t \in Objects
      PROVE  table[t].seqLen \in 0..config.MaxLen /\ \A l \in Layers : table[t].blocks[l] \in Seq(Blocks)
  BY <1>1 DEF Tables, TableType
<1>5. nextSeqID \in 1..(MaxSeqs + 1) /\ batch \subseteq SeqIDs /\ sequences \in [SeqIDs -> {0} \cup Objects]
  BY <1>1 DEF Lives, Registered
<1>6. op.pc \in {"idle", "store", "fill", "attend", "verify", "cut", "dead"}
  BY <1>1 DEF Pass, OpType
<1> QED
  BY <1>3, <1>4, <1>5, <1>6 DEF TypeOK

\* A layer's free list and the counts, in terms of the references.
LEMMA LayerAccounted ==
  ASSUME PagedInv, ~Torn, NEW l \in Layers, NEW b \in Blocks
  PROVE  /\ Cardinality({i \in DOMAIN alloc.free[l] : alloc.free[l][i] = b}) = IF References(l, b) = 0 THEN 1 ELSE 0
         /\ config.NumLayers = 1 => alloc.ref[b] = References(l, b)
<1>1. PICK one \in BOOLEAN : one = (config.NumLayers = 1)
  OBVIOUS
<1>2. PICK EE : EE = HeldOf(ListsOf(sequences, table))
  OBVIOUS
<1>3. All(Layers, Blocks, one, EE, alloc)
  BY <1>1, <1>2, Zenon DEF PagedInv, Accounts, AccountsOf, ExactFor
<1>4. PICK G, R : IsAlloc(Layers, Blocks, alloc, G, R) /\ \A k \in Layers : Good(Blocks, one, EE[k], R, G[k])
  BY <1>3 DEF All
<1>5. PICK E, F : E = EE[l] /\ F = G[l] /\ Good(Blocks, one, E, R, F)
  BY <1>4
<1>6. alloc.free[l] = F /\ alloc.ref = R
  BY <1>4, <1>5 DEF IsAlloc
<1>7. References(l, b) = Cardinality(Naming(E, b)) /\ IsFiniteSet(Naming(E, b))
  BY <1>2, <1>3, <1>5, ReferencesAre
<1>8. References(l, b) = 0 <=> Naming(E, b) = {}
  BY <1>7, FS_EmptySet
<1>9. /\ F \in Seq(Blocks) /\ \A i, j \in 1..Len(F) : F[i] = F[j] => i = j
      /\ (\E i \in 1..Len(F) : F[i] = b) <=> Naming(E, b) = {}
      /\ one => R[b] = Cardinality(Naming(E, b))
  BY <1>5 DEF Good
<1>10. DOMAIN F = 1..Len(F)
  BY <1>9
<1>11. PICK S : S = {i \in DOMAIN F : F[i] = b}
  OBVIOUS
<1>12. Cardinality(S) = IF References(l, b) = 0 THEN 1 ELSE 0
  <2>1. CASE Naming(E, b) = {}
    <3>1. PICK i \in 1..Len(F) : F[i] = b
      BY <1>9, <2>1
    <3>2. S = {i}
      BY <1>9, <1>10, <1>11, <3>1
    <3>3. Cardinality(S) = 1
      BY <3>2, FS_Singleton
    <3> QED
      BY <1>8, <2>1, <3>3
  <2>2. CASE Naming(E, b) # {}
    <3>1. S = {}
      BY <1>9, <1>10, <1>11, <2>2
    <3>2. Cardinality(S) = 0
      BY <3>1, FS_EmptySet
    <3> QED
      BY <1>8, <2>2, <3>2
  <2> QED
    BY <2>1, <2>2
<1>13. config.NumLayers = 1 => alloc.ref[b] = References(l, b)
  BY <1>1, <1>6, <1>7, <1>9
<1> QED
  BY <1>6, <1>11, <1>12, <1>13

\* Whatever client leaves at whatever moment, control, tables and allocator agree
\* in every reachable state; the accounts hold until a truncation has freed the
\* blocks of a table that a handler had already freed (kv/paged.go, kv/paged_cache.go).
THEOREM PagedInvariance ==
  ASSUME NoFragments
  PROVE  Spec => []PagedInv
<1>1. Init => PagedInv
  BY InitPaged
<1>2. PagedInv /\ [Next]_vars => PagedInv'
  BY PagedStep
<1> QED
  BY <1>1, <1>2, PTL DEF Spec

\* A block is on the free list of a layer, once, exactly when no registered table
\* holds it, also when sequences are deleted in the middle of a pass over them, and
\* a sequence deleted between passes keeps nothing (Allocate, Free and all their callers).
THEOREM EveryBlockAccounted ==
  ASSUME NoFragments
  PROVE  Spec => []BlocksAccounted
<1>1. PagedInv => BlocksAccounted
  <2> SUFFICES ASSUME PagedInv PROVE BlocksAccounted
    OBVIOUS
  <2>1. \A s \in SeqIDs : life[s] = "gone" => sequences[s] = 0
    BY DEF PagedInv, Ctl, Registered
  <2> QED
    BY <2>1, PagedTypeOK, LayerAccounted DEF BlocksAccounted
<1> QED
  BY <1>1, PagedInvariance, PTL

\* With one layer the counts are the numbers of holders (refCounts).
THEOREM CountsAreExact ==
  ASSUME NoFragments
  PROVE  Spec => []RefCountsExact
<1>1. PagedInv => RefCountsExact
  <2>1. ASSUME PagedInv, config.NumLayers = 1, ~Torn PROVE \A b \in Blocks : alloc.ref[b] = References(1, b)
    <3>1. 1 \in Layers
      BY <2>1 DEF Layers
    <3> QED
      BY <2>1, <3>1, LayerAccounted
  <2> QED
    BY <2>1 DEF RefCountsExact
<1> QED
  BY <1>1, PagedInvariance, PTL

-----------------------------------------------------------------------------
(* Contents: what a list of blocks holds.                                  *)

\* The list t has a block for the first h positions.
Covers(B, t, h) == h <= Len(t) * B

\* The blocks of list t hold the first h of c, in a layer with the data D.
Holds(B, D, t, c, h) ==
  /\ Covers(B, t, h)
  /\ \A p \in 0..(h - 1) : D[t[p \div B + 1]][p % B] = c[p + 1]

\* Block and offset of a position.
LEMMA Slot ==
  ASSUME NEW p \in Nat, NEW b \in Nat \ {0}
  PROVE  /\ p \div b \in Nat /\ p % b \in 0..(b - 1)
         /\ p = b * (p \div b) + (p % b)
<1>1. PICK q, r : q = p \div b /\ r = p % b
  OBVIOUS
<1>2. q \in Int /\ r \in 0..(b - 1) /\ p = b * q + r
  BY <1>1
<1>3. q >= 0
  <2> SUFFICES ASSUME q < 0 PROVE FALSE
    BY <1>2
  <2>1. PICK d \in Nat : q + 1 + d = 0
    <3>1. 0 - 1 - q \in Nat /\ q + 1 + (0 - 1 - q) = 0
      BY <1>2
    <3> QED
      BY <3>1
  <2>2. PICK e \in Nat : e = b * d
    OBVIOUS
  <2>3. PICK z \in Int : z = b * q /\ z + b + e = 0
    BY <1>2, <2>1, <2>2
  <2>4. p = z + r /\ r <= b - 1 /\ r \in Int
    BY <1>2, <2>3
  <2> QED
    BY <2>3, <2>4
<1> QED
  BY <1>1, <1>2, <1>3

\* The same, with names for the quotient and the remainder.
LEMMA SlotNames ==
  ASSUME NEW p \in Nat, NEW b \in Nat \ {0}
  PROVE  \E q \in Nat, r \in 0..(b - 1) : q = p \div b /\ r = p % b /\ p = b * q + r
<1>1. PICK q : q = p \div b
  OBVIOUS
<1>2. PICK r : r = p % b
  OBVIOUS
<1>3. q \in Nat /\ r \in 0..(b - 1) /\ p = b * q + r
  BY <1>1, <1>2, Slot
<1> QED
  BY <1>1, <1>2, <1>3

\* A larger factor, a larger product.
LEMMA MulLe ==
  ASSUME NEW m \in Nat, NEW n \in Nat, m <= n, NEW b \in Nat
  PROVE  m * b <= n * b /\ m * b \in Nat /\ n * b \in Nat
<1>1. PICK d \in Nat : n = m + d
  <2>1. n - m \in Nat /\ n = m + (n - m)
    OBVIOUS
  <2> QED
    BY <2>1
<1>2. n * b = m * b + d * b /\ d * b \in Nat /\ m * b \in Nat
  BY <1>1
<1> QED
  BY <1>2

LEMMA MulNext ==
  ASSUME NEW m \in Nat, NEW b \in Nat
  PROVE  (m + 1) * b = m * b + b /\ m * b = b * m /\ m * b \in Nat
OBVIOUS

\* A position below the end of n blocks is in one of them, one behind k blocks in none of those.
LEMMA SlotBelow ==
  ASSUME NEW p \in Nat, NEW b \in Nat \ {0}, NEW n \in Nat, p < n * b
  PROVE  p \div b \in Nat /\ p \div b < n
<1>1. PICK q \in Nat, r \in 0..(b - 1) : q = p \div b /\ r = p % b /\ p = b * q + r
  BY Slot
<1>2. q < n
  <2> SUFFICES ASSUME n <= q PROVE FALSE
    OBVIOUS
  <2>1. n * b <= q * b /\ n * b \in Nat /\ q * b \in Nat
    BY MulLe
  <2>2. q * b = b * q
    BY MulNext
  <2> QED
    BY <1>1, <2>1, <2>2
<1> QED
  BY <1>1, <1>2

\* Two positions of one block have different offsets.
LEMMA SlotsDiffer ==
  ASSUME NEW p \in Nat, NEW q \in Nat, NEW b \in Nat \ {0}, p # q, p \div b = q \div b
  PROVE  p % b # q % b
<1>1. p = b * (p \div b) + (p % b) /\ q = b * (q \div b) + (q % b)
  BY Slot
<1> QED
  BY <1>1

\* Another list and other contents that agree as far as h2.
Agree(t, t2, c, c2, h2) ==
  /\ \A j \in 1..Len(t2) : j <= Len(t) => t2[j] = t[j]
  /\ \A p \in 0..(h2 - 1) : c2[p + 1] = c[p + 1]

LEMMA HoldsSame ==
  ASSUME NEW b \in Nat \ {0}, NEW D, NEW S, NEW t \in Seq(S), NEW t2 \in Seq(S), NEW c, NEW c2,
         NEW h \in Nat, NEW h2 \in Nat, Holds(b, D, t, c, h), h2 <= h, Covers(b, t2, h2),
         Agree(t, t2, c, c2, h2)
  PROVE  Holds(b, D, t2, c2, h2)
<1>1. PICK n \in Nat, n2 \in Nat : n = Len(t) /\ n2 = Len(t2)
  OBVIOUS
<1>2. ASSUME NEW p \in 0..(h2 - 1) PROVE D[t2[p \div b + 1]][p % b] = c2[p + 1]
  <2>1. p \in Nat /\ p \in 0..(h - 1) /\ n * b \in Nat /\ n2 * b \in Nat
    OBVIOUS
  <2>2. PICK u \in Nat, v \in Nat : u = n * b /\ v = n2 * b /\ h <= u /\ h2 <= v
    BY <1>1, <2>1 DEF Holds, Covers
  <2>6. p < u /\ p < v
    BY <2>1, <2>2
  <2>7. p < n * b /\ p < n2 * b
    BY <2>2, <2>6
  <2>3. PICK q \in Nat : q = p \div b /\ q < n /\ q < n2
    BY <2>1, <2>7, SlotBelow
  <2>4. q + 1 \in 1..n2 /\ q + 1 <= n
    BY <2>3
  <2>5. t2[q + 1] = t[q + 1]
    BY <1>1, <2>4 DEF Agree
  <2> QED
    BY <2>1, <2>3, <2>5 DEF Holds, Covers, Agree
<1> QED
  BY <1>2 DEF Holds, Covers

\* A slot is written: block x, offset o.
Written(S, O, D, D2, x, o, v) ==
  /\ \A y \in S : y # x => D2[y] = D[y]
  /\ D2[x][o] = v /\ \A i \in O : i # o => D2[x][i] = D[x][i]

\* A list without that block holds what it held.
LEMMA HoldsElsewhere ==
  ASSUME NEW b \in Nat \ {0}, NEW D, NEW D2, NEW S, NEW O, NEW x, NEW o, NEW v, Written(S, O, D, D2, x, o, v),
         NEW t \in Seq(S), NEW c, NEW h \in Nat, Holds(b, D, t, c, h), \A j \in 1..Len(t) : t[j] # x
  PROVE  Holds(b, D2, t, c, h)
<1>1. PICK n \in Nat : n = Len(t)
  OBVIOUS
<1>2. ASSUME NEW p \in 0..(h - 1) PROVE D2[t[p \div b + 1]][p % b] = c[p + 1]
  <2>1. PICK u \in Nat : u = n * b /\ h <= u
    BY <1>1 DEF Holds, Covers
  <2>2. p \in Nat /\ p < n * b
    BY <2>1
  <2>3. PICK q \in Nat : q = p \div b /\ q < n
    BY <2>2, SlotBelow
  <2>4. q + 1 \in 1..n
    BY <2>3
  <2>5. PICK y \in S : y = t[q + 1] /\ y # x
    BY <1>1, <2>4
  <2>6. D2[y] = D[y]
    BY <2>5 DEF Written
  <2>7. D[t[p \div b + 1]][p % b] = c[p + 1]
    BY DEF Holds, Covers
  <2> QED
    BY <2>3, <2>5, <2>6, <2>7
<1> QED
  BY <1>2 DEF Holds, Covers

\* The list whose next slot it is holds one position more.
NextIn(b, S, D, D2, t, c, h) ==
  /\ h \div b < Len(t)
  /\ Written(S, 0..(b - 1), D, D2, t[h \div b + 1], h % b, c[h + 1])
  /\ \A j \in 1..Len(t) : t[j] = t[h \div b + 1] => j = h \div b + 1

LEMMA HoldsNext ==
  ASSUME NEW b \in Nat \ {0}, NEW D, NEW D2, NEW S, NEW t \in Seq(S), NEW c,
         NEW h \in Nat, Holds(b, D, t, c, h), NextIn(b, S, D, D2, t, c, h)
  PROVE  Holds(b, D2, t, c, h + 1)
<1>1. PICK O : O = 0..(b - 1)
  OBVIOUS
<1>2. PICK k \in Nat : k = h \div b
  BY Slot
<1>3. k < Len(t) /\ Written(S, O, D, D2, t[k + 1], h % b, c[h + 1]) /\ \A j \in 1..Len(t) : t[j] = t[k + 1] => j = k + 1
  BY <1>1, <1>2 DEF NextIn
<1>4. PICK n \in Nat : n = Len(t) /\ k < n
  BY <1>3
<1>5. h + 1 <= n * b
  <2>1. PICK r \in 0..(b - 1) : h = b * k + r
    BY <1>2, Slot
  <2>2. (k + 1) * b = k * b + b /\ k * b = b * k /\ k * b \in Nat
    BY MulNext
  <2>3. (k + 1) * b <= n * b /\ n * b \in Nat
    BY <1>4, MulLe
  <2> QED
    BY <2>1, <2>2, <2>3
<1>6. ASSUME NEW p \in 0..h PROVE D2[t[p \div b + 1]][p % b] = c[p + 1]
  <2>1. p \in Nat /\ p < n * b
    <3>1. n * b \in Nat
      OBVIOUS
    <3> QED
      BY <1>5, <3>1
  <2>2. PICK q \in Nat : q = p \div b /\ q < n
    BY <2>1, SlotBelow
  <2>3. q + 1 \in 1..n /\ k + 1 \in 1..n
    BY <1>4, <2>2
  <2>4. PICK y \in S, x \in S : y = t[q + 1] /\ x = t[k + 1]
    BY <1>4, <2>3
  <2>5. p % b \in O /\ h % b \in O
    BY <1>1, <2>1, Slot
  <2>6. p # h => D[t[p \div b + 1]][p % b] = c[p + 1]
    <3>1. p # h => p \in 0..(h - 1)
      OBVIOUS
    <3> QED
      BY <3>1 DEF Holds, Covers
  <2>7. CASE p = h
    BY <1>2, <1>3, <2>2, <2>4, <2>7 DEF Written
  <2>8. CASE p # h /\ q = k
    <3>1. p % b # h % b
      BY <1>2, <2>1, <2>2, <2>8, SlotsDiffer
    <3>2. D2[x][p % b] = D[x][p % b]
      BY <1>3, <2>4, <2>5, <3>1 DEF Written
    <3> QED
      BY <2>2, <2>4, <2>6, <2>8, <3>2
  <2>9. CASE q # k
    <3>1. y # x
      BY <1>4, <1>3, <2>3, <2>4, <2>9
    <3>2. D2[y] = D[y]
      BY <1>3, <2>4, <3>1 DEF Written
    <3> QED
      BY <1>2, <2>2, <2>4, <2>6, <2>9, <3>2
  <2> QED
    BY <2>7, <2>8, <2>9
<1>7. \A p \in 0..(h + 1 - 1) : p \in 0..h
  OBVIOUS
<1> QED
  BY <1>4, <1>5, <1>6, <1>7 DEF Holds, Covers

\* The first len of a sequence.
FirstOf(c, c2, len) == Len(c2) = len /\ \A i \in 1..len : c2[i] = c[i]

LEMMA FirstIs ==
  ASSUME NEW S, NEW c \in Seq(S), NEW len \in Nat, len <= Len(c)
  PROVE  \E d \in Seq(S) : d = SubSeq(c, 1, len) /\ FirstOf(c, d, len)
<1>1. SubSeq(c, 1, len) \in Seq(S)
  <2>1. \A i \in 1..len : c[i] \in S
    BY ElementOfSeq
  <2> QED
    BY <2>1
<1>2. Len(SubSeq(c, 1, len)) = len /\ \A i \in 1..len : SubSeq(c, 1, len)[i] = c[i]
  OBVIOUS
<1> QED
  BY <1>1, <1>2 DEF FirstOf

\* A list of whose blocks the first keep stay, if it has more.
KeptOf(t, t2, keep) ==
  /\ Len(t2) = IF keep < Len(t) THEN keep ELSE Len(t)
  /\ \A i \in 1..Len(t2) : t2[i] = t[i]

\* The blocks that len positions need.
NeedOf(b, keep, len) == len <= keep * b

LEMMA HoldsCut ==
  ASSUME NEW b \in Nat \ {0}, NEW D, NEW S, NEW t \in Seq(S), NEW t2 \in Seq(S),
         NEW V, NEW c \in Seq(V), NEW c2 \in Seq(V), Holds(b, D, t, c, Len(c)),
         NEW len \in Nat, NEW keep \in Nat, len <= Len(c), FirstOf(c, c2, len), KeptOf(t, t2, keep),
         NeedOf(b, keep, len)
  PROVE  Holds(b, D, t2, c2, len)
<1>1. PICK n \in Nat, n2 \in Nat, h \in Nat : n = Len(t) /\ n2 = Len(t2) /\ h = Len(c) /\ len <= h
  OBVIOUS
<1>2. n2 <= keep /\ (n2 = keep \/ n2 = n)
  BY <1>1 DEF KeptOf
<1>3. n2 * b <= keep * b /\ n2 * b \in Nat /\ keep * b \in Nat
  BY <1>2, MulLe
<1>4. PICK x \in Nat, y \in Nat, z \in Nat : x = n * b /\ y = n2 * b /\ z = keep * b /\ y <= z
  BY <1>3
<1>5. h <= x /\ len <= z
  BY <1>1, <1>4 DEF Holds, Covers, NeedOf
<1>6. len <= y
  BY <1>1, <1>2, <1>4, <1>5
<1>7. Covers(b, t2, len)
  BY <1>1, <1>4, <1>6 DEF Covers
<1>10. Agree(t, t2, c, c2, len)
  <2>1. \A p \in 0..(len - 1) : p + 1 \in 1..len
    OBVIOUS
  <2> QED
    BY <2>1 DEF Agree, FirstOf, KeptOf
<1>11. Holds(b, D, t, c, h)
  BY <1>1
<1>12. len <= h
  BY <1>1
<1>13. Holds(b, D, t2, c2, len)
  BY <1>7, <1>10, <1>11, <1>12, HoldsSame
<1> QED
  BY <1>13

\* As many blocks as len positions need: they cover them, and no block is left over.
LEMMA NeededIs ==
  ASSUME NEW len \in Nat, config.BlockSize \in Nat \ {0}, NEW b, b = config.BlockSize,
         NEW keep \in Nat, keep = NeededBlocks(len)
  PROVE  len <= keep * b /\ keep * b < len + b /\ keep * b \in Nat
<1>1. PICK m \in Nat : m = len + b - 1
  <2>1. len + b - 1 \in Nat
    OBVIOUS
  <2> QED
    BY <2>1
<1>2. keep = m \div b
  BY <1>1 DEF NeededBlocks
<1>3. PICK r \in 0..(b - 1) : m = b * keep + r
  <2>1. \E q \in Nat, r \in 0..(b - 1) : q = m \div b /\ r = m % b /\ m = b * q + r
    BY SlotNames
  <2> QED
    BY <1>2, <2>1
<1>4. PICK x \in Nat : x = keep * b /\ x = b * keep
  <2>1. keep * b = b * keep /\ keep * b \in Nat
    OBVIOUS
  <2> QED
    BY <2>1
<1>5. len + b - 1 = x + r
  BY <1>1, <1>3, <1>4
<1> QED
  BY <1>4, <1>5

\* Slot o of block x in layer l comes to hold v.
StoresAt(l, x, o, v) == data' = [data EXCEPT ![l][x][o] = v]

DataType == data \in [Layers -> [Blocks -> [Offsets -> KV]]]

LEMMA DataWritten ==
  ASSUME config \in Configs, DataType, config' = config, NEW l \in Layers, NEW x \in Blocks, NEW o \in Offsets,
         NEW v \in KV, StoresAt(l, x, o, v)
  PROVE  /\ DataType' /\ Written(Blocks, Offsets, data[l], data'[l], x, o, v)
         /\ \A k \in Layers : k # l => data'[k] = data[k]
<1>1. PICK D : D = data[l] /\ D \in [Blocks -> [Offsets -> KV]]
  BY DEF DataType
<1>2. PICK E \in [Offsets -> KV] : E = D[x]
  BY <1>1
<1>3. PICK E2 \in [Offsets -> KV] : E2 = [E EXCEPT ![o] = v]
  OBVIOUS
<1>4. PICK D2 \in [Blocks -> [Offsets -> KV]] : D2 = [D EXCEPT ![x] = E2]
  BY <1>1
<1>5. data' = [data EXCEPT ![l] = D2]
  <2>1. [data EXCEPT ![l][x][o] = v] = [data EXCEPT ![l] = [D EXCEPT ![x] = [E EXCEPT ![o] = v]]]
    BY <1>1, <1>2
  <2> QED
    BY <1>3, <1>4, <2>1 DEF StoresAt
<1>6. data'[l] = D2 /\ data' \in [Layers -> [Blocks -> [Offsets -> KV]]] /\ \A k \in Layers : k # l => data'[k] = data[k]
  BY <1>4, <1>5 DEF DataType
<1>7. Layers' = Layers /\ Blocks' = Blocks /\ Offsets' = Offsets
  BY SameTypes DEF Offsets
<1>8. DataType'
  BY <1>6, <1>7 DEF DataType
<1>9. Written(Blocks, Offsets, D, D2, x, o, v)
  BY <1>1, <1>2, <1>3, <1>4 DEF Written
<1> QED
  BY <1>1, <1>6, <1>8, <1>9

-----------------------------------------------------------------------------
(* Contents: what every sequence that is still there keeps.                *)

\* The first positions of a sequence that layer l has by now.
Have(s, l) ==
  IF op.s # s \/ op.pc \in {"verify", "cut"} \/ l < op.layer \/ (op.pc = "attend" /\ l = op.layer)
    THEN Len(ctx[s])
    ELSE IF l = op.layer THEN op.start + op.i ELSE op.start

Own(s, l) == Holds(config.BlockSize, data[l], table[s].blocks[l], ctx[s], Have(s, l))
OwnContents == \A s \in SeqIDs : life[s] \in Present => \A l \in Layers : Own(s, l)

\* No entry of list t is x.
NotIn(x, t) == \A j \in 1..Len(t) : t[j] # x

\* The block that is written next, which a sequence deleted in the middle of a
\* store still writes through the table that the store holds.
Target == BlockID(table[op.obj], op.layer, Pos)
Filling == op.pc = "fill" /\ HasBlock(table[op.obj], op.layer, Pos)
Stale == Filling /\ op.obj # sequences[op.s]
Harmless ==
  Stale => \A s \in SeqIDs : life[s] \in Present => NotIn(Target, table[s].blocks[op.layer])

Contents == ~Torn /\ op.pc # "dead" => DataType /\ OwnContents /\ Harmless

LEMMA HaveIs ==
  ASSUME Ctl, NEW s \in SeqIDs, NEW l \in Layers
  PROVE  /\ Have(s, l) \in Nat /\ Have(s, l) <= Len(ctx[s])
         /\ op.s # s => Have(s, l) = Len(ctx[s])
<1>1. Pass /\ Stored
  BY DEF Ctl
<1>2. PICK n \in Nat : n = Len(ctx[s])
  <2>1. ctx[s] \in Seq(KV)
    BY <1>1 DEF Stored
  <2> QED
    BY <2>1
<1>3. CASE op.s # s
  BY <1>2, <1>3 DEF Have
<1>4. CASE op.s = s
  <2>1. op.pc \notin {"idle", "dead"}
    BY <1>1, <1>4 DEF Pass, SeqIDs
  <2>2. PICK st \in Nat, i \in Nat, m \in Nat : st = op.start /\ i = op.i /\ m = op.n
    BY <2>1, PassSeq
  <2>3. op.pc \in {"store", "fill", "attend", "verify", "cut"}
    BY <1>1, <2>1 DEF Pass, OpType
  <2>4. CASE op.pc \in {"store", "fill"}
    <3>1. i < m /\ n = st + m
      BY <1>1, <1>2, <1>4, <2>2, <2>4 DEF Pass
    <3>2. st + i \in Nat /\ st + i <= n /\ st <= n
      BY <2>2, <3>1
    <3>3. Have(s, l) = n \/ Have(s, l) = st + i \/ Have(s, l) = st
      BY <1>2, <2>2 DEF Have
    <3> QED
      BY <1>2, <1>4, <3>2, <3>3
  <2>5. CASE op.pc = "attend"
    <3>1. n = st + m
      BY <1>1, <1>2, <1>4, <2>2, <2>5 DEF Pass
    <3>2. st <= n
      BY <2>2, <3>1
    <3>3. Have(s, l) = n \/ Have(s, l) = st
      BY <1>2, <2>2, <2>5 DEF Have
    <3> QED
      BY <1>2, <1>4, <3>2, <3>3
  <2>6. CASE op.pc \in {"verify", "cut"}
    BY <1>2, <1>4, <2>6 DEF Have
  <2> QED
    BY <2>3, <2>4, <2>5, <2>6
<1> QED
  BY <1>3, <1>4

\* The parts of a sequence, in their types.
LEMMA SeqTypes ==
  ASSUME Ctl, NEW s \in SeqIDs
  PROVE  /\ config \in Configs /\ config.BlockSize \in Nat \ {0} /\ s \in Objects /\ table[s] \in TableType
         /\ ctx[s] \in Seq(KV) /\ \A l \in Layers : table[s].blocks[l] \in Seq(Blocks)
<1>1. config \in Configs /\ Tables /\ Stored
  BY DEF Ctl, Lives
<1>2. s \in Objects
  BY ObjectsAre
<1>3. table[s] \in TableType /\ ctx[s] \in Seq(KV)
  BY <1>1, <1>2 DEF Tables, Stored
<1>4. \A l \in Layers : table[s].blocks[l] \in Seq(Blocks)
  BY <1>3 DEF TableType
<1> QED
  BY <1>1, <1>2, <1>3, <1>4, Sizes

\* A list holds nothing at no cost.
LEMMA HoldsNone ==
  ASSUME NEW b \in Nat \ {0}, NEW S, NEW t \in Seq(S), NEW D, NEW c
  PROVE  Holds(b, D, t, c, 0)
<1>1. PICK x \in Nat : x = Len(t) * b
  OBVIOUS
<1>2. Covers(b, t, 0)
  BY <1>1 DEF Covers
<1> QED
  BY <1>2 DEF Holds

\* Sequence v begins with u.
Extends(u, v) == Len(u) <= Len(v) /\ \A i \in 1..Len(u) : v[i] = u[i]

LEMMA HoldsLonger ==
  ASSUME NEW b \in Nat \ {0}, NEW D, NEW S, NEW t \in Seq(S), NEW t2 \in Seq(S), NEW V, NEW c \in Seq(V), NEW c2,
         NEW h \in Nat, Holds(b, D, t, c, h), h <= Len(c), Extends(t, t2), Extends(c, c2)
  PROVE  Holds(b, D, t2, c2, h)
<1>1. PICK n \in Nat, n2 \in Nat, m \in Nat : n = Len(t) /\ n2 = Len(t2) /\ m = Len(c)
  OBVIOUS
<1>2. n <= n2 /\ h <= m
  BY <1>1 DEF Extends
<1>3. Covers(b, t2, h)
  <2>1. n * b <= n2 * b /\ n * b \in Nat /\ n2 * b \in Nat
    BY <1>2, MulLe
  <2>2. PICK x \in Nat, y \in Nat : x = n * b /\ y = n2 * b /\ x <= y
    BY <2>1
  <2>3. h <= x
    BY <1>1, <2>2 DEF Holds, Covers
  <2> QED
    BY <1>1, <2>2, <2>3 DEF Covers
<1>4. Agree(t, t2, c, c2, h)
  <2>1. \A j \in 1..n2 : j <= n => j \in 1..n
    OBVIOUS
  <2>2. \A p \in 0..(h - 1) : p + 1 \in 1..m
    BY <1>2
  <2> QED
    BY <1>1, <2>1, <2>2 DEF Agree, Extends
<1>5. h <= h
  OBVIOUS
<1> QED
  BY <1>3, <1>4, <1>5, HoldsSame

LEMMA ExtendsSelf ==
  ASSUME NEW S, NEW u \in Seq(S)
  PROVE  Extends(u, u)
BY DEF Extends

\* A sequence has at least what it had, or has nothing to keep.
KeepsOwn(s) ==
  \/ /\ life[s] \in Present /\ Extends(ctx[s], ctx'[s])
     /\ \A l \in Layers : Have(s, l)' = Have(s, l) /\ Extends(table[s].blocks[l], table'[s].blocks[l])
  \/ \A l \in Layers : Have(s, l)' = 0

LEMMA OwnFrame ==
  ASSUME Ctl, Ctl', OwnContents, UNCHANGED <<config, data>>, NEW s \in SeqIDs, KeepsOwn(s)
  PROVE  \A l \in Layers : Own(s, l)'
<1>1. s \in Objects /\ Objects' = Objects /\ TableType' = TableType /\ Layers' = Layers /\ Blocks' = Blocks
  BY ObjectsAre, SameTypes DEF Objects
<1>2. table'[s] \in TableType
  BY <1>1 DEF Ctl, Tables
<1>3. ASSUME NEW l \in Layers PROVE Own(s, l)'
  <2>1. PICK b \in Nat \ {0} : b = config.BlockSize
    BY SeqTypes
  <2>2. PICK S, D, V : S = Blocks /\ D = data[l] /\ V = KV
    OBVIOUS
  <2>3. PICK t \in Seq(S) : t = table[s].blocks[l]
    BY <2>2, SeqTypes
  <2>4. PICK t2 \in Seq(S) : t2 = table'[s].blocks[l]
    BY <1>2, <2>2 DEF TableType
  <2>5. PICK c \in Seq(V) : c = ctx[s]
    BY <2>2, SeqTypes
  <2>8. PICK c2 : c2 = ctx'[s]
    OBVIOUS
  <2>6. CASE life[s] \in Present /\ Extends(c, c2) /\ Have(s, l)' = Have(s, l) /\ Extends(t, t2)
    <3>1. PICK h \in Nat : h = Have(s, l) /\ h <= Len(c)
      BY <2>5, HaveIs
    <3>2. Holds(b, D, t, c, h)
      BY <2>1, <2>2, <2>3, <2>5, <2>6, <3>1 DEF OwnContents, Own
    <3>3. Holds(b, D, t2, c2, h)
      BY <2>6, <3>1, <3>2, HoldsLonger
    <3> QED
      BY <2>1, <2>2, <2>4, <2>5, <2>6, <2>8, <3>1, <3>3 DEF Own
  <2>7. CASE Have(s, l)' = 0
    <3>1. Holds(b, D, t2, c2, 0)
      BY HoldsNone
    <3> QED
      BY <2>1, <2>2, <2>4, <2>5, <2>7, <2>8, <3>1 DEF Own
  <2> QED
    BY <2>3, <2>4, <2>5, <2>6, <2>7, <2>8 DEF KeepsOwn
<1> QED
  BY <1>1, <1>3

\* No token is stored: the memory and what the sequences have of it stay.
LEMMA QuietContents ==
  ASSUME Ctl, Ctl', Contents, ~Torn, op.pc # "dead", UNCHANGED <<config, data>>,
         \A s \in SeqIDs : life'[s] \in Present => KeepsOwn(s), Harmless'
  PROVE  Contents'
<1>1. DataType /\ OwnContents
  BY DEF Contents
<1>2. SeqIDs' = SeqIDs /\ Present' = Present /\ Layers' = Layers /\ Blocks' = Blocks /\ Offsets' = Offsets
  BY SameTypes DEF SeqIDs, Present, Offsets
<1>3. DataType'
  BY <1>1, <1>2 DEF DataType, KV
<1>4. ASSUME NEW s \in SeqIDs, life'[s] \in Present PROVE \A l \in Layers : Own(s, l)'
  BY <1>1, <1>4, OwnFrame
<1>5. OwnContents'
  BY <1>2, <1>4 DEF OwnContents
<1> QED
  BY <1>3, <1>5 DEF Contents

\* A sequence that is as it was.
LEMMA KeepsSame ==
  ASSUME Ctl, NEW s \in SeqIDs, life[s] \in Present, UNCHANGED config, ctx'[s] = ctx[s],
         table'[s].blocks = table[s].blocks, \A l \in Layers : Have(s, l)' = Have(s, l)
  PROVE  KeepsOwn(s)
<1>1. ctx[s] \in Seq(KV) /\ \A l \in Layers : table[s].blocks[l] \in Seq(Blocks)
  BY SeqTypes
<1>2. Extends(ctx[s], ctx[s])
  BY <1>1, ExtendsSelf
<1>3. \A l \in Layers : Extends(table[s].blocks[l], table[s].blocks[l])
  BY <1>1, ExtendsSelf
<1> QED
  BY <1>2, <1>3 DEF KeepsOwn

\* Run does not store.
LEMMA HarmlessOver ==
  ASSUME op'.pc # "fill"
  PROVE  Harmless'
BY DEF Harmless, Stale, Filling

\* A store goes on while lists get shorter, or new and empty.
LEMMA HarmlessFrame ==
  ASSUME Ctl, Harmless, UNCHANGED <<config, op>>,
         op.pc = "fill" => sequences'[op.s] = sequences[op.s] /\ table'[op.obj].blocks = table[op.obj].blocks,
         \A s \in SeqIDs : life'[s] \in Present =>
           \/ life[s] \in Present /\ table'[s].blocks = table[s].blocks
           \/ \A l \in Layers : table'[s].blocks[l] = << >>
  PROVE  Harmless'
<1>1. SeqIDs' = SeqIDs /\ Present' = Present /\ BlockIdx(Pos)' = BlockIdx(Pos)
  BY DEF SeqIDs, Present, BlockIdx, Pos
<1> SUFFICES ASSUME Stale', NEW s \in SeqIDs, life'[s] \in Present
             PROVE  NotIn(Target', table'[s].blocks[op.layer])
  BY <1>1 DEF Harmless
<1>2. op.pc = "fill" /\ sequences'[op.s] = sequences[op.s] /\ table'[op.obj].blocks = table[op.obj].blocks
  BY DEF Stale, Filling
<1>3. Stale /\ Target' = Target
  BY <1>1, <1>2 DEF Stale, Filling, Target, HasBlock, BlockID
<1>4. op.layer \in Layers
  BY <1>2, PassSeq
<1>5. CASE life[s] \in Present /\ table'[s].blocks = table[s].blocks
  BY <1>3, <1>5 DEF Harmless
<1>6. CASE table'[s].blocks[op.layer] = << >>
  BY <1>6 DEF NotIn
<1> QED
  BY <1>4, <1>5, <1>6

\* Steps that do not concern what is stored.
LEMMA SameContents ==
  ASSUME Ctl, Ctl', Contents, ~Torn, op.pc # "dead",
         UNCHANGED <<config, data, sequences, table, ctx, op>>,
         \A s \in SeqIDs : life'[s] \in Present => life[s] \in Present
  PROVE  Contents'
<1>1. \A s \in SeqIDs, l \in Layers : Have(s, l)' = Have(s, l)
  BY DEF Have
<1>2. \A s \in SeqIDs : life'[s] \in Present => KeepsOwn(s)
  BY <1>1, KeepsSame
<1>3. Harmless'
  BY HarmlessFrame DEF Contents
<1> QED
  BY <1>2, <1>3, QuietContents

LEMMA CreateContents ==
  ASSUME Ctl, Ctl', Contents, ~Torn, op.pc # "dead", CreateSequence
  PROVE  Contents'
<1>0. nextSeqID \in SeqIDs
  BY CacheAssumption DEF CreateSequence, Ctl, Lives, SeqIDs
<1>1. PICK q \in SeqIDs : /\ q = nextSeqID /\ sequences' = [sequences EXCEPT ![q] = q]
                          /\ life' = [life EXCEPT ![q] = "fresh"]
                          /\ UNCHANGED <<config, data, table, ctx, op>>
  BY <1>0 DEF CreateSequence
<1>2. life[q] = "none" /\ \A s \in SeqIDs : s # q => life'[s] = life[s] /\ sequences'[s] = sequences[s]
  <2>1. q \in Int /\ q >= q
    BY DEF SeqIDs
  <2> QED
    BY <1>1, <2>1 DEF Ctl, Lives, Registered
<1>3. table[q] = NewBlockTable /\ ctx[q] = << >> /\ config \in Configs
  BY <1>2 DEF Ctl, Tables, Stored, Lives
<1>4. op.s # q
  <2>1. op.pc \notin {"idle", "dead"} => life[op.s] \in {"live", "left"}
    BY DEF Ctl, Pass
  <2>2. op.pc = "idle" => op.s = 0
    BY DEF Ctl, Pass
  <2> QED
    BY <1>2, <2>1, <2>2, ObjectsAre
<1>5. ASSUME NEW s \in SeqIDs, life'[s] \in Present PROVE KeepsOwn(s)
  <2>1. CASE s = q
    <3>1. \A l \in Layers : Have(q, l)' = 0
      BY <1>1, <1>3, <1>4 DEF Have
    <3> QED
      BY <2>1, <3>1 DEF KeepsOwn
  <2>2. CASE s # q
    <3>1. \A l \in Layers : Have(s, l)' = Have(s, l)
      BY <1>1 DEF Have
    <3> QED
      BY <1>1, <1>2, <1>5, <2>2, <3>1, KeepsSame
  <2> QED
    BY <2>1, <2>2
<1>6. \A l \in Layers : table[q].blocks[l] = << >>
  BY <1>3, NewTable
<1>7. op.pc = "fill" => op.s \in SeqIDs
  BY DEF Ctl, Pass
<1>8. Harmless'
  BY <1>1, <1>2, <1>4, <1>6, <1>7, HarmlessFrame DEF Contents
<1> QED
  BY <1>1, <1>5, <1>8, QuietContents

LEMMA StoreKVLookupContents ==
  ASSUME Ctl, Ctl', Contents, ~Torn, op.pc # "dead", StoreKVLookup
  PROVE  Contents'
<1>1. op.pc = "store" /\ UNCHANGED <<config, data, table, life, ctx>>
  BY DEF StoreKVLookup
<1>2. op \in OpType /\ op.s \in SeqIDs
  BY <1>1, PassSeq
<1>3. PICK t : t = TableOf(op.s) /\ op' = [op EXCEPT !.pc = "fill", !.obj = t] /\ sequences' = [sequences EXCEPT ![op.s] = t]
  BY DEF StoreKVLookup
<1>4. op'.pc = "fill" /\ op'.s = op.s /\ op'.layer = op.layer /\ op'.i = op.i /\ op'.start = op.start /\ op'.obj = t
  BY <1>2, <1>3 DEF OpType
<1>5. sequences'[op'.s] = t
  BY <1>2, <1>3, <1>4 DEF Ctl, Registered
<1>6. \A s \in SeqIDs, l \in Layers : Have(s, l)' = Have(s, l)
  BY <1>1, <1>4 DEF Have
<1>7. \A s \in SeqIDs : life'[s] \in Present => KeepsOwn(s)
  BY <1>1, <1>6, KeepsSame
<1>8. Harmless'
  BY <1>4, <1>5 DEF Harmless, Stale
<1> QED
  BY <1>1, <1>7, <1>8, QuietContents

\* A list with one block more.
LEMMA ExtendsAppend ==
  ASSUME NEW S, NEW u \in Seq(S), NEW x \in S
  PROVE  Extends(u, Append(u, x))
<1>1. Len(Append(u, x)) = Len(u) + 1 /\ \A i \in 1..Len(u) : Append(u, x)[i] = u[i]
  OBVIOUS
<1> QED
  BY <1>1 DEF Extends

LEMMA AllocateContents ==
  ASSUME Ctl, Ctl', Typed(alloc), Contents, ~Torn, op.pc # "dead", AllocateBlock
  PROVE  Contents'
<1>1. /\ op.pc = "fill" /\ EntryMade /\ (AllocateDead \/ AllocateGets)
      /\ UNCHANGED <<config, data, life, ctx>>
  BY AllocateBlockIs
<1>2. CASE AllocateDead
  BY <1>2, IdleIs DEF AllocateDead, Contents
<1>3. CASE AllocateGets
  <2>1. PICK b \in Blocks : b = Allocate(alloc, op.layer).got
    <3>1. PICK G, R : IsAlloc(Layers, Blocks, alloc, G, R)
      BY DEF Typed
    <3>2. op.layer \in Layers /\ alloc.free[op.layer] # << >>
      BY <1>1, <1>3, PassSeq DEF AllocateGets
    <3> QED
      BY <3>1, <3>2, AllocateIs
  <2>2. PICK t \in Objects : /\ t = TableOf(op.s) /\ op.s \in SeqIDs /\ op.layer \in Layers
                             /\ (t = op.s \/ t = MaxSeqs + op.s)
    BY <1>1, PassSeq
  <2>3. table[t] \in TableType /\ table \in [Objects -> TableType] /\ config \in Configs
    BY DEF Ctl, Tables, Lives
  <2>4. table' = [table EXCEPT ![t] = WithBlock(table[t], op.layer, b)] /\ op' = op
    <3>1. table' = [table EXCEPT ![t].blocks[op.layer] = Append(@, b)] /\ op' = op
      BY <1>3, <2>1, <2>2 DEF AllocateGets
    <3> QED
      BY <3>1 DEF WithBlock
  <2>5. table'[t] = WithBlock(table[t], op.layer, b) /\ \A r \in Objects : r # t => table'[r] = table[r]
    BY <2>2, <2>3, <2>4
  <2>6. \A s \in SeqIDs, l \in Layers : Have(s, l)' = Have(s, l)
    BY <1>1, <2>4 DEF Have
  <2>7. ASSUME NEW s \in SeqIDs, life'[s] \in Present PROVE KeepsOwn(s)
    <3>1. s \in Objects /\ life[s] \in Present
      BY <1>1, <2>7, ObjectsAre
    <3>2. CASE s # t
      BY <1>1, <2>5, <2>6, <3>1, <3>2, KeepsSame
    <3>3. CASE s = t
      <4>1. ASSUME NEW l \in Layers PROVE Extends(table[s].blocks[l], table'[s].blocks[l])
        <5>1. PICK u \in Seq(Blocks) : u = table[s].blocks[l]
          BY SeqTypes
        <5>2. table'[s].blocks[l] = Append(u, b) \/ table'[s].blocks[l] = u
          <6>1. PICK w \in TableType, k \in Layers : w = table[t] /\ k = op.layer
            BY <2>2, <2>3
          <6>2. /\ WithBlock(w, k, b).blocks[k] = Append(w.blocks[k], b)
                /\ \A j \in Layers : j # k => WithBlock(w, k, b).blocks[j] = w.blocks[j]
            BY WithBlockIs
          <6>3. table'[s] = WithBlock(w, k, b) /\ u = w.blocks[l]
            BY <2>5, <3>3, <5>1, <6>1
          <6> QED
            BY <6>2, <6>3
        <5> QED
          BY <5>1, <5>2, ExtendsSelf, ExtendsAppend
      <4>2. Extends(ctx[s], ctx'[s])
        BY <1>1, SeqTypes, ExtendsSelf
      <4> QED
        BY <2>6, <3>1, <4>1, <4>2 DEF KeepsOwn
    <3> QED
      BY <3>2, <3>3
  <2>8. Harmless'
    <3> SUFFICES ASSUME Stale' PROVE FALSE
      BY DEF Harmless
    <3>1. sequences'[op.s] = t
      <4>1. sequences' = [sequences EXCEPT ![op.s] = t]
        BY <1>1, <2>2 DEF EntryMade
      <4> QED
        BY <2>2, <4>1 DEF Ctl, Registered
    <3>2. op.obj # t /\ HasBlock(table[op.obj], op.layer, Pos)'
      BY <2>4, <3>1 DEF Stale, Filling
    <3>3. op.obj \in Objects
      <4>1. op \in OpType /\ op.obj # 0
        BY <1>1 DEF Ctl, Pass
      <4> QED
        BY <4>1 DEF OpType, Objects
    <3>4. table'[op.obj] = table[op.obj]
      BY <2>5, <3>2, <3>3
    <3>5. ~HasBlock(table[op.obj], op.layer, Pos)
      BY DEF AllocateBlock
    <3> QED
      BY <1>1, <2>4, <3>2, <3>4, <3>5 DEF HasBlock, BlockIdx, Pos, Stale, Filling
  <2> QED
    BY <1>1, <2>7, <2>8, QuietContents
<1> QED
  BY <1>1, <1>2, <1>3

LEMMA StartPassContents ==
  ASSUME Ctl, Ctl', Contents, ~Torn, op.pc # "dead", NEW q \in SeqIDs, NEW n \in Chunks, StartPass(q, n)
  PROVE  Contents'
<1>1. /\ op.pc = "idle" /\ UNCHANGED <<config, data, sequences, table, life>>
      /\ ctx' = [ctx EXCEPT ![q] = Brought(ctx[q], q, n, version[q])]
      /\ op' = [pc |-> "store", s |-> q, obj |-> 0, layer |-> 1, i |-> 0, start |-> Len(ctx[q]), n |-> n]
  BY DEF StartPass, Brought
<1>2. op'.pc = "store" /\ op'.s = q /\ op'.layer = 1 /\ op'.i = 0 /\ op'.start = Len(ctx[q])
  BY <1>1
<1>3. op.s = 0 /\ \A s \in SeqIDs : s # 0
  BY <1>1, ObjectsAre DEF Ctl, Pass
<1>4. ctx'[q] = Brought(ctx[q], q, n, version[q]) /\ \A s \in SeqIDs : s # q => ctx'[s] = ctx[s]
  BY <1>1 DEF Ctl, Stored
<1>5. n \in Nat /\ q \in Int /\ version[q] \in Int
  BY CacheAssumption DEF Ctl, Stored, SeqIDs
<1>6. Extends(ctx[q], ctx'[q])
  <2>1. PICK c \in Seq(KV), v \in Int, m \in Nat, r \in Int : c = ctx[q] /\ v = version[q] /\ m = n /\ r = q
    BY <1>5, SeqTypes
  <2>2. Len(Brought(c, r, m, v)) = Len(c) + m /\ \A i \in 1..Len(c) : Brought(c, r, m, v)[i] = c[i]
    BY BroughtIs
  <2>3. PICK d : d = Brought(c, r, m, v)
    OBVIOUS
  <2>4. PICK x \in Nat : x = Len(c)
    BY <2>1
  <2>5. Len(c) <= Len(d) /\ \A i \in 1..Len(c) : d[i] = c[i]
    BY <2>2, <2>3, <2>4
  <2> QED
    BY <1>4, <2>1, <2>3, <2>5 DEF Extends
<1>7. ASSUME NEW s \in SeqIDs, life'[s] \in Present PROVE KeepsOwn(s)
  <2>1. CASE s # q
    <3>1. \A l \in Layers : Have(s, l)' = Have(s, l)
      BY <1>2, <1>3, <1>4, <2>1 DEF Have
    <3> QED
      BY <1>1, <1>4, <1>7, <2>1, <3>1, KeepsSame
  <2>2. CASE s = q
    <3>1. PICK m \in Nat : m = Len(ctx[q])
      BY SeqTypes
    <3>2. ASSUME NEW l \in Layers PROVE Have(s, l)' = Have(s, l)
      <4>1. Have(s, l) = m
        BY <1>3, <2>2, <3>1 DEF Have
      <4>2. l \in Nat /\ ~(l < 1)
        BY DEF Layers
      <4>3. Have(s, l)' = m
        BY <1>2, <2>2, <3>1, <4>2 DEF Have
      <4> QED
        BY <4>1, <4>3
    <3>3. \A l \in Layers : Extends(table[s].blocks[l], table'[s].blocks[l])
      BY <1>1, SeqTypes, ExtendsSelf
    <3> QED
      BY <1>1, <1>6, <1>7, <2>2, <3>2, <3>3 DEF KeepsOwn
  <2> QED
    BY <2>1, <2>2
<1>8. Harmless'
  BY <1>2, HarmlessOver
<1> QED
  BY <1>1, <1>7, <1>8, QuietContents

LEMMA AttendContents ==
  ASSUME Ctl, Ctl', Contents, ~Torn, op.pc # "dead", Attend
  PROVE  Contents'
<1>1. /\ op.pc = "attend" /\ (NextLayer \/ ToVerify \/ PassEnds)
      /\ UNCHANGED <<config, data, sequences, table, ctx>>
  BY AttendIs
<1>2. op \in OpType /\ op.s \in SeqIDs /\ op.layer \in Layers /\ op.start \in Nat
  BY <1>1, PassSeq
<1>3. config \in Configs /\ config.NumLayers \in Nat
  BY Sizes DEF Ctl, Lives
<1>4. ASSUME NEW s \in SeqIDs, life'[s] \in Present PROVE life[s] \in Present
  BY <1>1, <1>2, <1>4 DEF NextLayer, ToVerify, PassEnds, Present, Ctl, Lives
<1>5. CASE op'.pc = "dead"
  BY <1>5 DEF Contents
<1>6. CASE op'.pc # "dead"
  <2>1. ASSUME NEW s \in SeqIDs, NEW l \in Layers PROVE Have(s, l)' = Have(s, l)
    <3>1. PICK a \in Nat, k \in Nat, m \in Nat : a = l /\ k = op.layer /\ m = config.NumLayers /\ a <= m
      BY <1>2, <1>3 DEF Layers
    <3>2. CASE op.s # s
      <4>1. op'.s # s
        BY <1>1, <1>2, <3>2, IdleIs, ObjectsAre DEF NextLayer, ToVerify, PassEnds, OpType
      <4> QED
        BY <1>1, <3>2, <4>1 DEF Have
    <3>3. CASE op.s = s
      <4>1. Have(s, l) = IF a <= k THEN Len(ctx[s]) ELSE op.start
        BY <1>1, <3>1, <3>3 DEF Have
      <4>2. CASE NextLayer
        <5>1. op'.pc = "store" /\ op'.s = s /\ op'.layer = k + 1 /\ op'.i = 0 /\ op'.start = op.start
          BY <1>2, <3>1, <3>3, <4>2 DEF NextLayer, OpType
        <5>2. Have(s, l)' = IF a < k + 1 THEN Len(ctx[s]) ELSE IF a = k + 1 THEN op.start + 0 ELSE op.start
          BY <1>1, <3>1, <5>1 DEF Have
        <5> QED
          BY <1>2, <3>1, <4>1, <5>2
      <4>3. CASE ToVerify
        <5>1. op'.pc = "verify" /\ a <= k
          BY <1>2, <3>1, <4>3 DEF ToVerify, OpType
        <5> QED
          BY <1>1, <4>1, <5>1 DEF Have
      <4>4. CASE PassEnds
        <5>1. op'.pc = "idle" /\ op'.s = 0 /\ s # 0 /\ a <= k
          BY <1>6, <3>1, <4>4, IdleIs, ObjectsAre DEF PassEnds
        <5> QED
          BY <1>1, <4>1, <5>1 DEF Have
      <4> QED
        BY <1>1, <4>2, <4>3, <4>4
    <3> QED
      BY <3>2, <3>3
  <2>2. \A s \in SeqIDs : life'[s] \in Present => KeepsOwn(s)
    BY <1>1, <1>4, <2>1, KeepsSame
  <2>3. op'.pc # "fill"
    BY <1>1, <1>2, IdleIs DEF NextLayer, ToVerify, PassEnds, OpType
  <2> QED
    BY <1>1, <2>2, <2>3, HarmlessOver, QuietContents
<1> QED
  BY <1>5, <1>6

LEMMA TruncateLookupContents ==
  ASSUME Ctl, Ctl', Contents, ~Torn, op.pc # "dead", NEW len, TruncateLookup(len)
  PROVE  Contents'
<1>1. op.pc = "verify" /\ UNCHANGED <<config, data, sequences, table, life, ctx>>
  BY DEF TruncateLookup
<1>2. op \in OpType /\ op.s \in SeqIDs
  BY <1>1, PassSeq
<1>3. (op'.pc = "idle" /\ op'.s = 0) \/ (op'.pc = "cut" /\ op'.s = op.s)
  BY <1>2, IdleIs DEF TruncateLookup, OpType
<1>4. ASSUME NEW s \in SeqIDs, NEW l \in Layers PROVE Have(s, l)' = Have(s, l)
  <2>1. s # 0
    BY ObjectsAre
  <2> QED
    BY <1>1, <1>3, <2>1 DEF Have
<1>5. \A s \in SeqIDs : life'[s] \in Present => KeepsOwn(s)
  BY <1>1, <1>4, KeepsSame
<1> QED
  BY <1>1, <1>3, <1>5, HarmlessOver, QuietContents

\* The contents, sequence by sequence.
LEMMA ContentsParts ==
  ASSUME UNCHANGED config, DataType', Harmless', \A s \in SeqIDs : life'[s] \in Present => \A l \in Layers : Own(s, l)'
  PROVE  Contents'
<1>1. SeqIDs' = SeqIDs /\ Present' = Present /\ Layers' = Layers
  BY SameTypes DEF SeqIDs, Present
<1>2. OwnContents'
  BY <1>1 DEF OwnContents
<1> QED
  BY <1>2 DEF Contents

LEMMA DataSame ==
  ASSUME UNCHANGED <<config, data>>, DataType
  PROVE  DataType'
<1>1. Layers' = Layers /\ Blocks' = Blocks /\ Offsets' = Offsets
  BY SameTypes DEF Offsets
<1> QED
  BY <1>1 DEF DataType, KV

\* What is left of a table and of its sequence when both are cut.
LEMMA OwnCut ==
  ASSUME Ctl, Ctl', OwnContents, NEW q \in SeqIDs, life[q] \in Present, NEW len \in Nat, NEW keep \in Nat,
         UNCHANGED <<config, data>>, keep = NeededBlocks(len), len <= Len(ctx[q]), \A l \in Layers : Have(q, l) = Len(ctx[q]),
         ctx'[q] = SubSeq(ctx[q], 1, len), table'[q].blocks = KeptBlocks(table[q], keep),
         \A l \in Layers : Have(q, l)' = len
  PROVE  \A l \in Layers : Own(q, l)'
<1>1. PICK b \in Nat \ {0} : b = config.BlockSize
  BY SeqTypes
<1>2. PICK c \in Seq(KV) : c = ctx[q]
  BY SeqTypes
<1>3. len <= keep * b
  BY <1>1, NeededIs
<1>4. PICK d \in Seq(KV) : d = SubSeq(c, 1, len) /\ FirstOf(c, d, len)
  <2>1. PICK S : S = KV
    OBVIOUS
  <2>2. PICK d \in Seq(S) : d = SubSeq(c, 1, len) /\ FirstOf(c, d, len)
    BY <1>2, <2>1, FirstIs
  <2> QED
    BY <2>1, <2>2
<1>5. ASSUME NEW l \in Layers PROVE Own(q, l)'
  <2>1. PICK D, S, V : D = data[l] /\ S = Blocks /\ V = KV
    OBVIOUS
  <2>2. PICK u : u = table[q] /\ u \in TableType
    BY SeqTypes
  <2>3. /\ KeptBlocks(u, keep)[l] \in Seq(Blocks) /\ u.blocks[l] \in Seq(Blocks)
        /\ Len(KeptBlocks(u, keep)[l]) = IF keep < Len(u.blocks[l]) THEN keep ELSE Len(u.blocks[l])
        /\ \A i \in 1..Len(KeptBlocks(u, keep)[l]) : KeptBlocks(u, keep)[l][i] = u.blocks[l][i]
    BY <2>2, KeptBlocksAre
  <2>4. PICK t \in Seq(S), t2 \in Seq(S) : t = u.blocks[l] /\ t2 = KeptBlocks(u, keep)[l]
    BY <2>1, <2>3
  <2>5. KeptOf(t, t2, keep)
    BY <2>3, <2>4 DEF KeptOf
  <2>6. Holds(b, D, t, c, Len(c))
    BY <1>1, <1>2, <2>1, <2>2, <2>4 DEF OwnContents, Own
  <2>7. c \in Seq(V) /\ d \in Seq(V) /\ NeedOf(b, keep, len) /\ len <= Len(c)
    BY <1>2, <1>3, <2>1 DEF NeedOf
  <2>8. Holds(b, D, t2, d, len)
    BY <1>4, <2>5, <2>6, <2>7, HoldsCut
  <2> QED
    BY <1>1, <1>2, <1>4, <2>1, <2>2, <2>4, <2>8 DEF Own
<1> QED
  BY <1>5

LEMMA TruncateContents ==
  ASSUME Ctl, Ctl', Contents, ~Torn, op.pc # "dead", TruncateSequence
  PROVE  Contents'
<1>1. PICK len \in Nat, keep \in Nat :
           /\ op.pc = "cut" /\ op' = Idle
           /\ len <= Len(ctx[op.s]) /\ keep = NeededBlocks(len)
           /\ TruncateKeeps \/ TruncateCuts(len, keep)
           /\ UNCHANGED <<config, data, sequences>>
  BY TruncateIs
<1>2. PICK q \in SeqIDs : q = op.s /\ op.obj \in Objects /\ table[op.obj] \in TableType
  BY <1>1, PassSeq, CutTable
<1>3. op'.s = 0 /\ op'.pc = "idle" /\ \A s \in SeqIDs : s # 0
  BY <1>1, IdleIs, ObjectsAre
<1>4. Harmless'
  BY <1>3, HarmlessOver
<1>5. \A s \in SeqIDs, l \in Layers : Have(s, l)' = Len(ctx'[s]) /\ Have(s, l) = Len(ctx[s])
  BY <1>1, <1>3 DEF Have
<1>6. CASE TruncateKeeps
  <2>1. UNCHANGED <<table, ctx, life>>
    BY <1>6 DEF TruncateKeeps
  <2>2. \A s \in SeqIDs : life'[s] \in Present => KeepsOwn(s)
    BY <1>1, <1>5, <2>1, KeepsSame
  <2> QED
    BY <1>1, <1>4, <2>2, QuietContents
<1>7. CASE TruncateCuts(len, keep) /\ op.obj # sequences[q]
  <2>1. life' = [life EXCEPT ![q] = "torn"]
    BY <1>2, <1>7 DEF TruncateCuts
  <2>2. life'[q] = "torn"
    BY <2>1 DEF Ctl, Lives
  <2>3. Torn'
    BY <2>2 DEF Torn, SeqIDs
  <2> QED
    BY <2>3 DEF Contents
<1>8. CASE TruncateCuts(len, keep) /\ op.obj = sequences[q]
  <2>1. life' = life
    <3>1. life' = [life EXCEPT ![q] = life[q]]
      BY <1>2, <1>8 DEF TruncateCuts
    <3> QED
      BY <3>1 DEF Ctl, Lives
  <2>2. ctx' = [ctx EXCEPT ![q] = SubSeq(ctx[q], 1, len)]
    BY <1>2, <1>8 DEF TruncateCuts
  <2>3. ctx'[q] = SubSeq(ctx[q], 1, len) /\ \A s \in SeqIDs : s # q => ctx'[s] = ctx[s]
    BY <2>2 DEF Ctl, Stored
  <2>4. op.obj = q \/ op.obj = MaxSeqs + q
    BY <1>1, <1>2, CutTable
  <2>5. \A t \in Objects : t # op.obj => table'[t] = table[t]
    BY <1>2, <1>8 DEF TruncateCuts, Ctl, Tables
  <2>6. DataType /\ OwnContents
    BY DEF Contents
  <2>7. ASSUME NEW s \in SeqIDs, life'[s] \in Present PROVE \A l \in Layers : Own(s, l)'
    <3>1. CASE s # q
      <4>1. s \in Objects /\ s # op.obj
        BY <2>4, <3>1, ObjectsAre
      <4>2. KeepsOwn(s)
        BY <1>1, <1>5, <2>1, <2>3, <2>5, <2>7, <3>1, <4>1, KeepsSame
      <4> QED
        BY <1>1, <2>6, <4>2, OwnFrame
    <3>2. CASE s = q
      <4>1. life[q] \in Present
        BY <2>1, <2>7, <3>2
      <4>2. op.obj = q
        BY <1>8, <4>1 DEF Ctl, Registered
      <4>3. PICK n, w : n = config.MaxLen /\ w = table[q] /\ w \in TableType
        BY <1>2, <4>2
      <4>4. len \in 0..config.MaxLen /\ Len(ctx'[q]) = len
        <5>1. PICK c \in Seq(KV) : c = ctx[q] /\ Len(c) <= config.MaxLen /\ config.MaxLen \in Nat
          BY SeqTypes, Sizes DEF Ctl, Stored
        <5>2. len <= Len(c)
          BY <1>1, <1>2, <5>1
        <5>3. Len(SubSeq(c, 1, len)) = len
          BY <5>1, <5>2
        <5> QED
          BY <2>3, <5>1, <5>2, <5>3
      <4>5. table'[q].blocks = KeptBlocks(w, keep)
        <5>1. PICK x : x = [w EXCEPT !.blocks = KeptBlocks(w, keep), !.seqLen = len]
          OBVIOUS
        <5>2. table'[q] = x
          BY <1>2, <1>8, <4>2, <4>3, <5>1 DEF TruncateCuts, Ctl, Tables
        <5>3. x.blocks = KeptBlocks(w, keep)
          <6>1. config \in Configs
            BY DEF Ctl, Lives
          <6>2. PICK u \in TableType, k \in Nat : u = w /\ k = keep
            BY <1>1, <4>3
          <6>3. PICK y \in TableType : Keeps(u, y, KeptBlocks(u, k), len)
            BY <4>4, <6>1, KeptIs
          <6> QED
            BY <5>1, <6>2, <6>3 DEF Keeps
        <5> QED
          BY <5>2, <5>3
      <4>6. \A l \in Layers : Have(q, l) = Len(ctx[q]) /\ Have(q, l)' = len
        BY <1>5, <4>4
      <4> QED
        BY <1>1, <1>2, <2>3, <2>6, <3>2, <4>1, <4>3, <4>5, <4>6, OwnCut
    <3> QED
      BY <3>1, <3>2
  <2> QED
    BY <1>1, <1>4, <2>6, <2>7, DataSame, ContentsParts
<1> QED
  BY <1>1, <1>6, <1>7, <1>8

\* A block has one holder, and one place in its list.
LEMMA OneHolder ==
  ASSUME Ctl, Accounts, NEW l \in Layers, NEW q \in SeqIDs, NEW s \in SeqIDs,
         NEW t \in Seq(Blocks), NEW u \in Seq(Blocks), t = List(sequences, table, l, q), u = List(sequences, table, l, s),
         NEW i \in 1..Len(t), NEW j \in 1..Len(u), t[i] = u[j]
  PROVE  q = s /\ i = j
<1>1. PICK one \in BOOLEAN : one = (config.NumLayers = 1)
  OBVIOUS
<1>2. PICK TT, EE : TT = ListsOf(sequences, table) /\ EE = HeldOf(TT)
  OBVIOUS
<1>3. All(Layers, Blocks, one, EE, alloc) /\ ListsFit(TT)
  BY <1>1, <1>2, Zenon DEF Accounts, AccountsOf, ExactFor
<1>4. PICK G, R : \A k \in Layers : Good(Blocks, one, EE[k], R, G[k])
  BY <1>3 DEF All
<1>5. PICK T, E, F : T = TT[l] /\ E = EE[l] /\ F = G[l] /\ Good(Blocks, one, E, R, F)
  BY <1>4
<1>6. E = Ent(Owners, Indices, Blocks, T)
  BY <1>2, <1>5 DEF HeldOf
<1>7. T[q] = t /\ T[s] = u
  BY <1>2, <1>5, ListIs DEF Owners
<1>8. Len(t) <= config.MaxBlocks /\ Len(u) <= config.MaxBlocks
  BY <1>3, <1>5, <1>7 DEF ListsFit, Owners
<1>9. i \in Indices /\ j \in Indices
  <2>1. PICK m \in Nat, n \in Nat, k \in Nat : m = config.MaxBlocks /\ n = config.MaxLen /\ k = m + n /\ Indices = 1..k
    BY Sizes DEF Indices, Ctl, Lives
  <2> QED
    BY <1>8, <2>1
<1>10. PICK b \in Blocks : b = t[i] /\ b = u[j]
  <2>1. PICK S : S = Blocks /\ t \in Seq(S)
    OBVIOUS
  <2>2. t[i] \in S
    BY <2>1, ElementOfSeq
  <2> QED
    BY <2>1, <2>2
<1>11. PICK x, y : x = <<q, <<i, b>>>> /\ y = <<s, <<j, b>>>>
  OBVIOUS
<1>12. /\ x \in Owners \X (Indices \X Blocks) /\ x[1] = q /\ x[2][1] = i /\ x[2][2] = b
       /\ y \in Owners \X (Indices \X Blocks) /\ y[1] = s /\ y[2][1] = j /\ y[2][2] = b
  BY <1>9, <1>11 DEF Owners
<1>13. x \in E /\ y \in E
  BY <1>6, <1>7, <1>10, <1>12 DEF Ent
<1>14. x \in Naming(E, b) /\ y \in Naming(E, b)
  BY <1>12, <1>13 DEF Naming
<1>15. x = y
  BY <1>5, <1>14 DEF Good
<1> QED
  BY <1>12, <1>15

\* The layer has one position more, every other has what it had.
LEMMA WriteHave ==
  ASSUME Ctl, WriteKV, NEW s \in SeqIDs, NEW l \in Layers
  PROVE  Have(s, l)' = IF s = op.s /\ l = op.layer THEN Have(s, l) + 1 ELSE Have(s, l)
<1>1. op.pc = "fill" /\ ctx' = ctx
  BY DEF WriteKV
<1>2. op.i < op.n /\ Len(ctx[op.s]) = op.start + op.n
  BY <1>1 DEF Ctl, Pass
<1>3. /\ op'.s = op.s /\ op'.start = op.start /\ op'.n = op.n /\ op'.layer = op.layer
      /\ \/ op'.pc = "store" /\ op'.i = op.i + 1
         \/ op'.pc = "attend" /\ op.i + 1 = op.n
  BY WriteKVCtl
<1>4. PICK st \in Nat, i \in Nat, n \in Nat : st = op.start /\ i = op.i /\ n = op.n
  BY <1>1, PassSeq
<1>5. CASE s # op.s
  BY <1>1, <1>3, <1>5 DEF Have
<1>6. CASE s = op.s /\ l # op.layer
  BY <1>1, <1>3, <1>6 DEF Have
<1>7. CASE s = op.s /\ l = op.layer
  <2>0. ~(l < op.layer)
    <3>1. l \in Nat
      BY DEF Layers
    <3> QED
      BY <1>7, <3>1
  <2>1. Have(s, l) = st + i
    BY <1>1, <1>4, <1>7, <2>0 DEF Have
  <2>2. CASE op'.pc = "store" /\ op'.i = op.i + 1
    <3>1. Have(s, l)' = st + (i + 1)
      BY <1>1, <1>3, <1>4, <1>7, <2>0, <2>2 DEF Have
    <3> QED
      BY <1>4, <1>7, <2>1, <3>1
  <2>3. CASE op'.pc = "attend" /\ op.i + 1 = op.n
    <3>1. Have(s, l)' = st + n
      BY <1>1, <1>2, <1>3, <1>4, <1>7, <2>3 DEF Have
    <3> QED
      BY <1>4, <1>7, <2>1, <2>3, <3>1
  <2> QED
    BY <1>3, <2>2, <2>3
<1> QED
  BY <1>5, <1>6, <1>7

\* The table a store holds: the one in the map, or the sequence's first one.
LEMMA FillTable ==
  ASSUME Ctl, op.pc = "fill"
  PROVE  /\ op.obj \in Objects /\ table[op.obj] \in TableType
         /\ life[op.s] \in Present => op.obj = op.s /\ sequences[op.s] = op.s
<1>1. op.obj # 0 /\ (op.obj = sequences[op.s] \/ (op.obj = op.s /\ life[op.s] = "left")) /\ op \in OpType
  BY DEF Ctl, Pass
<1>2. op.obj \in Objects
  BY <1>1 DEF OpType, Objects
<1>3. life[op.s] \in Present => sequences[op.s] = op.s /\ life[op.s] # "left"
  BY PassSeq DEF Present
<1> QED
  BY <1>1, <1>2, <1>3 DEF Ctl, Tables

\* A token is stored in one slot of its layer.
LEMMA WritesSlot ==
  ASSUME Ctl, DataType, WriteKV
  PROVE  /\ DataType' /\ Pos \in Nat /\ Target \in Blocks
         /\ \A k \in Layers : k # op.layer => data'[k] = data[k]
         /\ BlockIdx(Pos) + 1 \in 1..Len(table[op.obj].blocks[op.layer]) /\ BlockIdx(Pos) \in Nat
         /\ Target = table[op.obj].blocks[op.layer][BlockIdx(Pos) + 1]
         /\ Written(Blocks, Offsets, data[op.layer], data'[op.layer], Target, Pos % config.BlockSize, ctx[op.s][Pos + 1])
<1>1. /\ op.pc = "fill" /\ HasBlock(table[op.obj], op.layer, Pos) /\ config' = config
      /\ data' = [data EXCEPT ![op.layer][Target][Pos % config.BlockSize] = ctx[op.s][Pos + 1]]
  BY DEF WriteKV, Target
<1>2. PICK q \in SeqIDs, l \in Layers : q = op.s /\ l = op.layer
  BY <1>1, PassSeq
<1>3. PICK st \in Nat, i \in Nat, n \in Nat : st = op.start /\ i = op.i /\ n = op.n
  BY <1>1, PassSeq
<1>4. i < n /\ Len(ctx[q]) = st + n
  BY <1>1, <1>2, <1>3 DEF Ctl, Pass
<1>5. PICK p \in Nat : p = Pos /\ p + 1 \in 1..(st + n)
  <2>1. st + i \in Nat /\ Pos = st + i
    BY <1>3 DEF Pos
  <2>2. st + i + 1 \in 1..(st + n)
    BY <1>3, <1>4
  <2> QED
    BY <2>1, <2>2
<1>6. PICK b \in Nat \ {0} : b = config.BlockSize
  BY <1>2, SeqTypes
<1>7. PICK k \in Nat, o \in 0..(b - 1) : k = p \div b /\ o = p % b
  BY Slot
<1>8. k = BlockIdx(Pos) /\ o = Pos % config.BlockSize /\ o \in Offsets
  BY <1>5, <1>6, <1>7 DEF BlockIdx, Offsets
<1>9. PICK t \in Seq(Blocks) : t = table[op.obj].blocks[l]
  BY <1>1, FillTable DEF TableType
<1>10. k + 1 \in 1..Len(t)
  <2>1. k < Len(t)
    BY <1>1, <1>2, <1>8, <1>9 DEF HasBlock
  <2> QED
    BY <1>7, <2>1
<1>11. PICK x \in Blocks : x = t[k + 1] /\ x = Target
  <2>1. PICK S : S = Blocks /\ t \in Seq(S)
    OBVIOUS
  <2>2. t[k + 1] \in S
    BY <1>10, <2>1, ElementOfSeq
  <2>3. Target = t[k + 1]
    BY <1>2, <1>8, <1>9 DEF Target, BlockID
  <2> QED
    BY <2>1, <2>2, <2>3
<1>12. PICK v \in KV : v = ctx[q][p + 1]
  <2>0. PICK S : S = KV
    OBVIOUS
  <2>1. PICK c \in Seq(S) : c = ctx[q]
    BY <2>0, SeqTypes
  <2>2. c[p + 1] \in S
    BY <1>4, <1>5, <2>1, ElementOfSeq
  <2> QED
    BY <2>0, <2>1, <2>2
<1>13. StoresAt(l, x, o, v)
  BY <1>1, <1>2, <1>5, <1>8, <1>11, <1>12 DEF StoresAt
<1>14. config \in Configs /\ o \in Offsets
  BY <1>8 DEF Ctl, Lives
<1>15. /\ DataType' /\ Written(Blocks, Offsets, data[l], data'[l], x, o, v)
       /\ \A j \in Layers : j # l => data'[j] = data[j]
  BY <1>1, <1>13, <1>14, DataWritten
<1> QED
  BY <1>2, <1>5, <1>7, <1>8, <1>9, <1>10, <1>11, <1>12, <1>15

\* Nobody who is still there, but the sequence of the pass, has the block.
LEMMA OthersApart ==
  ASSUME Ctl, Accounts, Harmless, Filling, NEW s \in SeqIDs, s # op.s, life[s] \in Present,
         NEW i, i \in 1..Len(table[op.obj].blocks[op.layer]), Target = table[op.obj].blocks[op.layer][i]
  PROVE  NotIn(Target, table[s].blocks[op.layer])
<1>1. op.pc = "fill"
  BY DEF Filling
<1>2. PICK q \in SeqIDs, l \in Layers : q = op.s /\ l = op.layer
  BY <1>1, PassSeq
<1>3. CASE op.obj # sequences[op.s]
  BY <1>3 DEF Harmless, Stale
<1>4. CASE op.obj = sequences[op.s]
  <2>1. PICK t \in Seq(Blocks) : t = table[op.obj].blocks[l]
    BY <1>1, FillTable DEF TableType
  <2>2. PICK u \in Seq(Blocks) : u = table[s].blocks[l]
    BY SeqTypes
  <2>3. t = List(sequences, table, l, q)
    <3>1. op.obj # 0
      BY <1>1 DEF Ctl, Pass
    <3> QED
      BY <1>2, <1>4, <2>1, <3>1 DEF List
  <2>4. u = List(sequences, table, l, s)
    <3>1. sequences[s] = s /\ s # 0
      BY ObjectsAre DEF Ctl, Registered
    <3> QED
      BY <2>2, <3>1 DEF List
  <2>5. ASSUME NEW j \in 1..Len(u), u[j] = Target PROVE FALSE
    <3>1. t[i] = u[j] /\ i \in 1..Len(t)
      BY <1>2, <2>1, <2>5
    <3>2. q = s
      BY <2>3, <2>4, <3>1, OneHolder
    <3> QED
      BY <1>2, <3>2
  <2> QED
    BY <1>2, <2>2, <2>5 DEF NotIn
<1> QED
  BY <1>3, <1>4

\* The block is once in the list of the sequence of the pass.
LEMMA OwnPlace ==
  ASSUME Ctl, Accounts, Filling, life[op.s] \in Present,
         NEW i, i \in 1..Len(table[op.s].blocks[op.layer]), NEW j \in 1..Len(table[op.s].blocks[op.layer]),
         table[op.s].blocks[op.layer][i] = table[op.s].blocks[op.layer][j]
  PROVE  j = i
<1>1. op.pc = "fill"
  BY DEF Filling
<1>2. PICK q \in SeqIDs, l \in Layers : q = op.s /\ l = op.layer
  BY <1>1, PassSeq
<1>3. PICK t \in Seq(Blocks) : t = table[q].blocks[l]
  BY SeqTypes
<1>4. t = List(sequences, table, l, q)
  <2>1. sequences[q] = q /\ q # 0
    BY <1>2, ObjectsAre DEF Ctl, Registered
  <2> QED
    BY <1>3, <2>1 DEF List
<1> QED
  BY <1>2, <1>3, <1>4, OneHolder

\* The next slot is in the list that the store looks at.
LEMMA FillPlace ==
  ASSUME Ctl, Filling
  PROVE  /\ Pos \in Nat /\ BlockIdx(Pos) \in Nat /\ BlockIdx(Pos) + 1 \in 1..Len(table[op.obj].blocks[op.layer])
         /\ Target = table[op.obj].blocks[op.layer][BlockIdx(Pos) + 1]
<1>1. op.pc = "fill" /\ HasBlock(table[op.obj], op.layer, Pos)
  BY DEF Filling
<1>2. PICK l \in Layers, st \in Nat, i \in Nat : l = op.layer /\ st = op.start /\ i = op.i
  BY <1>1, PassSeq
<1>3. PICK p \in Nat : p = Pos
  <2>1. st + i \in Nat /\ Pos = st + i
    BY <1>2 DEF Pos
  <2> QED
    BY <2>1
<1>4. PICK b \in Nat \ {0} : b = config.BlockSize
  BY Sizes DEF Ctl, Lives
<1>5. PICK k \in Nat : k = p \div b
  BY Slot
<1>6. PICK t \in Seq(Blocks) : t = table[op.obj].blocks[l]
  BY <1>1, FillTable DEF TableType
<1>7. k = BlockIdx(Pos)
  BY <1>3, <1>4, <1>5 DEF BlockIdx
<1>8. k < Len(t) /\ Len(t) \in Nat
  BY <1>1, <1>2, <1>6, <1>7 DEF HasBlock
<1>9. k + 1 \in 1..Len(t)
  BY <1>8
<1> QED
  BY <1>2, <1>3, <1>6, <1>7, <1>9 DEF Target, BlockID

\* What a store changes, sequence by sequence.
LEMMA WriteOwn ==
  ASSUME Ctl, Ctl', Accounts, DataType, OwnContents, Harmless, WriteKV, NEW s \in SeqIDs, life[s] \in Present,
         NEW l \in Layers
  PROVE  Own(s, l)'
<1>1. /\ op.pc = "fill" /\ HasBlock(table[op.obj], op.layer, Pos) /\ config' = config /\ ctx' = ctx
  BY DEF WriteKV
<1>2. Filling
  BY <1>1 DEF Filling
<1>3. PICK q \in SeqIDs, k \in Layers : q = op.s /\ k = op.layer
  BY <1>1, PassSeq
<1>4. PICK b \in Nat \ {0} : b = config.BlockSize
  BY SeqTypes
<1>5. PICK S, O, V : S = Blocks /\ O = Offsets /\ V = KV
  OBVIOUS
<1>6. PICK t \in Seq(S) : t = table[s].blocks[l]
  BY <1>5, SeqTypes
<1>7. table'[s].blocks[l] = t
  <2>1. s \in Objects
    BY ObjectsAre
  <2> QED
    BY <1>6, <2>1, WriteKVCtl
<1>8. PICK c \in Seq(V) : c = ctx[s]
  BY <1>5, SeqTypes
<1>9. PICK D, D2 : D = data[l] /\ D2 = data'[l]
  OBVIOUS
<1>10. PICK h \in Nat : h = Have(s, l)
  BY HaveIs
<1>11. Holds(b, D, t, c, h)
  BY <1>4, <1>6, <1>8, <1>9, <1>10 DEF OwnContents, Own
<1>12. Have(s, l)' = IF s = q /\ l = k THEN h + 1 ELSE h
  BY <1>3, <1>10, WriteHave
<1>13. CASE l # k
  <2>1. D2 = D
    BY <1>3, <1>9, <1>13, WritesSlot
  <2> QED
    BY <1>1, <1>4, <1>6, <1>7, <1>8, <1>9, <1>10, <1>11, <1>12, <1>13, <2>1 DEF Own
<1>14. CASE l = k /\ s # q
  <2>1. PICK x, o, v : x = Target /\ o = Pos % config.BlockSize /\ v = ctx[op.s][Pos + 1]
    OBVIOUS
  <2>2. Written(S, O, D, D2, x, o, v)
    BY <1>3, <1>5, <1>9, <1>14, <2>1, WritesSlot
  <2>3. PICK i : /\ i \in 1..Len(table[op.obj].blocks[op.layer])
                 /\ Target = table[op.obj].blocks[op.layer][i]
    BY WritesSlot
  <2>4. s # op.s
    BY <1>3, <1>14
  <2>5. NotIn(Target, table[s].blocks[op.layer])
    BY <1>2, <2>3, <2>4, OthersApart
  <2>6. \A j \in 1..Len(t) : t[j] # x
    BY <1>3, <1>6, <1>14, <2>1, <2>5 DEF NotIn
  <2>7. Holds(b, D2, t, c, h)
    BY <1>11, <2>2, <2>6, HoldsElsewhere
  <2> QED
    BY <1>1, <1>4, <1>6, <1>7, <1>8, <1>9, <1>10, <1>12, <1>14, <2>7 DEF Own
<1>15. CASE l = k /\ s = q
  <2>1. op.obj = s
    BY <1>1, <1>3, <1>15, FillTable
  <2>2. h = Pos
    <3>1. op.pc = "fill" /\ l = op.layer /\ s = op.s /\ l \in Nat
      BY <1>1, <1>3, <1>15 DEF Layers
    <3>2. ~(l < op.layer)
      BY <3>1
    <3> QED
      BY <1>10, <3>1, <3>2 DEF Have, Pos
  <2>3. Written(S, O, D, D2, Target, h % b, c[h + 1])
    BY <1>3, <1>4, <1>5, <1>8, <1>9, <1>15, <2>2, WritesSlot
  <2>4. PICK g \in Nat : g = h \div b /\ g = BlockIdx(Pos)
    BY <1>4, <2>2, Slot DEF BlockIdx
  <2>5. g + 1 \in 1..Len(t) /\ Target = t[g + 1]
    BY <1>3, <1>6, <1>15, <2>1, <2>4, WritesSlot
  <2>6. g < Len(t)
    <3>1. Len(t) \in Nat
      OBVIOUS
    <3> QED
      BY <2>5, <3>1
  <2>7. ASSUME NEW j \in 1..Len(t), t[j] = t[g + 1] PROVE j = g + 1
    <3>1. PICK a : a = g + 1
      OBVIOUS
    <3>2. a \in 1..Len(table[op.s].blocks[op.layer]) /\ j \in 1..Len(table[op.s].blocks[op.layer])
      BY <1>3, <1>6, <1>15, <2>5, <3>1
    <3>3. table[op.s].blocks[op.layer][a] = table[op.s].blocks[op.layer][j]
      BY <1>3, <1>6, <1>15, <2>7, <3>1
    <3>4. life[op.s] \in Present
      BY <1>3, <1>15
    <3>5. j = a
      BY <1>2, <3>2, <3>3, <3>4, OwnPlace
    <3> QED
      BY <3>1, <3>5
  <2>8. O = 0..(b - 1)
    BY <1>4, <1>5 DEF Offsets
  <2>9. NextIn(b, S, D, D2, t, c, h)
    BY <2>3, <2>4, <2>5, <2>6, <2>7, <2>8 DEF NextIn
  <2>10. Holds(b, D2, t, c, h + 1)
    BY <1>11, <2>9, HoldsNext
  <2> QED
    BY <1>1, <1>4, <1>6, <1>7, <1>8, <1>9, <1>10, <1>12, <1>15, <2>10 DEF Own
<1> QED
  BY <1>13, <1>14, <1>15

LEMMA WriteContents ==
  ASSUME Ctl, Ctl', Accounts, Contents, ~Torn, op.pc # "dead", WriteKV
  PROVE  Contents'
<1>1. config' = config /\ life' = life
  BY DEF WriteKV
<1>2. DataType /\ OwnContents /\ Harmless
  BY DEF Contents
<1>3. DataType'
  BY <1>2, WritesSlot
<1>4. Harmless'
  <2>1. op'.pc # "fill"
    BY WriteKVCtl
  <2> QED
    BY <2>1, HarmlessOver
<1>5. ASSUME NEW s \in SeqIDs, life'[s] \in Present PROVE \A l \in Layers : Own(s, l)'
  <2>1. life[s] \in Present
    BY <1>1, <1>5
  <2> QED
    BY <1>2, <2>1, WriteOwn
<1> QED
  BY <1>1, <1>3, <1>4, <1>5, ContentsParts

\* A sequence is deleted, the one of the pass or another.
LEMMA DeleteContents ==
  ASSUME Ctl, Ctl', Accounts, Contents, ~Torn, op.pc # "dead", NEW q \in SeqIDs, DeleteSequence(q)
  PROVE  Contents'
<1>1. /\ sequences[q] = q /\ life[q] \in {"live", "finished"}
      /\ life' = [life EXCEPT ![q] = IF Held(q) THEN "left" ELSE "gone"]
      /\ sequences' = [sequences EXCEPT ![q] = 0]
      /\ Held(q) => UNCHANGED <<table, ctx>>
      /\ ~Held(q) => table' = [table EXCEPT ![q] = NewBlockTable] /\ ctx' = [ctx EXCEPT ![q] = << >>]
      /\ UNCHANGED <<config, data, op>>
  BY DeleteIs
<1>2. life'[q] \notin Present /\ \A s \in SeqIDs : s # q => life'[s] = life[s] /\ sequences'[s] = sequences[s]
  BY <1>1 DEF Ctl, Lives, Registered, Present
<1>3. \A t \in Objects : t # q => table'[t] = table[t]
  BY <1>1 DEF Ctl, Tables
<1>4. \A s \in SeqIDs : s # q => ctx'[s] = ctx[s]
  BY <1>1 DEF Ctl, Stored
<1>5. ASSUME NEW s \in SeqIDs, life'[s] \in Present
      PROVE  life[s] \in Present /\ table'[s].blocks = table[s].blocks /\ KeepsOwn(s)
  <2>1. s # q
    BY <1>2, <1>5
  <2>2. life[s] \in Present /\ table'[s] = table[s] /\ ctx'[s] = ctx[s]
    BY <1>2, <1>3, <1>4, <1>5, <2>1, ObjectsAre
  <2>3. \A l \in Layers : Have(s, l)' = Have(s, l)
    BY <1>1, <2>2 DEF Have
  <2> QED
    BY <1>1, <2>2, <2>3, KeepsSame
<1>6. CASE op.pc # "fill"
  <2>1. Harmless'
    BY <1>1, <1>6, HarmlessOver
  <2> QED
    BY <1>1, <1>5, <2>1, QuietContents
<1>7. CASE op.pc = "fill" /\ op.s # q
  <2>1. op.s \in SeqIDs /\ op.obj # q
    <3>1. PICK p \in SeqIDs : p = op.s /\ p # q
      BY <1>7, PassSeq
    <3>2. op.obj = sequences[p] \/ op.obj = p
      BY <1>7, <3>1 DEF Ctl, Pass
    <3>3. life[p] \in {"live", "left"} /\ (life[p] = "live" => sequences[p] = p)
          /\ (life[p] = "left" => sequences[p] \in {0, MaxSeqs + p})
      BY <1>7, <3>1, PassSeq
    <3>4. op.obj # 0
      BY <1>7 DEF Ctl, Pass
    <3> QED
      BY <3>1, <3>2, <3>3, <3>4, ObjectsAre
  <2>2. sequences'[op.s] = sequences[op.s] /\ table'[op.obj] = table[op.obj]
    BY <1>2, <1>3, <1>7, <2>1, FillTable
  <2>3. Harmless
    BY DEF Contents
  <2>4. Harmless'
    BY <1>1, <1>5, <2>2, <2>3, HarmlessFrame
  <2> QED
    BY <1>1, <1>5, <2>4, QuietContents
<1>8. CASE op.pc = "fill" /\ op.s = q
  <2>1. Held(q)
    BY <1>8 DEF Held
  <2>2. table' = table /\ ctx' = ctx
    BY <1>1, <2>1
  <2>3. SeqIDs' = SeqIDs /\ Present' = Present /\ BlockIdx(Pos)' = BlockIdx(Pos)
    BY <1>1 DEF SeqIDs, Present, BlockIdx, Pos
  <2>4. Filling' => Filling
    BY <1>1, <2>2, <2>3 DEF Filling, HasBlock
  <2>5. Target' = Target
    BY <1>1, <2>2, <2>3 DEF Target, BlockID
  <2>6. op'.layer = op.layer
    BY <1>1
  <2>7. ASSUME Filling, NEW s \in SeqIDs, life'[s] \in Present
        PROVE  NotIn(Target, table[s].blocks[op.layer])
    <3>1. s # op.s /\ life[s] \in Present
      BY <1>2, <1>5, <1>8, <2>7
    <3>2. PICK i : /\ i \in 1..Len(table[op.obj].blocks[op.layer])
                   /\ Target = table[op.obj].blocks[op.layer][i]
      BY <2>7, FillPlace
    <3>3. Harmless
      BY DEF Contents
    <3> QED
      BY <2>7, <3>1, <3>2, <3>3, OthersApart
  <2>8. Harmless'
    BY <2>2, <2>3, <2>4, <2>5, <2>6, <2>7 DEF Harmless, Stale
  <2> QED
    BY <1>1, <1>5, <2>8, QuietContents
<1> QED
  BY <1>6, <1>7, <1>8

-----------------------------------------------------------------------------
(* Contents: from the first state on.                                      *)

LEMMA InitContents ==
  ASSUME Init
  PROVE  Contents
<1>1. life = [s \in SeqIDs |-> "none"] /\ op = Idle /\ data = [l \in Layers |-> [b \in Blocks |-> [o \in Offsets |-> Unwritten]]]
  BY DEF Init
<1>2. DataType
  <2>1. Unwritten \in KV
    BY DEF Unwritten, KV
  <2> QED
    BY <1>1, <2>1 DEF DataType
<1>3. OwnContents
  BY <1>1 DEF OwnContents, Present
<1>4. Harmless
  BY <1>1 DEF Harmless, Stale, Filling, Idle
<1> QED
  BY <1>2, <1>3, <1>4 DEF Contents

\* What was freed twice stays so, and a Run that has ended does not come back.
LEMMA TornStays ==
  ASSUME Ctl, Next, Torn
  PROVE  Torn'
<1>1. PICK q \in SeqIDs : life[q] = "torn"
  BY DEF Torn
<1>2. life'[q] = "torn"
  <2>1. CASE FormBatch \/ StoreKVLookup \/ AllocateBlock \/ WriteKV \/ Fragments
    BY <1>1, <2>1 DEF FormBatch, StoreKVLookup, AllocateBlock, WriteKV, Fragments, DeleteFragment, CacheContent,
                      LookupFragment, InsertTable, ShareBlock, InsertRange
  <2>2. ASSUME NEW s \in SeqIDs, NEW n \in Chunks, StartPass(s, n) PROVE life' = life
    BY <2>2 DEF StartPass
  <2>3. ASSUME NEW len, TruncateLookup(len) PROVE life' = life
    BY <2>3 DEF TruncateLookup
  <2>4. CASE Attend
    BY <1>1, <2>4, AttendCtl
  <2>5. CASE TruncateSequence
    BY <1>1, <2>5, TruncateCtl
  <2>6. CASE CreateSequence
    BY <1>1, <2>6, CreateCtl
  <2>7. ASSUME NEW s \in SeqIDs, Publish(s) PROVE life'[q] = "torn"
    BY <1>1, <2>7, PublishCtl
  <2>8. ASSUME NEW s \in SeqIDs, DeleteSequence(s) PROVE life'[q] = "torn"
    BY <1>1, <2>8, DeleteCtl
  <2> QED
    BY <1>1, <2>1, <2>2, <2>3, <2>4, <2>5, <2>6, <2>7, <2>8 DEF Next, Run, Handlers
<1> QED
  BY <1>1, <1>2 DEF Torn, SeqIDs

LEMMA DeadStays ==
  ASSUME Next, op.pc = "dead"
  PROVE  op' = op
BY DEF Next, Run, Handlers, Fragments, FormBatch, StartPass, StoreKVLookup, AllocateBlock, WriteKV, Attend,
       TruncateLookup, TruncateSequence, CreateSequence, Publish, DeleteSequence, DeleteFragment, CacheContent,
       LookupFragment, InsertTable, ShareBlock, InsertRange

LEMMA RunContents ==
  ASSUME PagedInv, PagedInv', Contents, ~Torn, op.pc # "dead", Run
  PROVE  Contents'
<1>1. Ctl /\ Ctl' /\ Typed(alloc) /\ Accounts
  BY DEF PagedInv
<1>2. CASE FormBatch
  BY <1>1, <1>2, SameContents DEF FormBatch
<1>3. ASSUME NEW s \in SeqIDs, NEW n \in Chunks, StartPass(s, n) PROVE Contents'
  BY <1>1, <1>3, StartPassContents
<1>4. CASE StoreKVLookup
  BY <1>1, <1>4, StoreKVLookupContents
<1>5. CASE AllocateBlock
  BY <1>1, <1>5, AllocateContents
<1>6. CASE WriteKV
  BY <1>1, <1>6, WriteContents
<1>7. CASE Attend
  BY <1>1, <1>7, AttendContents
<1>8. ASSUME NEW len, TruncateLookup(len) PROVE Contents'
  BY <1>1, <1>8, TruncateLookupContents
<1>9. CASE TruncateSequence
  BY <1>1, <1>9, TruncateContents
<1> QED
  BY <1>2, <1>3, <1>4, <1>5, <1>6, <1>7, <1>8, <1>9 DEF Run

LEMMA HandlerContents ==
  ASSUME PagedInv, PagedInv', Contents, ~Torn, op.pc # "dead", Handlers
  PROVE  Contents'
<1>1. Ctl /\ Ctl' /\ Accounts
  BY DEF PagedInv
<1>2. CASE CreateSequence
  BY <1>1, <1>2, CreateContents
<1>3. ASSUME NEW q \in SeqIDs, Publish(q) PROVE Contents'
  <2>1. /\ life[q] = "fresh" /\ life' = [life EXCEPT ![q] = "live"]
        /\ UNCHANGED <<config, data, sequences, table, ctx, op>>
    BY <1>3 DEF Publish
  <2>2. \A s \in SeqIDs : life'[s] \in Present => life[s] \in Present
    BY <1>1, <2>1 DEF Ctl, Lives, Present
  <2> QED
    BY <1>1, <2>1, <2>2, SameContents
<1>4. ASSUME NEW q \in SeqIDs, DeleteSequence(q) PROVE Contents'
  BY <1>1, <1>4, DeleteContents
<1> QED
  BY <1>2, <1>3, <1>4 DEF Handlers

\* Every step keeps the contents.
LEMMA ContentsStep ==
  ASSUME PagedInv, PagedInv', Contents, [Next]_vars
  PROVE  Contents'
<1>1. Ctl /\ Ctl'
  BY DEF PagedInv
<1>2. CASE Next /\ Torn
  BY <1>1, <1>2, TornStays DEF Contents
<1>3. CASE Next /\ op.pc = "dead"
  BY <1>3, DeadStays DEF Contents
<1>4. CASE Next /\ ~Torn /\ op.pc # "dead"
  BY <1>4, RunContents, HandlerContents, FragmentStep DEF Next
<1>5. CASE UNCHANGED vars
  <2>1. UNCHANGED <<config, data, sequences, table, ctx, op, life>>
    BY <1>5 DEF vars
  <2>2. Torn' = Torn
    BY <2>1 DEF Torn, SeqIDs
  <2>3. CASE Torn \/ op.pc = "dead"
    BY <2>1, <2>2, <2>3 DEF Contents
  <2>4. CASE ~Torn /\ op.pc # "dead"
    BY <1>1, <2>1, <2>4, SameContents
  <2> QED
    BY <2>3, <2>4
<1> QED
  BY <1>2, <1>3, <1>4, <1>5

\* What GetKVSlice gathers for a sequence that is still there.
LEMMA GathersOwn ==
  ASSUME PagedInv, Contents
  PROVE  AttendsOwnKV
<1> SUFFICES ASSUME Attends PROVE GetKVSlice(op.s, op.layer, Len(ctx[op.s])) = ctx[op.s]
  BY DEF AttendsOwnKV
<1>0. Ctl /\ op.pc = "attend" /\ life[op.s] = "live" /\ OwnContents
  BY DEF PagedInv, Contents, Attends
<1>1. PICK q \in SeqIDs, l \in Layers : q = op.s /\ l = op.layer /\ sequences[q] = q
  BY <1>0, PassSeq
<1>2. PICK b \in Nat \ {0}, c \in Seq(KV) : b = config.BlockSize /\ c = ctx[q]
  BY <1>0, SeqTypes
<1>3. PICK D, S : D = data[l] /\ S = Blocks
  OBVIOUS
<1>4. PICK t \in Seq(S) : t = table[q].blocks[l]
  BY <1>0, <1>3, SeqTypes
<1>5. PICK m \in Nat, n \in Nat : m = Len(c) /\ n = Len(t)
  OBVIOUS
<1>6. Have(q, l) = m
  BY <1>0, <1>1, <1>2, <1>5 DEF Have
<1>7. Holds(b, D, t, c, m)
  <2>1. life[q] \in Present
    BY <1>0, <1>1 DEF Present
  <2> QED
    BY <1>0, <1>2, <1>3, <1>4, <1>6, <2>1 DEF OwnContents, Own
<1>8. ASSUME NEW i \in 1..m
      PROVE  HasBlock(table[q], l, i - 1) /\ D[BlockID(table[q], l, i - 1)][(i - 1) % b] = c[i]
  <2>1. PICK p \in 0..(m - 1) : p = i - 1 /\ i = p + 1
    OBVIOUS
  <2>2. PICK u \in Nat : u = n * b /\ m <= u
    <3>1. n * b \in Nat
      OBVIOUS
    <3> QED
      BY <1>5, <1>7, <3>1 DEF Holds, Covers
  <2>3. p \in Nat /\ p < n * b
    BY <2>2
  <2>4. p \div b < n
    BY <2>3, SlotBelow
  <2>5. HasBlock(table[q], l, p)
    BY <1>2, <1>4, <1>5, <2>4 DEF HasBlock, BlockIdx
  <2>6. BlockID(table[q], l, p) = t[p \div b + 1]
    BY <1>2, <1>4 DEF BlockID, BlockIdx
  <2>7. D[t[p \div b + 1]][p % b] = c[p + 1]
    BY <1>7 DEF Holds
  <2> QED
    BY <2>1, <2>5, <2>6, <2>7
<1>9. GetKVSlice(q, l, m) = [i \in 1..m |-> c[i]]
  BY <1>1, <1>2, <1>3, <1>8 DEF GetKVSlice
<1>10. c = [i \in 1..m |-> c[i]]
  BY <1>5
<1> QED
  BY <1>1, <1>2, <1>5, <1>9, <1>10

\* Attention gathers a sequence's own K/V, whatever is deleted in a pass
\* (paged_cache.go, GetKVSlice after StoreKVBatch).
THEOREM AttentionGathersOwn ==
  ASSUME NoFragments
  PROVE  Spec => []AttendsOwnKV
<1>1. Init => PagedInv /\ Contents
  BY InitPaged, InitContents
<1>2. PagedInv /\ Contents /\ [Next]_vars => (PagedInv /\ Contents)'
  BY PagedStep, ContentsStep
<1>3. PagedInv /\ Contents => AttendsOwnKV
  BY GathersOwn
<1> QED
  BY <1>1, <1>2, <1>3, PTL DEF Spec
=============================================================================
