---------------------- MODULE GPUBlockPoolContentProofs ----------------------
(***************************************************************************)
(* What the attention kernel reads through the GPU block pool.  When       *)
(* prefixes are shared in whole blocks, a live sequence reads its own K/V  *)
(* in every layer, whatever other sequences store, share, truncate, delete *)
(* or leave behind in between.                                             *)
(***************************************************************************)
EXTENDS GPUBlockPoolProofs

\* ShareBlocks is called with whole blocks.
Aligned == \A n \in ShareLens : n % BlockSize = 0

-----------------------------------------------------------------------------
(* Positions and blocks.                                                   *)

\* A position lies within the blocks of any greater length.
LEMMA WithinBlocks ==
  ASSUME NEW n \in Nat, NEW p \in Nat, p < n
  PROVE  p \div BlockSize \in Nat /\ (p \div BlockSize) + 1 <= BlocksFor(n)
BY PoolAssumption DEF BlocksFor

\* Block and offset determine the position.
LEMMA SlotPosition ==
  ASSUME NEW p \in Nat, NEW q \in Nat, p \div BlockSize = q \div BlockSize,
         p % BlockSize = q % BlockSize
  PROVE  p = q
BY PoolAssumption

\* A prefix of whole blocks ends where its last block ends.
LEMMA WholeBlocks ==
  ASSUME NEW h \in Nat, h % BlockSize = 0
  PROVE  /\ h \div BlockSize \in Nat /\ BlocksFor(h) = h \div BlockSize
         /\ \A p \in Nat : p < h <=> (p \div BlockSize) + 1 <= h \div BlockSize
BY PoolAssumption DEF BlocksFor

-----------------------------------------------------------------------------
(* Who may write a block.                                                  *)

\* Entry i of the table of s is its own, not one of a shared prefix.  A
\* deleted sequence that a pass created again has only entries of its own.
Owns(s, i) == life[s] # "live" \/ i > shared[s][2] \div BlockSize

\* In tables T an own entry names a block nobody else names, except those
\* that share it as a prefix.
Excl(T) ==
  \A s, q \in Seqs : \A i \in 1..Len(T[s]), j \in 1..Len(T[q]) :
    T[s][i] = T[q][j] /\ Owns(s, i) =>
      \/ q = s /\ j = i
      \/ ~Owns(q, j) /\ shared[q][1] = s

Exclusive == \A l \in Layers : Excl(table[l])

\* Shared prefixes are whole blocks, and no pass writes into them.
Prefixes ==
  \A s \in Seqs :
    /\ shared[s][2] % BlockSize = 0 /\ (shared[s][1] = None => shared[s][2] = 0)
    /\ shared[s][2] <= pos[s]
    /\ fwd.at # "idle" /\ fwd.seq = s => shared[s][2] <= fwd.start

\* Tables whose entries are among the old ones stay exclusive.
LEMMA ExclusiveThin ==
  ASSUME Exclusive, shared' = shared,
         \A l \in Layers, s \in Seqs : \A i \in 1..Len(table'[l][s]) :
            /\ i \in 1..Len(table[l][s]) /\ table'[l][s][i] = table[l][s][i]
            /\ life'[s] = life[s]
  PROVE  Exclusive'
<1> SUFFICES ASSUME NEW l \in Layers, NEW s \in Seqs, NEW q \in Seqs,
                    NEW i \in 1..Len(table'[l][s]), NEW j \in 1..Len(table'[l][q]),
                    table'[l][s][i] = table'[l][q][j], Owns(s, i)'
             PROVE  (q = s /\ j = i) \/ (~Owns(q, j)' /\ shared'[q][1] = s)
  BY DEF Exclusive, Excl
<1>1. /\ i \in 1..Len(table[l][s]) /\ table'[l][s][i] = table[l][s][i] /\ life'[s] = life[s]
      /\ j \in 1..Len(table[l][q]) /\ table'[l][q][j] = table[l][q][j] /\ life'[q] = life[q]
  OBVIOUS
<1>2. Owns(s, i)' = Owns(s, i) /\ Owns(q, j)' = Owns(q, j)
  BY <1>1 DEF Owns
<1>3. Excl(table[l])
  BY DEF Exclusive
<1>4. (q = s /\ j = i) \/ (~Owns(q, j) /\ shared[q][1] = s)
  BY <1>1, <1>2, <1>3, ZenonT(40) DEF Excl
<1> QED
  BY <1>2, <1>4

\* The blocks StoreKV takes are named by their new entries only.
LEMMA GrowEntries ==
  ASSUME PoolSound, NEW l \in Layers, NEW s \in Seqs, s \in tracked,
         NEW m \in 0..Len(freeList[l]), Len(table[l][s]) + m <= BlocksFor(MaxLen),
         Grow(l, s, m), tracked' = tracked
  PROVE  /\ \A i \in 1..Len(table[l][s]) : table'[l][s][i] = table[l][s][i]
         /\ \A i \in 1..Len(table'[l][s]) : i > Len(table[l][s]) =>
              \A q \in Seqs : \A j \in 1..Len(table'[l][q]) :
                table'[l][s][i] = table'[l][q][j] => q = s /\ j = i
<1>1. /\ Counted' /\ TablesBounded' /\ NoEntryNoBlocks'
      /\ table' \in [Layers -> [Seqs -> Seq(Blocks)]]
      /\ dirty' \in [Layers -> [Seqs -> BOOLEAN]]
      /\ Len(table'[l][s]) = Len(table[l][s]) + m
      /\ \A q \in Seqs \ {s} : table'[l][q] = table[l][q]
      /\ \A k \in Layers \ {l} : table'[k] = table[k]
  BY GrowSound
<1>2. PICK t \in Seq(Blocks) : t = table[l][s]
  BY DEF PoolSound, PoolTypes
<1>3. PICK F \in Seq(Blocks) : F = freeList[l]
  BY DEF PoolSound, Counted
<1>4. PICK new : new = Taken(l, m)
  OBVIOUS
<1>5. PICK f \in Nat : f = Len(F) /\ m \in 0..f /\ m \in Nat
  BY <1>3
<1>6. new = [i \in 1..m |-> F[f + 1 - i]]
  BY <1>3, <1>4, <1>5 DEF Taken
<1>7. \A i \in 1..m : f + 1 - i \in 1..f /\ F[f + 1 - i] \in Blocks
  BY <1>5
<1>8. new \in Seq(Blocks) /\ Len(new) = m /\ DOMAIN new = 1..m
  BY <1>5, <1>6, <1>7
<1>9. table'[l][s] = t \o new
  <2>1. table' = [table EXCEPT ![l][s] = @ \o new]
    BY <1>4 DEF Grow
  <2> QED
    BY <1>2, <2>1 DEF PoolSound, PoolTypes
<1>10. /\ \A i \in 1..Len(t) : table'[l][s][i] = t[i]
       /\ \A i \in 1..m : table'[l][s][Len(t) + i] = new[i]
  BY <1>8, <1>9, Joined
<1>11. ASSUME NEW i \in 1..Len(table'[l][s]), i > Len(t), NEW q \in Seqs,
              NEW j \in 1..Len(table'[l][q]), table'[l][s][i] = table'[l][q][j]
       PROVE  q = s /\ j = i
  <2>1. PICK k \in 1..m : i = Len(t) + k
    <3>1. Len(t) \in Nat /\ Len(table'[l][s]) = Len(t) + m
      BY <1>1, <1>2
    <3>2. i - Len(t) \in 1..m /\ i = Len(t) + (i - Len(t))
      BY <1>5, <1>11, <3>1
    <3> QED
      BY <3>2
  <2>2. PICK b \in Blocks : b = new[k] /\ table'[l][s][i] = b
    BY <1>8, <1>10, <2>1, SMTT(30)
  <2>3. refs'[l][b] = 1
    <3>1. refs' = [refs EXCEPT ![l] = [c \in Blocks |->
                   IF \E x \in DOMAIN new : new[x] = c THEN 1 ELSE refs[l][c]]]
      BY <1>4 DEF Grow
    <3>2. refs'[l] = [c \in Blocks |-> IF \E x \in DOMAIN new : new[x] = c THEN 1 ELSE refs[l][c]]
      BY <3>1 DEF PoolSound, Counted
    <3>3. \E x \in DOMAIN new : new[x] = b
      BY <1>8, <2>2
    <3> QED
      BY <3>2, <3>3, Zenon
  <2>4. PICK T : T = table'[l]
    OBVIOUS
  <2>5. PICK N : N = Naming(Entries(T), T, b)
    OBVIOUS
  <2>6. Cardinality(N) = 1
    <3>1. Exact(Entries(T), T, refs'[l], freeList'[l])
      BY <1>1, <2>4 DEF Counted
    <3> QED
      BY <2>3, <2>5, <3>1 DEF Exact
  <2>7. IsFiniteSet(N)
    BY <2>5, EntriesFinite, NamingFinite
  <2>8. PICK x : N = {x}
    BY <2>6, <2>7, FS_Singleton
  <2>9. T \in [Seqs -> Seq(Blocks)] /\ \A y \in Seqs : Len(T[y]) <= MaxLen
    <3>1. T \in [Seqs -> Seq(Blocks)] /\ \A y \in Seqs : Len(T[y]) <= BlocksFor(MaxLen)
      BY <1>1, <2>4 DEF TablesBounded
    <3>2. MaxLen \in Nat /\ BlocksFor(MaxLen) \in Nat /\ BlocksFor(MaxLen) <= MaxLen
      BY PoolAssumption, BlocksForType, BlocksForBound
    <3> QED
      BY <3>1, <3>2
  <2>10. ASSUME NEW y \in Seqs, NEW z \in 1..Len(T[y]), T[y][z] = b
         PROVE  <<y, z>> = x
    <3>1. z \in DOMAIN T[y] /\ z \in 1..MaxLen
      BY <2>9, PoolAssumption
    <3>2. <<y, z>> \in Entries(T)
      BY <3>1 DEF Entries
    <3>3. <<y, z>> \in N
      BY <2>5, <2>10, <3>2 DEF Naming
    <3> QED
      BY <2>8, <3>3
  <2>11. <<s, i>> = x /\ <<q, j>> = x
    BY <1>11, <2>2, <2>4, <2>10
  <2>12. <<s, i>> = <<q, j>>
    BY <2>11, Zenon
  <2> QED
    BY <2>12
<1> QED
  BY <1>2, <1>10, <1>11

\* Tables that grow stay exclusive.
LEMMA ExclusiveGrow ==
  ASSUME PoolSound, Exclusive, NEW l \in Layers, NEW s \in Seqs, s \in tracked,
         NEW m \in 0..Len(freeList[l]), Len(table[l][s]) + m <= BlocksFor(MaxLen),
         Grow(l, s, m), tracked' = tracked, shared' = shared, life' = life
  PROVE  Exclusive'
<1>1. /\ Counted' /\ TablesBounded' /\ NoEntryNoBlocks'
      /\ table' \in [Layers -> [Seqs -> Seq(Blocks)]]
      /\ dirty' \in [Layers -> [Seqs -> BOOLEAN]]
      /\ Len(table'[l][s]) = Len(table[l][s]) + m
      /\ \A q \in Seqs \ {s} : table'[l][q] = table[l][q]
      /\ \A k \in Layers \ {l} : table'[k] = table[k]
  BY GrowSound
<1>2. /\ \A i \in 1..Len(table[l][s]) : table'[l][s][i] = table[l][s][i]
      /\ \A i \in 1..Len(table'[l][s]) : i > Len(table[l][s]) =>
           \A q \in Seqs : \A j \in 1..Len(table'[l][q]) :
             table'[l][s][i] = table'[l][q][j] => q = s /\ j = i
  BY GrowEntries
<1>3. \A x, i : Owns(x, i)' = Owns(x, i)
  BY DEF Owns
<1>4. \A k \in Layers \ {l} : Excl(table[k])'
  <2> TAKE k \in Layers \ {l}
  <2>1. table'[k] = table[k] /\ Excl(table[k])
    BY <1>1 DEF Exclusive
  <2> QED
    BY <1>3, <2>1 DEF Excl
<1>5. Excl(table[l])'
  <2> SUFFICES ASSUME NEW x \in Seqs, NEW q \in Seqs,
                      NEW i \in 1..Len(table'[l][x]), NEW j \in 1..Len(table'[l][q]),
                      table'[l][x][i] = table'[l][q][j], Owns(x, i)
               PROVE  (q = x /\ j = i) \/ (~Owns(q, j) /\ shared[q][1] = x)
    BY <1>3 DEF Excl
  <2>1. PICK n \in Nat : n = Len(table[l][s]) /\ Len(table'[l][s]) = n + m /\ m \in Nat
    <3>1. table[l][s] \in Seq(Blocks) /\ freeList[l] \in Seq(Blocks)
      BY DEF PoolSound, PoolTypes, Counted
    <3> QED
      BY <1>1, <3>1
  <2>2. CASE x = s /\ i > n
    BY <1>2, <2>1, <2>2
  <2>3. CASE q = s /\ j > n
    BY <1>2, <2>1, <2>3
  <2>4. CASE ~(x = s /\ i > n) /\ ~(q = s /\ j > n)
    <3>1. i \in 1..Len(table[l][x]) /\ table'[l][x][i] = table[l][x][i]
      <4>1. CASE x = s
        <5>1. i \in 1..n
          BY <2>1, <2>4, <4>1
        <5> QED
          BY <1>2, <2>1, <4>1, <5>1
      <4>2. CASE x # s
        BY <1>1, <4>2
      <4> QED
        BY <4>1, <4>2
    <3>2. j \in 1..Len(table[l][q]) /\ table'[l][q][j] = table[l][q][j]
      <4>1. CASE q = s
        <5>1. j \in 1..n
          BY <2>1, <2>4, <4>1
        <5> QED
          BY <1>2, <2>1, <4>1, <5>1
      <4>2. CASE q # s
        BY <1>1, <4>2
      <4> QED
        BY <4>1, <4>2
    <3>3. Excl(table[l])
      BY DEF Exclusive
    <3> QED
      BY <3>1, <3>2, <3>3 DEF Excl
  <2> QED
    BY <2>2, <2>3, <2>4
<1> QED
  BY <1>4, <1>5 DEF Exclusive

-----------------------------------------------------------------------------
(* What the tables, the uploaded tables and the memory hold.               *)

\* A block table that need not be uploaded is the one on the GPU.
Uploaded ==
  \A l \in Layers, s \in Seqs :
    ~dirty[l][s] /\ btGPU[l][s] # << >> => btGPU[l][s] = table[l][s]

\* Tokens of s that layer l holds.
Held(l, s) == IF Flux(s) THEN Holds(l) ELSE pos[s]

\* Layer l of a live sequence holds its own K/V at every position.
HoldsOwn(l, s) ==
  \A p \in Nat : p < Held(l, s) =>
    mem[l][BlockOf(table[l][s], p)][p % BlockSize] = Expected(s, p)

OwnContent ==
  fwd.at # "dead" =>
    \A l \in Layers, s \in Seqs : life[s] = "live" /\ s \in tracked => HoldsOwn(l, s)

ContentInv == Exclusive /\ Prefixes /\ Uploaded /\ OwnContent

\* The entries of the new tables are entries of the old ones.
Thinner ==
  \A l \in Layers, s \in Seqs : \A i \in 1..Len(table'[l][s]) :
    i \in 1..Len(table[l][s]) /\ table'[l][s][i] = table[l][s][i]

\* A layer holds a number of tokens.
LEMMA HeldType ==
  ASSUME CallerTypes, NEW l, NEW s \in Seqs
  PROVE  Held(l, s) \in Nat
BY DEF CallerTypes, Held, Holds

\* What is held of unchanged memory through the same entries stays its own.
LEMMA SameContent ==
  ASSUME NEW l \in Layers, NEW s \in Seqs, HoldsOwn(l, s), mem'[l] = mem[l], shared'[s] = shared[s],
         Held(l, s) \in Nat, Held(l, s)' \in Nat, Held(l, s)' <= Held(l, s),
         \A i \in 1..BlocksFor(Held(l, s)') : table'[l][s][i] = table[l][s][i]
  PROVE  HoldsOwn(l, s)'
<1>1. PICK h \in Nat : h = Held(l, s)' /\ h <= Held(l, s)
  OBVIOUS
<1> SUFFICES ASSUME NEW p \in Nat, p < h
             PROVE  mem'[l][BlockOf(table'[l][s], p)][p % BlockSize] = Expected(s, p)'
  BY <1>1 DEF HoldsOwn, BlockOf
<1>2. PICK i : i = (p \div BlockSize) + 1
  OBVIOUS
<1>3. i \in 1..BlocksFor(h)
  BY <1>2, WithinBlocks, BlocksForType
<1>4. table'[l][s][i] = table[l][s][i]
  BY <1>1, <1>3
<1>5. BlockOf(table'[l][s], p) = BlockOf(table[l][s], p)
  BY <1>2, <1>4 DEF BlockOf
<1>6. p < Held(l, s)
  BY <1>1
<1>7. mem[l][BlockOf(table[l][s], p)][p % BlockSize] = Expected(s, p)
  BY <1>6 DEF HoldsOwn
<1>8. Expected(s, p)' = Expected(s, p)
  BY DEF Expected
<1> QED
  BY <1>5, <1>7, <1>8

\* CreateSequence uploads nothing.
LEMMA CreateUploaded ==
  ASSUME PoolSound, Uploaded, NEW s \in Seqs, s \notin tracked, CreateSequence(s)
  PROVE  Uploaded' /\ mem' = mem
<1>1. mem' = mem /\ table' = table
  BY CreateSound DEF CreateSequence
<1>2. ASSUME NEW l \in Layers, NEW q \in Seqs, ~dirty'[l][q], btGPU'[l][q] # << >>
      PROVE  btGPU'[l][q] = table'[l][q]
  <2>1. /\ dirty' = [k \in Layers |-> [dirty[k] EXCEPT ![s] = FALSE]]
        /\ btGPU' = [k \in Layers |-> [btGPU[k] EXCEPT ![s] = << >>]]
    BY DEF CreateSequence
  <2>2. dirty[l] \in [Seqs -> BOOLEAN] /\ btGPU[l] \in [Seqs -> Seq(Blocks)]
    BY DEF PoolSound, PoolTypes
  <2>3. btGPU'[l][s] = << >>
    BY <2>1, <2>2
  <2>4. q # s
    BY <1>2, <2>3
  <2>5. dirty'[l][q] = dirty[l][q] /\ btGPU'[l][q] = btGPU[l][q]
    BY <2>1, <2>2, <2>4
  <2> QED
    BY <1>1, <1>2, <2>5 DEF Uploaded
<1> QED
  BY <1>1, <1>2 DEF Uploaded

\* DeleteSequence.
LEMMA DeleteThin ==
  ASSUME PoolSound, Uploaded, NEW s \in Seqs, DeleteSequence(s)
  PROVE  Uploaded' /\ Thinner /\ mem' = mem /\ \A l \in Layers : table'[l][s] = << >>
<1>1. CASE s \notin tracked
  <2>1. UNCHANGED poolVars
    BY <1>1 DEF DeleteSequence
  <2>2. \A l \in Layers : table'[l][s] = << >>
    BY <1>1, <2>1 DEF PoolSound, NoEntryNoBlocks, poolVars
  <2> QED
    BY <2>1, <2>2 DEF poolVars, Uploaded, Thinner
<1>2. CASE s \in tracked
  <2>1. /\ dirty' = [l \in Layers |-> [dirty[l] EXCEPT ![s] = FALSE]]
        /\ btGPU' = [l \in Layers |-> [btGPU[l] EXCEPT ![s] = << >>]]
        /\ table' = [l \in Layers |-> [table[l] EXCEPT ![s] = << >>]]
        /\ mem' = mem
    BY <1>2 DEF DeleteSequence
  <2>2. \A l \in Layers : /\ dirty[l] \in [Seqs -> BOOLEAN] /\ btGPU[l] \in [Seqs -> Seq(Blocks)]
                          /\ table[l] \in [Seqs -> Seq(Blocks)]
    BY DEF PoolSound, PoolTypes
  <2>3. \A l \in Layers : btGPU'[l][s] = << >> /\ table'[l][s] = << >>
    BY <2>1, <2>2
  <2>4. \A l \in Layers, q \in Seqs : q # s => /\ dirty'[l][q] = dirty[l][q]
                                                /\ btGPU'[l][q] = btGPU[l][q]
                                                /\ table'[l][q] = table[l][q]
    BY <2>1, <2>2
  <2>5. Uploaded'
    BY <2>3, <2>4 DEF Uploaded
  <2>6. Thinner
    BY <2>3, <2>4 DEF Thinner
  <2> QED
    BY <2>1, <2>3, <2>5, <2>6
<1> QED
  BY <1>1, <1>2

\* TruncateSequence.
LEMMA TruncateThin ==
  ASSUME PoolSound, Uploaded, NEW s \in Seqs, NEW len \in Nat, TruncateSequence(s, len)
  PROVE  Uploaded' /\ Thinner /\ mem' = mem
<1>1. CASE s \notin tracked \/ len >= seqLen[s]
  <2>1. UNCHANGED poolVars
    BY <1>1 DEF TruncateSequence
  <2> QED
    BY <2>1 DEF poolVars, Uploaded, Thinner
<1>2. CASE ~(s \notin tracked \/ len >= seqLen[s])
  <2> DEFINE keep == BlocksFor(len)
             cut(l) == Len(table[l][s]) > keep
  <2>1. /\ table' = [l \in Layers |-> [table[l] EXCEPT
                       ![s] = IF cut(l) THEN SubSeq(table[l][s], 1, keep) ELSE table[l][s]]]
        /\ dirty' = [l \in Layers |-> [dirty[l] EXCEPT ![s] = dirty[l][s] \/ cut(l)]]
        /\ UNCHANGED <<tracked, btGPU, mem>>
    BY <1>2 DEF TruncateSequence
  <2>2. \A l \in Layers : dirty[l] \in [Seqs -> BOOLEAN] /\ table[l] \in [Seqs -> Seq(Blocks)]
    BY DEF PoolSound, PoolTypes
  <2>3. keep \in Nat
    BY BlocksForType
  <2>4. ASSUME NEW l \in Layers
        PROVE  /\ table'[l][s] = IF cut(l) THEN SubSeq(table[l][s], 1, keep) ELSE table[l][s]
               /\ cut(l) => dirty'[l][s]
               /\ ~cut(l) => dirty'[l][s] = dirty[l][s]
    <3>1. table'[l][s] = IF cut(l) THEN SubSeq(table[l][s], 1, keep) ELSE table[l][s]
      BY <2>1, <2>2, Zenon
    <3>2. dirty'[l][s] = (dirty[l][s] \/ cut(l))
      BY <2>1, <2>2, Zenon
    <3>3. dirty[l][s] \in BOOLEAN
      BY <2>2
    <3> QED
      BY <3>1, <3>2, <3>3
  <2>5. \A l \in Layers, q \in Seqs : q # s => dirty'[l][q] = dirty[l][q] /\ table'[l][q] = table[l][q]
    BY <2>1, <2>2, Zenon
  <2>6. ASSUME NEW l \in Layers, NEW i \in 1..Len(table'[l][s])
        PROVE  i \in 1..Len(table[l][s]) /\ table'[l][s][i] = table[l][s][i]
    <3>1. PICK t \in Seq(Blocks) : t = table[l][s]
      BY <2>2
    <3>2. CASE cut(l)
      <4>1. table'[l][s] = SubSeq(t, 1, keep) /\ Len(t) > keep
        BY <2>4, <3>1, <3>2
      <4>2. i \in 1..keep /\ SubSeq(t, 1, keep)[i] = t[i]
        BY <2>3, <4>1
      <4> QED
        BY <2>3, <3>1, <4>1, <4>2
    <3>3. CASE ~cut(l)
      BY <2>4, <3>3
    <3> QED
      BY <3>2, <3>3
  <2>7. Thinner
    BY <2>5, <2>6 DEF Thinner
  <2>8. Uploaded'
    <3> SUFFICES ASSUME NEW l \in Layers, NEW q \in Seqs, ~dirty'[l][q], btGPU'[l][q] # << >>
                 PROVE  btGPU'[l][q] = table'[l][q]
      BY DEF Uploaded
    <3>1. CASE q = s
      <4>1. ~cut(l)
        BY <2>4, <3>1
      <4>2. ~dirty[l][s] /\ table'[l][s] = table[l][s]
        BY <2>4, <3>1, <4>1
      <4> QED
        BY <2>1, <3>1, <4>2 DEF Uploaded
    <3>2. CASE q # s
      BY <2>1, <2>5, <3>2 DEF Uploaded
    <3> QED
      BY <3>1, <3>2
  <2> QED
    BY <2>1, <2>7, <2>8
<1> QED
  BY <1>1, <1>2

\* Growing a table marks it for upload.
LEMMA GrowUploaded ==
  ASSUME PoolSound, Uploaded, NEW l \in Layers, NEW s \in Seqs, NEW m \in Nat, Grow(l, s, m),
         btGPU' = btGPU
  PROVE  Uploaded'
<1>1. table \in [Layers -> [Seqs -> Seq(Blocks)]] /\ dirty \in [Layers -> [Seqs -> BOOLEAN]]
  BY DEF PoolSound, PoolTypes
<1>2. PICK new : new = Taken(l, m)
  OBVIOUS
<1>3. table' = [table EXCEPT ![l][s] = @ \o new]
  BY <1>2 DEF Grow
<1>4. dirty' = [dirty EXCEPT ![l][s] = @ \/ m > 0]
  BY DEF Grow
<1>5. ASSUME NEW k \in Layers, NEW q \in Seqs, ~(k = l /\ q = s)
      PROVE  table'[k][q] = table[k][q] /\ dirty'[k][q] = dirty[k][q]
  <2>1. table'[k][q] = table[k][q]
    BY <1>1, <1>3, <1>5
  <2>2. dirty'[k][q] = dirty[k][q]
    BY <1>1, <1>4, <1>5, Zenon
  <2> QED
    BY <2>1, <2>2
<1>6. ASSUME ~dirty'[l][s] PROVE ~dirty[l][s] /\ table'[l][s] = table[l][s]
  <2>1. dirty'[l][s] = (dirty[l][s] \/ m > 0)
    BY <1>1, <1>4, Zenon
  <2>2. ~dirty[l][s] /\ ~(m > 0)
    BY <1>6, <2>1, Zenon
  <2>3. m = 0
    BY <2>2
  <2>4. new = [i \in 1..0 |-> freeList[l][Len(freeList[l]) + 1 - i]]
    BY <1>2, <2>3 DEF Taken
  <2>5. new = << >>
    BY <2>4
  <2>6. PICK t \in Seq(Blocks) : t = table[l][s]
    BY <1>1
  <2>7. table'[l][s] = t \o << >>
    BY <1>1, <1>3, <2>5, <2>6
  <2> QED
    BY <2>2, <2>6, <2>7
<1> QED
  BY <1>5, <1>6 DEF Uploaded

-----------------------------------------------------------------------------
(* The steps.                                                              *)

\* NewGPUBlockPool.
LEMMA InitContent ==
  ASSUME Init
  PROVE  ContentInv
<1>1. \A l \in Layers, s \in Seqs : table[l][s] = << >> /\ btGPU[l][s] = << >>
  BY DEF Init
<1>2. tracked = {} /\ fwd.at = "idle" /\ \A s \in Seqs : shared[s] = <<None, 0>> /\ pos[s] = 0
  BY DEF Init, Idle
<1>3. Exclusive
  BY <1>1 DEF Exclusive, Excl
<1>4. Prefixes
  <2>1. 0 % BlockSize = 0
    BY PoolAssumption
  <2> QED
    BY <1>2, <2>1 DEF Prefixes
<1>5. Uploaded /\ OwnContent
  BY <1>1, <1>2 DEF Uploaded, OwnContent
<1> QED
  BY <1>3, <1>4, <1>5 DEF ContentInv

\* AddSequence.
LEMMA AddContent ==
  ASSUME PoolInv, ContentInv, NEW s \in Seqs, Add(s)
  PROVE  ContentInv'
<1>1. /\ life[s] = "new" /\ life' = [life EXCEPT ![s] = "live"]
      /\ shared' = shared /\ pos' = pos /\ fwd' = fwd
  BY DEF Add
<1>2. s \notin tracked /\ pos[s] = 0 /\ (fwd.at # "idle" => fwd.seq # s)
  BY <1>1 DEF PoolInv, Unrun, PassFields
<1>3. /\ table' = table /\ mem' = mem /\ Uploaded'
      /\ \A q \in Seqs \ {s} : q \in tracked' => q \in tracked
  <2>1. CASE up
    <3>1. CreateSequence(s)
      BY <2>1 DEF Add
    <3> QED
      BY <1>2, <3>1, CreateSound, CreateUploaded DEF PoolInv, ContentInv
  <2>2. CASE ~up
    <3>1. UNCHANGED poolVars
      BY <2>2 DEF Add
    <3> QED
      BY <3>1 DEF poolVars, Uploaded, ContentInv
  <2> QED
    BY <2>1, <2>2
<1>4. \A q \in Seqs \ {s} : life'[q] = life[q]
  BY <1>1 DEF PoolInv, CallerTypes
<1>5. \A l \in Layers : table[l][s] = << >>
  BY <1>2 DEF PoolInv, PoolSound, NoEntryNoBlocks
<1>6. Exclusive'
  <2>1. ASSUME NEW l \in Layers, NEW q \in Seqs, NEW i \in 1..Len(table'[l][q])
        PROVE  /\ i \in 1..Len(table[l][q]) /\ table'[l][q][i] = table[l][q][i]
               /\ life'[q] = life[q]
    <3>1. q # s
      BY <1>3, <1>5, <2>1
    <3> QED
      BY <1>3, <1>4, <3>1
  <2> QED
    BY <1>1, <2>1, ExclusiveThin DEF ContentInv
<1>7. Prefixes'
  BY <1>1 DEF ContentInv, Prefixes
<1>8. OwnContent'
  <2> SUFFICES ASSUME fwd.at # "dead", NEW l \in Layers, NEW q \in Seqs, life'[q] = "live", q \in tracked'
               PROVE  HoldsOwn(l, q)'
    BY <1>1 DEF OwnContent
  <2>1. Held(l, q)' = Held(l, q) /\ Held(l, q) \in Nat
    BY <1>1, HeldType DEF Held, Flux, Holds, Stored, PoolInv
  <2>2. CASE q = s
    <3>1. Held(l, s) = 0
      BY <1>2 DEF Held, Flux
    <3> QED
      BY <2>1, <2>2, <3>1 DEF HoldsOwn
  <2>3. CASE q # s
    <3>1. HoldsOwn(l, q)
      BY <1>3, <1>4, <2>3 DEF ContentInv, OwnContent
    <3>2. Held(l, q)' \in Nat /\ Held(l, q)' <= Held(l, q)
      BY <2>1
    <3>3. \A i \in 1..BlocksFor(Held(l, q)') : table'[l][q][i] = table[l][q][i]
      BY <1>3
    <3>4. mem' = mem /\ shared'[q] = shared[q]
      BY <1>1, <1>3
    <3> QED
      BY <2>1, <3>1, <3>2, <3>3, <3>4, SameContent
  <2> QED
    BY <2>2, <2>3
<1> QED
  BY <1>3, <1>6, <1>7, <1>8 DEF ContentInv

\* RemoveSequence.
LEMMA RemoveContent ==
  ASSUME PoolInv, ContentInv, NEW s \in Seqs, Remove(s)
  PROVE  ContentInv'
<1>1. /\ life[s] = "live" /\ life' = [life EXCEPT ![s] = "gone"] /\ DeleteSequence(s)
      /\ shared' = shared /\ pos' = pos /\ fwd' = fwd
  BY DEF Remove
<1>2. Uploaded' /\ Thinner /\ mem' = mem /\ \A l \in Layers : table'[l][s] = << >>
  BY <1>1, DeleteThin DEF PoolInv, ContentInv
<1>3. /\ tracked' = tracked \ {s}
      /\ \A q \in Seqs \ {s}, l \in Layers : table'[l][q] = table[l][q]
  BY <1>1, DeleteSound DEF PoolInv
<1>4. life'[s] = "gone" /\ \A q \in Seqs \ {s} : life'[q] = life[q]
  BY <1>1 DEF PoolInv, CallerTypes
<1>5. Exclusive'
  <2>1. ASSUME NEW l \in Layers, NEW q \in Seqs, NEW i \in 1..Len(table'[l][q])
        PROVE  /\ i \in 1..Len(table[l][q]) /\ table'[l][q][i] = table[l][q][i]
               /\ life'[q] = life[q]
    <3>1. q # s
      BY <1>2, <2>1
    <3> QED
      BY <1>2, <1>4, <3>1 DEF Thinner
  <2> QED
    BY <1>1, <2>1, ExclusiveThin DEF ContentInv
<1>6. Prefixes'
  BY <1>1 DEF ContentInv, Prefixes
<1>7. OwnContent'
  <2> SUFFICES ASSUME fwd.at # "dead", NEW l \in Layers, NEW q \in Seqs, life'[q] = "live", q \in tracked'
               PROVE  HoldsOwn(l, q)'
    BY <1>1 DEF OwnContent
  <2>1. Held(l, q)' = Held(l, q) /\ Held(l, q) \in Nat
    BY <1>1, HeldType DEF Held, Flux, Holds, Stored, PoolInv
  <2>2. q # s /\ q \in tracked /\ life[q] = "live"
    BY <1>3, <1>4
  <2>3. HoldsOwn(l, q)
    BY <2>2 DEF ContentInv, OwnContent
  <2>4. Held(l, q)' \in Nat /\ Held(l, q)' <= Held(l, q)
    BY <2>1
  <2>5. \A i \in 1..BlocksFor(Held(l, q)') : table'[l][q][i] = table[l][q][i]
    BY <1>3, <2>2
  <2>6. mem' = mem /\ shared'[q] = shared[q]
    BY <1>1, <1>2
  <2> QED
    BY <2>1, <2>3, <2>4, <2>5, <2>6, SameContent
<1> QED
  BY <1>2, <1>5, <1>6, <1>7 DEF ContentInv

\* A pass begins.
LEMMA PickContent ==
  ASSUME PoolInv, ContentInv, NEW s \in Seqs, NEW n \in Chunks, Pick(s, n)
  PROVE  ContentInv'
<1>1. /\ fwd.at = "idle" /\ life' = life /\ shared' = shared /\ pos' = pos /\ UNCHANGED poolVars
      /\ fwd' = [at |-> "ensure", seq |-> s, start |-> pos[s], n |-> n, layer |-> 1]
  BY DEF Pick
<1>2. fwd'.at = "ensure" /\ fwd'.seq = s /\ fwd'.start = pos[s]
  BY <1>1
<1>3. Exclusive'
  BY <1>1, ExclusiveThin DEF ContentInv, poolVars
<1>4. Prefixes'
  BY <1>1, <1>2 DEF ContentInv, Prefixes
<1>5. Uploaded'
  BY <1>1 DEF ContentInv, Uploaded, poolVars
<1>6. OwnContent'
  <2> SUFFICES ASSUME NEW l \in Layers, NEW q \in Seqs, life[q] = "live", q \in tracked
               PROVE  HoldsOwn(l, q)'
    BY <1>1 DEF OwnContent, poolVars
  <2>1. HoldsOwn(l, q)
    BY <1>1 DEF ContentInv, OwnContent
  <2>2. Held(l, q)' = pos[q] /\ Held(l, q) = pos[q] /\ pos[q] \in Nat
    BY <1>1, <1>2 DEF Held, Flux, PoolInv, CallerTypes
  <2>3. Held(l, q) \in Nat /\ Held(l, q)' \in Nat /\ Held(l, q)' <= Held(l, q)
    BY <2>2
  <2>4. /\ mem' = mem /\ shared'[q] = shared[q]
        /\ \A i \in 1..BlocksFor(Held(l, q)') : table'[l][q][i] = table[l][q][i]
    BY <1>1 DEF poolVars
  <2> QED
    BY <2>1, <2>3, <2>4, SameContent
<1> QED
  BY <1>3, <1>4, <1>5, <1>6 DEF ContentInv

\* The head of a pass.
LEMMA EnsureContent ==
  ASSUME PoolInv, ContentInv, EnsureSequence
  PROVE  ContentInv'
<1>1. /\ fwd.at = "ensure" /\ fwd' = [fwd EXCEPT !.at = "store"]
      /\ life' = life /\ shared' = shared /\ pos' = pos
  BY DEF EnsureSequence
<1>2. /\ fwd.seq \in Seqs /\ fwd.layer = 1
      /\ (life[fwd.seq] = "live" => pos[fwd.seq] = fwd.start)
  BY <1>1 DEF PoolInv, PassFields
<1>3. PICK s \in Seqs : s = fwd.seq
  BY <1>2
<1>4. /\ table' = table /\ mem' = mem /\ Uploaded' /\ tracked' = tracked \cup {s}
  <2>1. CASE s \in tracked
    <3>1. UNCHANGED poolVars
      BY <1>3, <2>1 DEF EnsureSequence
    <3> QED
      BY <2>1, <3>1 DEF poolVars, Uploaded, ContentInv
  <2>2. CASE s \notin tracked
    <3>1. CreateSequence(s)
      BY <1>3, <2>2 DEF EnsureSequence
    <3> QED
      BY <2>2, <3>1, CreateSound, CreateUploaded DEF PoolInv, ContentInv
  <2> QED
    BY <2>1, <2>2
<1>5. fwd'.at = "store" /\ fwd'.seq = s /\ fwd'.start = fwd.start /\ fwd'.n = fwd.n /\ fwd'.layer = 1
  BY <1>1, <1>2, <1>3 DEF PoolInv, CallerTypes
<1>6. Exclusive'
  BY <1>1, <1>4, ExclusiveThin DEF ContentInv
<1>7. Prefixes'
  BY <1>1, <1>3, <1>5 DEF ContentInv, Prefixes
<1>8. OwnContent'
  <2> SUFFICES ASSUME NEW l \in Layers, NEW q \in Seqs, life[q] = "live", q \in tracked'
               PROVE  HoldsOwn(l, q)'
    BY <1>1 DEF OwnContent
  <2>1. Held(l, q)' = pos[q] /\ Held(l, q) = pos[q] /\ pos[q] \in Nat
    <3>1. Held(l, q) = pos[q] /\ pos[q] \in Nat
      BY <1>1 DEF Held, Flux, PoolInv, CallerTypes
    <3>2. CASE q # s
      BY <1>1, <1>5, <3>1, <3>2 DEF Held, Flux
    <3>3. CASE q = s
      <4>1. l \in Nat /\ l >= 1
        BY PoolAssumption DEF Layers
      <4>2. ~Stored(l)'
        BY <1>5, <4>1 DEF Stored
      <4>3. Holds(l)' = fwd.start /\ Flux(s)'
        BY <1>5, <4>2 DEF Holds, Flux
      <4>4. Held(l, s)' = fwd.start
        BY <4>3 DEF Held
      <4> QED
        BY <1>2, <1>3, <3>1, <3>3, <4>4
    <3> QED
      BY <3>1, <3>2, <3>3
  <2>2. CASE q \in tracked
    <3>1. HoldsOwn(l, q)
      BY <1>1, <2>2 DEF ContentInv, OwnContent
    <3>2. Held(l, q) \in Nat /\ Held(l, q)' \in Nat /\ Held(l, q)' <= Held(l, q)
      BY <2>1
    <3>3. /\ mem' = mem /\ shared'[q] = shared[q]
          /\ \A i \in 1..BlocksFor(Held(l, q)') : table'[l][q][i] = table[l][q][i]
      BY <1>1, <1>4
    <3> QED
      BY <3>1, <3>2, <3>3, SameContent
  <2>3. CASE q \notin tracked
    <3>1. pos[q] = 0
      BY <2>3 DEF PoolInv, Unrun
    <3> QED
      BY <2>1, <3>1 DEF HoldsOwn
  <2> QED
    BY <2>2, <2>3
<1> QED
  BY <1>4, <1>6, <1>7, <1>8 DEF ContentInv

\* ShareBlocks of whole blocks.
LEMMA ShareContent ==
  ASSUME Aligned, PoolInv, ContentInv, NEW src \in Seqs, NEW dst \in Seqs, NEW n \in ShareLens,
         Share(src, dst, n)
  PROVE  ContentInv'
<1>1. /\ fwd.at = "idle" /\ src # dst /\ life[src] = "live" /\ life[dst] = "live"
      /\ pos[dst] = 0 /\ n <= pos[src] /\ CanShare(src, dst, n) /\ ShareBlocks(src, dst, n)
      /\ shared' = [shared EXCEPT ![dst] = <<src, n>>] /\ pos' = [pos EXCEPT ![dst] = n]
      /\ shared[src][1] = None /\ life' = life /\ fwd' = fwd
  BY DEF Share
<1>2. n \in Nat /\ n % BlockSize = 0
  BY PoolAssumption DEF Aligned
<1>3. src \in tracked /\ dst \in tracked
  BY <1>1 DEF CanShare
<1>4. \A q \in Seqs : ~Flux(q) /\ ~Flux(q)'
  BY <1>1 DEF Flux
<1>5. \A l \in Layers : table[l][dst] = << >>
  <2>1. \A l \in Layers : Len(table[l][dst]) = 0 /\ table[l][dst] \in Seq(Blocks)
    BY <1>1, <1>3, <1>4, BlocksForZero DEF PoolInv, Settled, PoolSound, PoolTypes
  <2> QED
    BY <2>1
<1>6. PICK k \in Nat : k = BlocksFor(n) /\ k = n \div BlockSize
  BY <1>2, WholeBlocks
<1>7. mem' = mem /\ btGPU' = btGPU /\ tracked' = tracked
  BY <1>1 DEF ShareBlocks
<1>8. ASSUME NEW l \in Layers
      PROVE  /\ \A q \in Seqs \ {dst} : table'[l][q] = table[l][q] /\ dirty'[l][q] = dirty[l][q]
             /\ Len(table'[l][dst]) = k /\ k <= Len(table[l][src]) /\ dirty'[l][dst]
             /\ \A i \in 1..k : table'[l][dst][i] = table[l][src][i]
  <2>1. PICK T \in [Seqs -> Seq(Blocks)] : T = table[l]
    BY DEF PoolInv, PoolSound, PoolTypes
  <2>2. PICK u \in Seq(Blocks) : u = T[src] /\ k <= Len(u)
    BY <1>1, <1>6, <2>1 DEF CanShare
  <2>3. PICK pre : pre = SubSeq(u, 1, k)
    OBVIOUS
  <2>4. pre \in Seq(Blocks) /\ Len(pre) = k /\ \A i \in 1..k : pre[i] = u[i]
    BY <2>2, <2>3
  <2>5. table'[l] = [T EXCEPT ![dst] = T[dst] \o pre]
    BY <1>1, <1>6, <2>1, <2>2, <2>3 DEF ShareBlocks
  <2>6. T[dst] \o pre = pre
    BY <1>5, <2>1, <2>4, SMTT(30)
  <2>7. table'[l][dst] = pre /\ \A q \in Seqs \ {dst} : table'[l][q] = T[q]
    BY <2>5, <2>6
  <2>8. dirty'[l][dst] = TRUE /\ \A q \in Seqs \ {dst} : dirty'[l][q] = dirty[l][q]
    <3>1. dirty' = [x \in Layers |-> [dirty[x] EXCEPT ![dst] = TRUE]]
      BY <1>1 DEF ShareBlocks
    <3> QED
      BY <3>1, Zenon DEF PoolInv, PoolSound, PoolTypes
  <2> QED
    BY <2>1, <2>2, <2>4, <2>7, <2>8
<1>9. /\ shared'[dst] = <<src, n>> /\ \A q \in Seqs \ {dst} : shared'[q] = shared[q]
      /\ pos'[dst] = n /\ \A q \in Seqs \ {dst} : pos'[q] = pos[q]
  BY <1>1 DEF PoolInv, CallerTypes
<1>10. shared[src][2] = 0
  BY <1>1 DEF ContentInv, Prefixes
<1>11. \A q \in Seqs \ {dst}, i \in Nat : Owns(q, i)' = Owns(q, i)
  BY <1>1, <1>9 DEF Owns
<1>12. \A i \in 1..k : ~Owns(dst, i)' /\ Owns(src, i)
  <2> TAKE i \in 1..k
  <2>1. shared'[dst][2] = n /\ life'[dst] = "live"
    BY <1>1, <1>9
  <2>2. ~(i > n \div BlockSize)
    BY <1>6
  <2>3. 0 \div BlockSize = 0 /\ i > 0
    BY PoolAssumption
  <2> QED
    BY <1>10, <2>1, <2>2, <2>3 DEF Owns
<1>13. Exclusive'
  <2> SUFFICES ASSUME NEW l \in Layers, NEW s \in Seqs, NEW q \in Seqs,
                      NEW i \in 1..Len(table'[l][s]), NEW j \in 1..Len(table'[l][q]),
                      table'[l][s][i] = table'[l][q][j], Owns(s, i)'
               PROVE  (q = s /\ j = i) \/ (~Owns(q, j)' /\ shared'[q][1] = s)
    BY DEF Exclusive, Excl
  <2>1. Excl(table[l])
    BY DEF ContentInv, Exclusive
  <2>2. i \in Nat /\ j \in Nat
    OBVIOUS
  <2>3. s # dst
    BY <1>8, <1>12
  <2>4. Owns(s, i) /\ i \in 1..Len(table[l][s]) /\ table'[l][s][i] = table[l][s][i]
    BY <1>8, <1>11, <2>2, <2>3
  <2>5. CASE q = dst
    <3>1. j \in 1..k
      BY <1>8, <2>5
    <3>2. Len(table[l][src]) \in Nat
      BY DEF PoolInv, PoolSound, PoolTypes
    <3>3. j \in 1..Len(table[l][src]) /\ table'[l][dst][j] = table[l][src][j]
      BY <1>8, <3>1, <3>2
    <3>4. (src = s /\ j = i) \/ (~Owns(src, j) /\ shared[src][1] = s)
      BY <2>1, <2>4, <2>5, <3>3 DEF Excl
    <3>5. src = s
      BY <1>12, <3>1, <3>4
    <3> QED
      BY <1>9, <1>12, <2>5, <3>1, <3>5
  <2>6. CASE q # dst
    <3>1. j \in 1..Len(table[l][q]) /\ table'[l][q][j] = table[l][q][j]
      BY <1>8, <2>6
    <3>2. (q = s /\ j = i) \/ (~Owns(q, j) /\ shared[q][1] = s)
      BY <2>1, <2>4, <3>1 DEF Excl
    <3> QED
      BY <1>9, <1>11, <2>2, <2>6, <3>2
  <2> QED
    BY <2>5, <2>6
<1>14. Prefixes'
  <2> SUFFICES ASSUME NEW s \in Seqs
               PROVE  /\ shared'[s][2] % BlockSize = 0 /\ (shared'[s][1] = None => shared'[s][2] = 0)
                      /\ shared'[s][2] <= pos'[s]
    BY <1>1 DEF Prefixes
  <2>1. CASE s = dst
    <3>1. shared'[s][2] = n /\ shared'[s][1] = src /\ src # None /\ pos'[s] = n
      BY <1>9, <2>1, PoolAssumption
    <3> QED
      BY <1>2, <3>1
  <2>2. CASE s # dst
    BY <1>9, <2>2 DEF ContentInv, Prefixes
  <2> QED
    BY <2>1, <2>2
<1>15. Uploaded'
  <2> SUFFICES ASSUME NEW l \in Layers, NEW q \in Seqs, ~dirty'[l][q], btGPU'[l][q] # << >>
               PROVE  btGPU'[l][q] = table'[l][q]
    BY DEF Uploaded
  <2>1. q # dst
    BY <1>8
  <2>2. ~dirty[l][q] /\ table'[l][q] = table[l][q] /\ btGPU'[l][q] = btGPU[l][q]
    BY <1>7, <1>8, <2>1
  <2> QED
    BY <2>2 DEF ContentInv, Uploaded
<1>16. OwnContent'
  <2> SUFFICES ASSUME NEW l \in Layers, NEW q \in Seqs, life[q] = "live", q \in tracked
               PROVE  HoldsOwn(l, q)'
    BY <1>1, <1>7 DEF OwnContent
  <2>1. Held(l, q)' = pos'[q] /\ Held(l, q) = pos[q] /\ Held(l, src) = pos[src]
    BY <1>4 DEF Held
  <2>2. HoldsOwn(l, q) /\ HoldsOwn(l, src)
    BY <1>1, <1>3 DEF ContentInv, OwnContent
  <2>3. CASE q = dst
    <3> SUFFICES ASSUME NEW p \in Nat, p < n
                 PROVE  mem[l][BlockOf(table'[l][dst], p)][p % BlockSize] = Expected(dst, p)'
      BY <1>7, <1>9, <2>1, <2>3 DEF HoldsOwn, BlockOf
    <3>1. PICK i : i = (p \div BlockSize) + 1
      OBVIOUS
    <3>8. p \div BlockSize \in Nat /\ (p \div BlockSize) + 1 <= BlocksFor(n)
      BY <1>2, WithinBlocks
    <3>2. i \in 1..k
      BY <1>6, <3>1, <3>8
    <3>3. BlockOf(table'[l][dst], p) = BlockOf(table[l][src], p)
      BY <1>8, <3>1, <3>2 DEF BlockOf
    <3>4. p < Held(l, src)
      BY <1>1, <1>2, <2>1 DEF PoolInv, CallerTypes
    <3>5. mem[l][BlockOf(table[l][src], p)][p % BlockSize] = Expected(src, p)
      BY <2>2, <3>4 DEF HoldsOwn
    <3>6. Expected(src, p) = src
      BY <1>10 DEF Expected
    <3>7. Expected(dst, p)' = src
      BY <1>9 DEF Expected
    <3> QED
      BY <3>3, <3>5, <3>6, <3>7
  <2>4. CASE q # dst
    <3>1. Held(l, q) \in Nat /\ Held(l, q)' \in Nat /\ Held(l, q)' <= Held(l, q)
      BY <1>9, <2>1, <2>4 DEF PoolInv, CallerTypes
    <3>2. /\ mem' = mem /\ shared'[q] = shared[q]
          /\ \A i \in 1..BlocksFor(Held(l, q)') : table'[l][q][i] = table[l][q][i]
      BY <1>7, <1>8, <1>9, <2>4
    <3> QED
      BY <2>2, <3>1, <3>2, SameContent
  <2> QED
    BY <2>3, <2>4
<1> QED
  BY <1>13, <1>14, <1>15, <1>16 DEF ContentInv

\* Attention of a layer, and what follows it.
LEMMA LayerAttendContent ==
  ASSUME PoolInv, ContentInv, LayerAttend
  PROVE  ContentInv'
<1>1. /\ fwd.at = "attend" /\ AfterLayer /\ life' = life /\ shared' = shared
  BY DEF LayerAttend
<1>2. PICK s \in Seqs, l \in Layers, a \in Nat, n \in Nat :
         s = fwd.seq /\ l = fwd.layer /\ a = fwd.start /\ n = fwd.n
  BY <1>1 DEF PoolInv, PassFields, CallerTypes
<1>3. table' = table /\ mem' = mem /\ tracked' = tracked
  BY DEF LayerAttend, poolVars, Attention
<1>4. Uploaded'
  <2>1. CASE UNCHANGED poolVars
    BY <2>1 DEF ContentInv, Uploaded, poolVars
  <2>2. CASE Attention(l, s)
    <3>1. btGPU \in [Layers -> [Seqs -> Seq(Blocks)]] /\ dirty \in [Layers -> [Seqs -> BOOLEAN]]
      BY DEF PoolInv, PoolSound, PoolTypes
    <3>2. PICK t : t = IF dirty[l][s] \/ btGPU[l][s] = << >> THEN table[l][s] ELSE btGPU[l][s]
      OBVIOUS
    <3>3. t = table[l][s]
      BY <3>2 DEF ContentInv, Uploaded
    <3>4. btGPU' = [btGPU EXCEPT ![l][s] = t] /\ dirty' = [dirty EXCEPT ![l][s] = FALSE]
      BY <2>2, <3>2 DEF Attention
    <3>5. btGPU'[l][s] = table[l][s]
      BY <3>1, <3>3, <3>4
    <3>6. ASSUME NEW k \in Layers, NEW q \in Seqs, ~(k = l /\ q = s)
          PROVE  btGPU'[k][q] = btGPU[k][q] /\ dirty'[k][q] = dirty[k][q]
      BY <3>1, <3>4, <3>6
    <3> QED
      BY <1>3, <3>5, <3>6 DEF ContentInv, Uploaded
  <2> QED
    BY <1>2, <2>1, <2>2 DEF LayerAttend
<1>5. Exclusive'
  BY <1>1, <1>3, ExclusiveThin DEF ContentInv
<1>6. l \in 1..NumLayers /\ NumLayers \in Nat /\ \A k \in Layers : k \in Nat /\ k >= 1 /\ k <= NumLayers
  BY PoolAssumption DEF Layers
<1>7. \A q \in Seqs \ {s} : ~Flux(q)
  BY <1>2 DEF Flux
<1>8. Flux(s)
  BY <1>1, <1>2 DEF Flux
<1>9. shared[s][2] <= a /\ shared[s][2] \in Nat
  BY <1>1, <1>2 DEF ContentInv, Prefixes, PoolInv, CallerTypes
<1>10. /\ Prefixes'
       /\ fwd'.at # "dead"
       /\ \A k \in Layers, q \in Seqs : Held(k, q)' = Held(k, q)
  <2>1. CASE l < NumLayers
    <3>1. fwd' = [fwd EXCEPT !.at = "store", !.layer = l + 1] /\ pos' = pos
      BY <1>1, <1>2, <2>1 DEF AfterLayer
    <3>2. fwd'.at = "store" /\ fwd'.seq = s /\ fwd'.start = a /\ fwd'.n = n /\ fwd'.layer = l + 1
      BY <1>2, <3>1 DEF PoolInv, CallerTypes
    <3>3. Prefixes'
      BY <1>1, <1>9, <3>1, <3>2 DEF ContentInv, Prefixes
    <3>4. \A k \in Layers : Holds(k)' = Holds(k)
      <4>1. \A k \in Layers : Stored(k)' = Stored(k)
        BY <1>1, <1>2, <1>6, <3>2 DEF Stored
      <4> QED
        BY <1>2, <3>2, <4>1 DEF Holds
    <3>5. \A q \in Seqs : Flux(q)' = Flux(q)
      BY <1>1, <1>2, <3>2 DEF Flux
    <3> QED
      BY <3>1, <3>2, <3>3, <3>4, <3>5 DEF Held
  <2>2. CASE ~(l < NumLayers)
    <3>1. /\ fwd' = (IF Prefills \/ n = 1 THEN Idle ELSE [fwd EXCEPT !.at = "verify"])
          /\ pos' = [pos EXCEPT ![s] = a + n]
      BY <1>1, <1>2, <2>2 DEF AfterLayer
    <3>2. \/ fwd'.at = "idle"
          \/ fwd'.at = "verify" /\ fwd'.seq = s /\ fwd'.start = a
      <4>1. CASE Prefills \/ n = 1
        BY <3>1, <4>1 DEF Idle
      <4>2. CASE ~(Prefills \/ n = 1)
        <5>1. fwd' = [fwd EXCEPT !.at = "verify"]
          BY <3>1, <4>2
        <5> QED
          BY <1>2, <5>1 DEF PoolInv, CallerTypes
      <4> QED
        BY <4>1, <4>2
    <3>3. pos'[s] = a + n /\ \A q \in Seqs \ {s} : pos'[q] = pos[q]
      BY <3>1 DEF PoolInv, CallerTypes
    <3>4. Prefixes'
      <4> SUFFICES ASSUME NEW q \in Seqs
                   PROVE  /\ shared[q][2] <= pos'[q]
                          /\ fwd'.at # "idle" /\ fwd'.seq = q => shared[q][2] <= fwd'.start
        BY <1>1 DEF ContentInv, Prefixes
      <4>1. CASE q = s
        BY <1>9, <3>2, <3>3, <4>1
      <4>2. CASE q # s
        BY <3>2, <3>3, <4>2 DEF ContentInv, Prefixes
      <4> QED
        BY <4>1, <4>2
    <3>5. \A k \in Layers : Holds(k) = a + n
      <4>1. \A k \in Layers : Stored(k)
        BY <1>1, <1>2, <1>6, <2>2 DEF Stored
      <4> QED
        BY <1>2, <4>1 DEF Holds
    <3>6. \A q \in Seqs : ~Flux(q)'
      BY <3>2 DEF Flux
    <3>7. ASSUME NEW k \in Layers, NEW q \in Seqs PROVE Held(k, q)' = Held(k, q)
      <4>1. CASE q = s
        BY <1>8, <3>3, <3>5, <3>6, <4>1 DEF Held
      <4>2. CASE q # s
        BY <1>7, <3>3, <3>6, <4>2 DEF Held
      <4> QED
        BY <4>1, <4>2
    <3> QED
      BY <3>2, <3>4, <3>7
  <2> QED
    BY <2>1, <2>2
<1>11. OwnContent'
  <2> SUFFICES ASSUME NEW k \in Layers, NEW q \in Seqs, life[q] = "live", q \in tracked
               PROVE  HoldsOwn(k, q)'
    BY <1>1, <1>3 DEF OwnContent
  <2>1. HoldsOwn(k, q)
    BY <1>1 DEF ContentInv, OwnContent
  <2>2. Held(k, q) \in Nat
    BY HeldType DEF PoolInv
  <2>3. Held(k, q)' \in Nat /\ Held(k, q)' <= Held(k, q)
    BY <1>10, <2>2
  <2>4. /\ mem' = mem /\ shared'[q] = shared[q]
        /\ \A i \in 1..BlocksFor(Held(k, q)') : table'[k][q][i] = table[k][q][i]
    BY <1>1, <1>3
  <2> QED
    BY <2>1, <2>2, <2>3, <2>4, SameContent
<1> QED
  BY <1>4, <1>5, <1>10, <1>11 DEF ContentInv

\* A pass that can store takes blocks the pool has.
LEMMA StoreGrows ==
  ASSUME PoolSound, NEW l \in Layers, NEW s \in Seqs, NEW e \in Nat, e <= MaxLen,
         s \in tracked, NEW m, m = Missing(l, s, e), m <= Len(freeList[l])
  PROVE  m \in 0..Len(freeList[l]) /\ Len(table[l][s]) + m <= BlocksFor(MaxLen)
<1>1. BlocksFor(e) \in Nat /\ BlocksFor(e) <= BlocksFor(MaxLen) /\ BlocksFor(MaxLen) \in Nat
  BY PoolAssumption, BlocksForType, BlocksForMono
<1>2. PICK t \in Nat : t = Len(table[l][s]) /\ t <= BlocksFor(MaxLen)
  BY DEF PoolSound, PoolTypes, TablesBounded
<1>3. PICK f \in Nat : f = Len(freeList[l])
  BY DEF PoolSound, Counted
<1>4. PICK w \in Nat : w = BlocksFor(e) /\ w <= BlocksFor(MaxLen)
  BY <1>1
<1>5. m = IF w > t THEN w - t ELSE 0
  BY <1>2, <1>4 DEF Missing
<1>6. m \in 0..f /\ t + m <= BlocksFor(MaxLen)
  BY <1>1, <1>2, <1>3, <1>4, <1>5, SMTT(30)
<1> QED
  BY <1>2, <1>3, <1>6

\* StoreKV of a layer writes into entries of its own.
LEMMA LayerStoreContent ==
  ASSUME PoolInv, ContentInv, LayerStore
  PROVE  ContentInv'
<1>1. /\ fwd.at = "store" /\ CanStoreKV(fwd.layer, fwd.seq, fwd.start, fwd.n)
      /\ StoreKV(fwd.layer, fwd.seq, fwd.start, fwd.n) /\ fwd' = [fwd EXCEPT !.at = "attend"]
      /\ life' = life /\ shared' = shared /\ pos' = pos
  BY DEF LayerStore
<1>2. PICK s \in Seqs, l \in Layers, a \in Nat, n \in Nat :
         s = fwd.seq /\ l = fwd.layer /\ a = fwd.start /\ n = fwd.n /\ a + n <= MaxLen
  BY <1>1 DEF PoolInv, PassFields, CallerTypes
<1>3. PICK e \in Nat : e = a + n /\ e <= MaxLen
  BY <1>2
<1>4. /\ s \in tracked /\ Missing(l, s, e) <= Len(freeList[l])
      /\ Grow(l, s, Missing(l, s, e)) /\ tracked' = tracked /\ btGPU' = btGPU
  BY <1>1, <1>2, <1>3 DEF CanStoreKV, StoreKV
<1>5. PICK m : m = Missing(l, s, e)
  OBVIOUS
<1>6. m \in 0..Len(freeList[l]) /\ Len(table[l][s]) + m <= BlocksFor(MaxLen)
  BY <1>3, <1>4, <1>5, StoreGrows DEF PoolInv
<1>7. /\ \A i \in 1..Len(table[l][s]) : table'[l][s][i] = table[l][s][i]
      /\ \A i \in 1..Len(table'[l][s]) : i > Len(table[l][s]) =>
           \A q \in Seqs : \A j \in 1..Len(table'[l][q]) :
             table'[l][s][i] = table'[l][q][j] => q = s /\ j = i
  BY <1>4, <1>5, <1>6, GrowEntries DEF PoolInv
<1>8. Exclusive'
  BY <1>1, <1>4, <1>5, <1>6, ExclusiveGrow DEF PoolInv, ContentInv
<1>9. Uploaded'
  <2>1. m \in Nat
    <3>1. Len(freeList[l]) \in Nat
      BY DEF PoolInv, PoolSound, Counted
    <3> QED
      BY <1>6, <3>1
  <2> QED
    BY <1>4, <1>5, <2>1, GrowUploaded DEF PoolInv, ContentInv
<1>10. fwd'.at = "attend" /\ fwd'.seq = s /\ fwd'.start = a /\ fwd'.n = n /\ fwd'.layer = l
  BY <1>1, <1>2 DEF PoolInv, CallerTypes
<1>11. Prefixes'
  BY <1>1, <1>2, <1>10 DEF ContentInv, Prefixes
<1>12. /\ \A q \in Seqs \ {s} : table'[l][q] = table[l][q]
       /\ \A k \in Layers \ {l} : table'[k] = table[k]
       /\ Len(table'[l][s]) = IF BlocksFor(e) > Len(table[l][s]) THEN BlocksFor(e) ELSE Len(table[l][s])
  <2>1. CanStoreKV(l, s, a, n) /\ StoreKV(l, s, a, n) /\ a + n <= MaxLen /\ PoolSound
    BY <1>1, <1>2 DEF PoolInv
  <2>2. /\ \A q \in Seqs \ {s} : seqLen'[q] = seqLen[q] /\ table'[l][q] = table[l][q]
        /\ \A k \in Layers \ {l} : table'[k] = table[k]
        /\ Len(table'[l][s]) = IF BlocksFor(a + n) > Len(table[l][s])
                                 THEN BlocksFor(a + n) ELSE Len(table[l][s])
    BY <2>1, StoreSound
  <2> QED
    BY <1>3, <2>2
<1>13. Len(table[l][s]) \in Nat /\ BlocksFor(e) \in Nat /\ Len(table'[l][s]) >= BlocksFor(e)
  <2>1. Len(table[l][s]) \in Nat /\ BlocksFor(e) \in Nat
    BY <1>3, BlocksForType DEF PoolInv, PoolSound, PoolTypes
  <2> QED
    BY <1>12, <2>1
<1>14. shared[s][2] \in Nat /\ shared[s][2] % BlockSize = 0 /\ shared[s][2] <= a
  BY <1>1, <1>2 DEF ContentInv, Prefixes, PoolInv, CallerTypes
<1>15. l \in Nat /\ l >= 1
  BY PoolAssumption DEF Layers
<1>16. /\ Flux(s) /\ Flux(s)' /\ \A q \in Seqs \ {s} : ~Flux(q) /\ ~Flux(q)'
  BY <1>1, <1>2, <1>10 DEF Flux
<1>17. /\ Held(l, s) = a /\ Held(l, s)' = e
       /\ \A k \in Layers \ {l} : Held(k, s)' = Held(k, s)
       /\ \A k \in Layers, q \in Seqs \ {s} : Held(k, q)' = Held(k, q) /\ Held(k, q) = pos[q]
  <2>1. ~Stored(l) /\ Stored(l)' /\ \A k \in Layers \ {l} : Stored(k)' = Stored(k)
    BY <1>1, <1>2, <1>10, <1>15 DEF Stored
  <2>2. Holds(l) = a /\ Holds(l)' = e /\ \A k \in Layers \ {l} : Holds(k)' = Holds(k)
    BY <1>2, <1>3, <1>10, <2>1 DEF Holds
  <2> QED
    BY <1>1, <1>16, <2>2 DEF Held
<1>18. ASSUME NEW p \in Nat, a <= p, p < e
       PROVE  /\ (p \div BlockSize) + 1 \in 1..Len(table'[l][s])
              /\ Owns(s, (p \div BlockSize) + 1)' /\ Expected(s, p) = s
  <2>1. p \div BlockSize \in Nat /\ (p \div BlockSize) + 1 <= BlocksFor(e)
    BY <1>3, <1>18, WithinBlocks
  <2>2. PICK h \in Nat : h = shared[s][2] /\ h <= a /\ h % BlockSize = 0
    BY <1>14
  <2>3. ~(p < h)
    BY <1>18, <2>2
  <2>4. h \div BlockSize \in Nat /\ ~((p \div BlockSize) + 1 <= h \div BlockSize)
    BY <2>2, <2>3, WholeBlocks
  <2>5. Expected(s, p) = s
    BY <2>2, <2>3 DEF Expected
  <2>6. (p \div BlockSize) + 1 > h \div BlockSize
    BY <2>1, <2>4
  <2>7. Owns(s, (p \div BlockSize) + 1)'
    BY <1>1, <2>2, <2>6 DEF Owns
  <2>8. Len(table'[l][s]) \in Nat
    BY <1>12, <1>13
  <2>9. (p \div BlockSize) + 1 \in 1..Len(table'[l][s])
    BY <1>13, <2>1, <2>8
  <2> QED
    BY <2>5, <2>7, <2>9
<1>19. mem'[l] = [b \in Blocks |-> [o \in Offsets |->
          IF \E p \in a..(a + n - 1) : BlockOf(table'[l][s], p) = b /\ p % BlockSize = o
            THEN s ELSE mem[l][b][o]]]
       /\ \A k \in Layers \ {l} : mem'[k] = mem[k]
  <2>1. mem \in [Layers -> [Blocks -> [Offsets -> Seqs \cup {None}]]]
    BY DEF PoolInv, PoolSound, PoolTypes
  <2>2. mem' = [mem EXCEPT ![l] = [b \in Blocks |-> [o \in Offsets |->
          IF \E p \in a..(a + n - 1) : BlockOf(table'[l][s], p) = b /\ p % BlockSize = o
            THEN s ELSE mem[l][b][o]]]]
    BY <1>1, <1>2 DEF StoreKV
  <2> QED
    BY <2>1, <2>2
<1>20. table' \in [Layers -> [Seqs -> Seq(Blocks)]]
  BY LayerStoreInv DEF PoolInv, PoolSound, PoolTypes
<1>21. ASSUME NEW q \in Seqs, life[q] = "live", q \in tracked,
              NEW p \in Nat, p < Held(l, q)'
       PROVE  mem'[l][BlockOf(table'[l][q], p)][p % BlockSize] = Expected(q, p)
  <2>1. Held(l, q)' \in Nat /\ Len(table'[l][q]) = BlocksFor(Held(l, q)')
    <3>1. PoolInv'
      BY LayerStoreInv
    <3>2. CASE q = s
      <4>1. Len(table'[l][s]) = BlocksFor(Holds(l)')
        BY <1>1, <1>4, <1>16, <1>21, <3>1, <3>2 DEF PoolInv, InFlux
      <4>2. Held(l, s)' = Holds(l)'
        BY <1>16 DEF Held
      <4> QED
        BY <1>3, <1>17, <3>2, <4>1, <4>2
    <3>3. CASE q # s
      <4>1. Len(table'[l][q]) = BlocksFor(pos'[q])
        BY <1>1, <1>4, <1>10, <1>16, <1>21, <3>1, <3>3 DEF PoolInv, Settled
      <4> QED
        BY <1>1, <1>17, <3>3, <4>1 DEF PoolInv, CallerTypes
    <3> QED
      BY <3>2, <3>3
  <2>2. PICK h \in Nat : h = Held(l, q)' /\ p < h /\ Len(table'[l][q]) = BlocksFor(h)
    BY <1>21, <2>1
  <2>3. PICK j : j = (p \div BlockSize) + 1
    OBVIOUS
  <2>4. j \in 1..BlocksFor(h) /\ j \in 1..Len(table'[l][q])
    <3>1. p \div BlockSize \in Nat /\ (p \div BlockSize) + 1 <= BlocksFor(h) /\ BlocksFor(h) \in Nat
      BY <2>2, WithinBlocks, BlocksForType
    <3> QED
      BY <2>2, <2>3, <3>1
  <2>5. PICK b \in Blocks : b = table'[l][q][j] /\ b = BlockOf(table'[l][q], p)
    BY <1>20, <2>3, <2>4 DEF BlockOf
  <2>6. PICK o \in Offsets : o = p % BlockSize
    BY PoolAssumption DEF Offsets
  <2>7. mem'[l][b][o] = IF \E x \in a..(a + n - 1) : BlockOf(table'[l][s], x) = b /\ x % BlockSize = o
                          THEN s ELSE mem[l][b][o]
    <3>1. mem'[l][b] = [c \in Offsets |->
            IF \E x \in a..(a + n - 1) : BlockOf(table'[l][s], x) = b /\ x % BlockSize = c
              THEN s ELSE mem[l][b][c]]
      BY <1>19
    <3> QED
      BY <3>1
  <2>8. CASE \E x \in a..(a + n - 1) : BlockOf(table'[l][s], x) = b /\ x % BlockSize = o
    <3>1. PICK x \in a..(a + n - 1) : BlockOf(table'[l][s], x) = b /\ x % BlockSize = o
      BY <2>8
    <3>2. x \in Nat /\ a <= x /\ x < e
      BY <1>3, <3>1
    <3>3. PICK i : i = (x \div BlockSize) + 1
      OBVIOUS
    <3>4. i \in 1..Len(table'[l][s]) /\ Owns(s, i)' /\ Expected(s, x) = s
      BY <1>18, <3>2, <3>3
    <3>5. table'[l][s][i] = table'[l][q][j]
      BY <2>5, <3>1, <3>3 DEF BlockOf
    <3>6. (q = s /\ j = i) \/ (~Owns(q, j)' /\ shared'[q][1] = s)
      BY <1>8, <2>4, <3>4, <3>5 DEF Exclusive, Excl
    <3>7. Expected(q, p) = s
      <4>1. CASE q = s /\ j = i
        <5>1. p \div BlockSize \in Nat /\ x \div BlockSize \in Nat
          BY <3>2, PoolAssumption
        <5>2. p \div BlockSize = x \div BlockSize
          BY <2>3, <3>3, <4>1, <5>1
        <5>3. p = x
          BY <2>6, <3>1, <3>2, <5>2, SlotPosition
        <5> QED
          BY <3>4, <4>1, <5>3
      <4>2. CASE ~Owns(q, j)' /\ shared'[q][1] = s
        <5>1. PICK y \in Nat : y = shared[q][2] /\ y % BlockSize = 0
          BY DEF ContentInv, Prefixes, PoolInv, CallerTypes
        <5>2. ~(j > y \div BlockSize) /\ shared[q][1] = s
          BY <1>1, <1>21, <4>2, <5>1 DEF Owns
        <5>3. y \div BlockSize \in Nat /\ (p < y <=> (p \div BlockSize) + 1 <= y \div BlockSize)
          BY <5>1, WholeBlocks
        <5>4. j \in Nat
          BY <2>4
        <5>5. p < y
          BY <2>3, <5>2, <5>3, <5>4
        <5> QED
          BY <5>1, <5>2, <5>5 DEF Expected
      <4> QED
        BY <3>6, <4>1, <4>2
    <3> QED
      BY <2>5, <2>6, <2>7, <2>8, <3>7
  <2>9. CASE ~\E x \in a..(a + n - 1) : BlockOf(table'[l][s], x) = b /\ x % BlockSize = o
    <3>1. mem'[l][b][o] = mem[l][b][o]
      BY <2>7, <2>9
    <3>2. p < Held(l, q) /\ table'[l][q][j] = table[l][q][j]
      <4>1. CASE q = s
        <5>1. p < a
          <6> SUFFICES ASSUME ~(p < a) PROVE FALSE
            OBVIOUS
          <6>1. p \in a..(a + n - 1)
            BY <1>3, <1>17, <2>2, <4>1
          <6> QED
            BY <2>5, <2>6, <2>9, <4>1, <6>1
        <5>2. Len(table[l][s]) = BlocksFor(a)
          <6>1. Len(table[l][s]) = BlocksFor(Holds(l))
            BY <1>16, <1>21, <4>1 DEF PoolInv, InFlux
          <6>2. Holds(l) = a
            BY <1>16, <1>17 DEF Held
          <6> QED
            BY <6>1, <6>2
        <5>3. j \in 1..Len(table[l][s])
          <6>1. p \div BlockSize \in Nat /\ (p \div BlockSize) + 1 <= BlocksFor(a) /\ BlocksFor(a) \in Nat
            BY <5>1, WithinBlocks, BlocksForType
          <6> QED
            BY <2>3, <5>2, <6>1
        <5> QED
          BY <1>7, <1>17, <4>1, <5>1, <5>3
      <4>2. CASE q # s
        BY <1>12, <1>17, <1>21, <4>2
      <4> QED
        BY <4>1, <4>2
    <3>3. HoldsOwn(l, q)
      BY <1>1, <1>21 DEF ContentInv, OwnContent
    <3>4. mem[l][BlockOf(table[l][q], p)][p % BlockSize] = Expected(q, p)
      BY <3>2, <3>3 DEF HoldsOwn
    <3>5. BlockOf(table[l][q], p) = b
      BY <2>3, <2>5, <3>2 DEF BlockOf
    <3> QED
      BY <2>5, <2>6, <3>1, <3>4, <3>5
  <2> QED
    BY <2>8, <2>9
<1>22. OwnContent'
  <2> SUFFICES ASSUME NEW k \in Layers, NEW q \in Seqs, life[q] = "live", q \in tracked
               PROVE  HoldsOwn(k, q)'
    BY <1>1, <1>4 DEF OwnContent
  <2>1. CASE k = l
    <3>1. \A p \in Nat : Expected(q, p)' = Expected(q, p)
      BY <1>1 DEF Expected
    <3>2. \A p \in Nat : p < Held(l, q)' =>
            mem'[l][BlockOf(table'[l][q], p)][p % BlockSize] = Expected(q, p)'
      BY <1>21, <3>1
    <3> QED
      BY <2>1, <3>2 DEF HoldsOwn, BlockOf
  <2>2. CASE k # l
    <3>1. HoldsOwn(k, q)
      BY <1>1 DEF ContentInv, OwnContent
    <3>2. Held(k, q) \in Nat
      BY HeldType DEF PoolInv
    <3>3. Held(k, q)' \in Nat /\ Held(k, q)' <= Held(k, q)
      BY <1>17, <2>2, <3>2
    <3>4. mem'[k] = mem[k] /\ shared'[q] = shared[q]
      BY <1>1, <1>19, <2>2
    <3>5. \A i \in 1..BlocksFor(Held(k, q)') : table'[k][q][i] = table[k][q][i]
      BY <1>12, <2>2
    <3> QED
      BY <3>1, <3>2, <3>3, <3>4, <3>5, SameContent
  <2> QED
    BY <2>1, <2>2
<1> QED
  BY <1>8, <1>9, <1>11, <1>22 DEF ContentInv

\* A layer fails: the blocks it took are its own, nothing is read any more.
LEMMA LayerErrorContent ==
  ASSUME PoolInv, ContentInv, LayerError
  PROVE  ContentInv'
<1>1. /\ fwd.at \in {"store", "attend"} /\ fwd' = [fwd EXCEPT !.at = "dead"]
      /\ life' = life /\ shared' = shared /\ pos' = pos
  BY DEF LayerError
<1>2. PICK s \in Seqs, l \in Layers, a \in Nat, n \in Nat :
         s = fwd.seq /\ l = fwd.layer /\ a = fwd.start /\ n = fwd.n /\ a + n <= MaxLen
  BY <1>1 DEF PoolInv, PassFields, CallerTypes
<1>3. fwd'.at = "dead" /\ fwd'.seq = s /\ fwd'.start = a
  BY <1>1, <1>2 DEF PoolInv, CallerTypes
<1>4. Prefixes'
  BY <1>1, <1>2, <1>3 DEF ContentInv, Prefixes
<1>5. OwnContent'
  BY <1>3 DEF OwnContent
<1>6. Exclusive' /\ Uploaded'
  <2>1. CASE UNCHANGED poolVars
    BY <1>1, <2>1, ExclusiveThin DEF ContentInv, Uploaded, poolVars
  <2>2. CASE s \in tracked /\ ~CanStoreKV(l, s, a, n) /\ FailStoreKV(l, s)
    <3>1. PoolSound /\ Exclusive /\ Uploaded /\ a + n <= MaxLen
      BY <1>2 DEF PoolInv, ContentInv
    <3>2. PICK m \in Nat : /\ m = Len(freeList[l]) /\ m \in 0..Len(freeList[l])
                           /\ Len(table[l][s]) + m <= BlocksFor(MaxLen)
      BY <2>2, <3>1, FailGrows
    <3>3. Grow(l, s, m) /\ tracked' = tracked /\ btGPU' = btGPU
      BY <2>2, <3>2 DEF FailStoreKV
    <3>4. Exclusive'
      BY <1>1, <2>2, <3>1, <3>2, <3>3, ExclusiveGrow
    <3>5. Uploaded'
      BY <3>1, <3>2, <3>3, GrowUploaded
    <3> QED
      BY <3>4, <3>5
  <2> QED
    BY <1>2, <2>1, <2>2 DEF LayerError, FailStoreKV
<1> QED
  BY <1>4, <1>5, <1>6 DEF ContentInv

\* TruncateSequence after a verification keeps a prefix of what was held.
LEMMA RollbackContent ==
  ASSUME PoolInv, ContentInv, NEW len \in 1..MaxLen, Rollback(len)
  PROVE  ContentInv'
<1>1. /\ fwd.at = "verify" /\ len \in (fwd.start + 1)..(fwd.start + fwd.n)
      /\ TruncateSequence(fwd.seq, len) /\ pos' = [pos EXCEPT ![fwd.seq] = len] /\ fwd' = Idle
      /\ life' = life /\ shared' = shared
  BY DEF Rollback
<1>2. PICK s \in Seqs, a \in Nat, e \in Nat : s = fwd.seq /\ a = fwd.start /\ e = a + fwd.n
  BY <1>1 DEF PoolInv, PassFields, CallerTypes
<1>3. len \in Nat /\ a < len /\ len <= e
  BY <1>1, <1>2, PoolAssumption DEF PoolInv, CallerTypes
<1>4. TruncateSequence(s, len) /\ PoolSound /\ Uploaded
  BY <1>1, <1>2 DEF PoolInv, ContentInv
<1>5. Uploaded' /\ Thinner /\ mem' = mem
  BY <1>3, <1>4, TruncateThin
<1>6. tracked' = tracked /\ PoolInv'
  BY <1>3, <1>4, TruncateSound, RollbackInv
<1>7. fwd'.at = "idle" /\ \A q \in Seqs : ~Flux(q) /\ ~Flux(q)'
  BY <1>1 DEF Idle, Flux
<1>8. pos'[s] = len /\ \A q \in Seqs \ {s} : pos'[q] = pos[q]
  BY <1>1, <1>2 DEF PoolInv, CallerTypes
<1>9. Exclusive'
  BY <1>1, <1>5, ExclusiveThin DEF ContentInv, Thinner
<1>10. Prefixes'
  <2> SUFFICES ASSUME NEW q \in Seqs PROVE shared[q][2] <= pos'[q]
    BY <1>1, <1>7 DEF ContentInv, Prefixes
  <2>1. CASE q = s
    <3>1. shared[s][2] \in Nat /\ shared[s][2] <= a
      BY <1>1, <1>2 DEF ContentInv, Prefixes, PoolInv, CallerTypes
    <3> QED
      BY <1>3, <1>8, <2>1, <3>1
  <2>2. CASE q # s
    BY <1>8, <2>2 DEF ContentInv, Prefixes
  <2> QED
    BY <2>1, <2>2
<1>11. OwnContent'
  <2> SUFFICES ASSUME NEW l \in Layers, NEW q \in Seqs, life[q] = "live", q \in tracked
               PROVE  HoldsOwn(l, q)'
    BY <1>1, <1>6 DEF OwnContent
  <2>1. HoldsOwn(l, q)
    BY <1>1 DEF ContentInv, OwnContent
  <2>2. Held(l, q) = pos[q] /\ Held(l, q)' = pos'[q]
    BY <1>7 DEF Held
  <2>3. pos[q] \in Nat /\ pos'[q] \in Nat
    BY <1>6 DEF PoolInv, CallerTypes
  <2>4. pos'[q] <= pos[q]
    <3>1. CASE q = s
      <4>1. pos[s] = e
        BY <1>1, <1>2, <3>1 DEF PoolInv, PassFields
      <4> QED
        BY <1>3, <1>8, <3>1, <4>1
    <3>2. CASE q # s
      BY <1>8, <2>3, <3>2
    <3> QED
      BY <3>1, <3>2
  <2>5. Len(table'[l][q]) = BlocksFor(pos'[q])
    BY <1>1, <1>6, <1>7 DEF PoolInv, Settled
  <2>6. \A i \in 1..BlocksFor(Held(l, q)') : table'[l][q][i] = table[l][q][i]
    BY <1>5, <2>2, <2>5 DEF Thinner
  <2>7. Held(l, q) \in Nat /\ Held(l, q)' \in Nat /\ Held(l, q)' <= Held(l, q)
    BY <2>2, <2>3, <2>4
  <2>8. mem'[l] = mem[l] /\ shared'[q] = shared[q]
    BY <1>1, <1>5
  <2> QED
    BY <2>1, <2>6, <2>7, <2>8, SameContent
<1> QED
  BY <1>5, <1>9, <1>10, <1>11 DEF ContentInv

-----------------------------------------------------------------------------
(* The theorems.                                                           *)

\* With prefixes of whole blocks, no step of handlers or forward pass writes
\* into what another sequence holds or leaves a stale table on the GPU.
THEOREM ContentInvariance == Aligned => (Spec => []ContentInv)
<1> SUFFICES ASSUME Aligned PROVE Spec => []ContentInv
  OBVIOUS
<1>1. Init => ContentInv
  BY InitContent
<1>2. ASSUME PoolInv, ContentInv, [Next]_vars PROVE ContentInv'
  <2>1. CASE UNCHANGED vars
    <3>1. UNCHANGED poolVars /\ UNCHANGED <<up, life, shared, pos, fwd>>
      BY <2>1 DEF vars
    <3>2. Exclusive'
      BY <1>2, <3>1, ExclusiveThin DEF ContentInv, poolVars
    <3>3. Prefixes' /\ Uploaded'
      BY <1>2, <3>1 DEF ContentInv, Prefixes, Uploaded, poolVars
    <3>4. OwnContent'
      BY <1>2, <3>1 DEF ContentInv, OwnContent, HoldsOwn, Held, Flux, Holds, Stored, Expected,
                        BlockOf, poolVars
    <3> QED
      BY <3>2, <3>3, <3>4 DEF ContentInv
  <2>2. CASE Next
    <3>1. ASSUME NEW s \in Seqs, Add(s) \/ Remove(s) PROVE ContentInv'
      BY <1>2, <3>1, AddContent, RemoveContent
    <3>2. ASSUME NEW src \in Seqs, NEW dst \in Seqs, NEW n \in ShareLens, Share(src, dst, n)
          PROVE  ContentInv'
      BY <1>2, <3>2, ShareContent
    <3>3. ASSUME NEW s \in Seqs, NEW n \in Chunks, Pick(s, n) PROVE ContentInv'
      BY <1>2, <3>3, PickContent
    <3>4. CASE EnsureSequence \/ LayerStore \/ LayerAttend \/ LayerError
      BY <1>2, <3>4, EnsureContent, LayerStoreContent, LayerAttendContent, LayerErrorContent
    <3>5. ASSUME NEW len \in 1..MaxLen, Rollback(len) PROVE ContentInv'
      BY <1>2, <3>5, RollbackContent
    <3> QED
      BY <2>2, <3>1, <3>2, <3>3, <3>4, <3>5, Zenon DEF Next
  <2> QED
    BY <1>2, <2>1, <2>2
<1> QED
  BY <1>1, <1>2, PoolInvariance, PTL DEF Spec

\* Attention reads the table of the layer and, through it, own K/V only.
LEMMA AttendReads ==
  ASSUME PoolInv, ContentInv, LayerAttend, ~Prefills, NEW l \in Layers, NEW s \in Seqs,
         fwd.layer = l, fwd.seq = s, life[s] = "live", NEW p \in 0..(seqLen[s] - 1)
  PROVE  /\ p \div BlockSize < Len(btGPU'[l][s])
         /\ mem[l][BlockOf(btGPU'[l][s], p)][p % BlockSize] = Expected(s, p)
<1>1. fwd.at = "attend" /\ Attention(l, s)
  BY DEF LayerAttend
<1>2. Flux(s)
  BY <1>1 DEF Flux
<1>3. s \in tracked /\ seqLen[s] = Holds(1) /\ Len(table[l][s]) = BlocksFor(Holds(l))
  BY <1>2 DEF PoolInv, InFlux
<1>4. l \in Nat /\ 1 <= l
  BY PoolAssumption DEF Layers
<1>5. Stored(1) /\ Stored(l)
  BY <1>1, <1>4 DEF Stored
<1>6. PICK e \in Nat : e = fwd.start + fwd.n
  BY DEF PoolInv, CallerTypes
<1>7. Holds(1) = e /\ Holds(l) = e /\ Held(l, s) = e
  BY <1>2, <1>5, <1>6 DEF Holds, Held
<1>8. p \in Nat /\ p < e
  BY <1>3, <1>6, <1>7
<1>9. btGPU'[l][s] = table[l][s]
  <2>1. btGPU \in [Layers -> [Seqs -> Seq(Blocks)]]
    BY DEF PoolInv, PoolSound, PoolTypes
  <2>2. PICK t : t = IF dirty[l][s] \/ btGPU[l][s] = << >> THEN table[l][s] ELSE btGPU[l][s]
    OBVIOUS
  <2>3. t = table[l][s]
    BY <2>2 DEF ContentInv, Uploaded
  <2>4. btGPU' = [btGPU EXCEPT ![l][s] = t]
    BY <1>1, <2>2 DEF Attention
  <2> QED
    BY <2>1, <2>3, <2>4
<1>10. p \div BlockSize < Len(btGPU'[l][s])
  <2>1. p \div BlockSize \in Nat /\ (p \div BlockSize) + 1 <= BlocksFor(e) /\ BlocksFor(e) \in Nat
    BY <1>6, <1>8, WithinBlocks, BlocksForType
  <2>2. Len(btGPU'[l][s]) = BlocksFor(e)
    BY <1>3, <1>7, <1>9
  <2> QED
    BY <2>1, <2>2
<1>11. mem[l][BlockOf(btGPU'[l][s], p)][p % BlockSize] = Expected(s, p)
  <2>1. HoldsOwn(l, s)
    BY <1>1, <1>3 DEF ContentInv, OwnContent
  <2> QED
    BY <1>7, <1>8, <1>9, <2>1 DEF HoldsOwn
<1> QED
  BY <1>10, <1>11

\* With prefixes of whole blocks the kernel attends, for a live sequence, over
\* that sequence's own K/V at every position of its length, whatever handlers
\* create, delete and share between the layers of a pass.
THEOREM ReadsOwnKV == Aligned => (Spec => AttendsOwnKV)
<1> SUFFICES ASSUME Aligned PROVE Spec => AttendsOwnKV
  OBVIOUS
<1> DEFINE Reads ==
      \A l \in Layers, s \in Seqs :
        (LayerAttend /\ ~Prefills /\ fwd.layer = l /\ fwd.seq = s /\ life[s] = "live") =>
          \A p \in 0..(seqLen[s] - 1) :
            /\ p \div BlockSize < Len(btGPU'[l][s])
            /\ mem[l][BlockOf(btGPU'[l][s], p)][p % BlockSize] = Expected(s, p)
<1>1. PoolInv /\ ContentInv => Reads
  BY AttendReads
<1>2. Spec => []ContentInv
  BY ContentInvariance
<1> QED
  BY <1>1, <1>2, PoolInvariance, PTL DEF AttendsOwnKV
=============================================================================
