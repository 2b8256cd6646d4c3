---------------------------- MODULE GPUBlockPool -----------------------------
(***************************************************************************)
(* The GPU-resident block pool of paged KV serving                         *)
(* (inference/runtime/gpu_block_pool.go) under the callers it has: the     *)
(* handlers that create and delete sequences, and the one forward pass at  *)
(* a time of the Run goroutine (decode.go, block.go ExecuteWithPagedKV),   *)
(* which stores and attends layer by layer and may truncate afterwards.    *)
(* Every pool method holds g.mu, so it is one action; a forward pass is    *)
(* many, and handlers run between them.                                    *)
(*                                                                         *)
(* Pool memory is abstracted to the name of the sequence whose K/V a slot  *)
(* holds.  The free list is the stack the code keeps, so that a block      *)
(* released twice would be seen in it twice.                               *)
(***************************************************************************)
EXTENDS Integers, Sequences, FiniteSets

CONSTANTS
  Seqs,        \* kvSeqIDs
  None,        \* nothing: an unwritten slot, no shared prefix
  NumLayers,
  MaxBlocks,   \* physical blocks of a layer
  BlockSize,
  MaxLen,      \* bound: longest sequence
  Chunks,      \* bound: tokens a forward pass may bring
  ShareLens    \* bound: prefix lengths ShareBlocks is called with

ASSUME PoolAssumption ==
  /\ IsFiniteSet(Seqs) /\ None \notin Seqs
  /\ NumLayers \in Nat \ {0}
  /\ MaxBlocks \in Nat
  /\ BlockSize \in Nat \ {0}
  /\ MaxLen \in Nat
  /\ Chunks \subseteq Nat \ {0}
  /\ ShareLens \subseteq Nat

Layers == 1..NumLayers
Blocks == 0..(MaxBlocks - 1)
Offsets == 0..(BlockSize - 1)

VARIABLES
  up,          \* the pool has been created (lazily, by a forward pass)
  tracked,     \* DOMAIN g.seqs
  table,       \* table[l][s]: blockTables[l] of s
  seqLen,      \* seqLen[s], shared by the layers
  dirty,       \* btDirty[l] of s
  btGPU,       \* btGPU[l][s]: the uploaded block table, <<>> for nil
  freeList,    \* freeLists[l]
  refs,        \* refCounts[l], 0 for an absent key
  mem,         \* mem[l][b][o]: whose K/V the slot holds
  life,        \* "new", "live" or "gone": the handler's sequence
  shared,      \* shared[s]: <<source, tokens>> of its shared prefix
  pos,         \* Sequence.position: tokens already run through the model
  fwd          \* the forward pass of the Run goroutine

poolVars == <<tracked, table, seqLen, dirty, btGPU, freeList, refs, mem>>
vars == <<up, poolVars, life, shared, pos, fwd>>

Idle == [at |-> "idle", seq |-> None, start |-> 0, n |-> 0, layer |-> 0]

\* NewGPUBlockPool: every block is free, no sequence is known.
Init ==
  /\ up = FALSE
  /\ tracked = {}
  /\ table = [l \in Layers |-> [s \in Seqs |-> <<>>]]
  /\ seqLen = [s \in Seqs |-> 0]
  /\ dirty = [l \in Layers |-> [s \in Seqs |-> FALSE]]
  /\ btGPU = [l \in Layers |-> [s \in Seqs |-> <<>>]]
  /\ freeList = [l \in Layers |-> [i \in 1..MaxBlocks |-> i - 1]]
  /\ refs = [l \in Layers |-> [b \in Blocks |-> 0]]
  /\ mem = [l \in Layers |-> [b \in Blocks |-> [o \in Offsets |-> None]]]
  /\ life = [s \in Seqs |-> "new"]
  /\ shared = [s \in Seqs |-> <<None, 0>>]
  /\ pos = [s \in Seqs |-> 0]
  /\ fwd = Idle

-----------------------------------------------------------------------------
(* Blocks.                                                                 *)

BlocksFor(n) == (n + BlockSize - 1) \div BlockSize

Suffix(t, from) == SubSeq(t, from, Len(t))

\* Mutant: a block is freed only when its count was already zero.
ReleaseOne_OffByOne(rf, b) ==
  IF rf.refs[b] < 1
    THEN [refs |-> [rf.refs EXCEPT ![b] = 0], free |-> Append(rf.free, b)]
    ELSE [refs |-> [rf.refs EXCEPT ![b] = @ - 1], free |-> rf.free]

\* releaseBlock: the last reference puts the block back on the free list.
ReleaseOne(rf, b) ==
  IF rf.refs[b] <= 1
    THEN [refs |-> [rf.refs EXCEPT ![b] = 0], free |-> Append(rf.free, b)]
    ELSE [refs |-> [rf.refs EXCEPT ![b] = @ - 1], free |-> rf.free]

\* The loop over the blocks t of a layer.
Release(l, t) ==
  LET after[i \in 0..Len(t)] ==
        IF i = 0 THEN [refs |-> refs[l], free |-> freeList[l]]
                 ELSE ReleaseOne(after[i - 1], t[i])
  IN  after[Len(t)]

\* allocBlock, m times: blocks come off the end of the free list.
Taken(l, m) == [i \in 1..m |-> freeList[l][Len(freeList[l]) + 1 - i]]

Missing(l, s, n) ==
  LET want == BlocksFor(n) IN
  IF want > Len(table[l][s]) THEN want - Len(table[l][s]) ELSE 0

\* Mutant: a table that grows is not marked for upload.
Grow_NotDirty(l, s, m) ==
  LET new == Taken(l, m) IN
  /\ table' = [table EXCEPT ![l][s] = @ \o new]
  /\ freeList' = [freeList EXCEPT ![l] = SubSeq(@, 1, Len(@) - m)]
  /\ refs' = [refs EXCEPT ![l] = [b \in Blocks |->
                IF \E i \in DOMAIN new : new[i] = b THEN 1 ELSE @[b]]]
  /\ UNCHANGED dirty

\* The loop of StoreKV: m new blocks, one reference each, join the table.
Grow(l, s, m) ==
  LET new == Taken(l, m) IN
  /\ table' = [table EXCEPT ![l][s] = @ \o new]
  /\ freeList' = [freeList EXCEPT ![l] = SubSeq(@, 1, Len(@) - m)]
  /\ refs' = [refs EXCEPT ![l] = [b \in Blocks |->
                IF \E i \in DOMAIN new : new[i] = b THEN 1 ELSE @[b]]]
  /\ dirty' = [dirty EXCEPT ![l][s] = @ \/ m > 0]

\* The slot a position of a sequence is kept in.
BlockOf(t, p) == t[(p \div BlockSize) + 1]

-----------------------------------------------------------------------------
(* Pool methods.                                                           *)

\* CreateSequence: a fresh entry, whatever was there before.
CreateSequence(s) ==
  /\ tracked' = tracked \cup {s}
  /\ table' = [l \in Layers |-> [table[l] EXCEPT ![s] = <<>>]]
  /\ seqLen' = [seqLen EXCEPT ![s] = 0]
  /\ dirty' = [l \in Layers |-> [dirty[l] EXCEPT ![s] = FALSE]]
  /\ btGPU' = [l \in Layers |-> [btGPU[l] EXCEPT ![s] = <<>>]]
  /\ UNCHANGED <<freeList, refs, mem>>

\* DeleteSequence: release every block of every layer and forget the entry.
DeleteSequence(s) ==
  IF s \notin tracked THEN UNCHANGED poolVars
  ELSE /\ tracked' = tracked \ {s}
       /\ refs' = [l \in Layers |-> Release(l, table[l][s]).refs]
       /\ freeList' = [l \in Layers |-> Release(l, table[l][s]).free]
       /\ table' = [l \in Layers |-> [table[l] EXCEPT ![s] = <<>>]]
       /\ seqLen' = [seqLen EXCEPT ![s] = 0]
       /\ dirty' = [l \in Layers |-> [dirty[l] EXCEPT ![s] = FALSE]]
       /\ btGPU' = [l \in Layers |-> [btGPU[l] EXCEPT ![s] = <<>>]]
       /\ UNCHANGED mem

\* Mutant: one block too many survives a cut at a block boundary.
TruncateSequence_KeepsExtra(s, len) ==
  LET keep == (len \div BlockSize) + 1
      cut(l) == Len(table[l][s]) > keep
      dropped(l) == IF cut(l) THEN Suffix(table[l][s], keep + 1) ELSE <<>>
  IN IF s \notin tracked \/ len >= seqLen[s] THEN UNCHANGED poolVars
     ELSE /\ refs' = [l \in Layers |-> Release(l, dropped(l)).refs]
          /\ freeList' = [l \in Layers |-> Release(l, dropped(l)).free]
          /\ table' = [l \in Layers |-> [table[l] EXCEPT
                         ![s] = IF cut(l) THEN SubSeq(@, 1, keep) ELSE @]]
          /\ dirty' = [l \in Layers |-> [dirty[l] EXCEPT ![s] = @ \/ cut(l)]]
          /\ seqLen' = [seqLen EXCEPT ![s] = len]
          /\ UNCHANGED <<tracked, btGPU, mem>>

\* TruncateSequence: drop the blocks past the new length.
TruncateSequence(s, len) ==
  LET keep == BlocksFor(len)
      cut(l) == Len(table[l][s]) > keep
      dropped(l) == IF cut(l) THEN Suffix(table[l][s], keep + 1) ELSE <<>>
  IN IF s \notin tracked \/ len >= seqLen[s] THEN UNCHANGED poolVars
     ELSE /\ refs' = [l \in Layers |-> Release(l, dropped(l)).refs]
          /\ freeList' = [l \in Layers |-> Release(l, dropped(l)).free]
          /\ table' = [l \in Layers |-> [table[l] EXCEPT
                         ![s] = IF cut(l) THEN SubSeq(@, 1, keep) ELSE @]]
          /\ dirty' = [l \in Layers |-> [dirty[l] EXCEPT ![s] = @ \/ cut(l)]]
          /\ seqLen' = [seqLen EXCEPT ![s] = len]
          /\ UNCHANGED <<tracked, btGPU, mem>>

\* StoreKV of n tokens at start: take the missing blocks, write the slots,
\* extend the length.
CanStoreKV(l, s, start, n) ==
  s \in tracked /\ Missing(l, s, start + n) <= Len(freeList[l])

StoreKV(l, s, start, n) ==
  /\ Grow(l, s, Missing(l, s, start + n))
  /\ mem' = [mem EXCEPT ![l] = [b \in Blocks |-> [o \in Offsets |->
       IF \E p \in start..(start + n - 1) :
            BlockOf(table'[l][s], p) = b /\ p % BlockSize = o
         THEN s ELSE @[b][o]]]]
  /\ seqLen' = [seqLen EXCEPT ![s] = IF start + n > @ THEN start + n ELSE @]
  /\ UNCHANGED <<tracked, btGPU>>

\* StoreKV without enough blocks: the ones taken before the error stay in the
\* table.  Without an entry nothing happens.
FailStoreKV(l, s) ==
  IF s \in tracked
    THEN Grow(l, s, Len(freeList[l])) /\ UNCHANGED <<tracked, seqLen, btGPU, mem>>
    ELSE UNCHANGED poolVars

\* Attention / AttentionMultiquery: upload the block table if it is dirty or
\* was never uploaded, then run the kernel with the uploaded table.
CanAttend(l, s) == s \in tracked /\ table[l][s] # <<>>

Attention(l, s) ==
  LET upload == dirty[l][s] \/ btGPU[l][s] = <<>> IN
  /\ btGPU' = [btGPU EXCEPT ![l][s] = IF upload THEN table[l][s] ELSE @]
  /\ dirty' = [dirty EXCEPT ![l][s] = FALSE]
  /\ UNCHANGED <<tracked, table, seqLen, freeList, refs, mem>>

\* ShareBlocks: the first blocks of src join dst's table, each with one more
\* reference.  It fails when src has fewer blocks.
CanShare(src, dst, n) ==
  /\ {src, dst} \subseteq tracked
  /\ \A l \in Layers : BlocksFor(n) <= Len(table[l][src])

\* Mutant: sharing does not count the new references.
ShareBlocks_NoRef(src, dst, n) ==
  LET prefix(l) == SubSeq(table[l][src], 1, BlocksFor(n)) IN
  /\ table' = [l \in Layers |-> [table[l] EXCEPT ![dst] = @ \o prefix(l)]]
  /\ dirty' = [l \in Layers |-> [dirty[l] EXCEPT ![dst] = TRUE]]
  /\ seqLen' = [seqLen EXCEPT ![dst] = IF n > @ THEN n ELSE @]
  /\ UNCHANGED <<tracked, btGPU, freeList, refs, mem>>

ShareBlocks(src, dst, n) ==
  LET prefix(l) == SubSeq(table[l][src], 1, BlocksFor(n)) IN
  /\ table' = [l \in Layers |-> [table[l] EXCEPT ![dst] = @ \o prefix(l)]]
  /\ refs' = [l \in Layers |-> [b \in Blocks |->
       refs[l][b] + Cardinality({i \in DOMAIN prefix(l) : prefix(l)[i] = b})]]
  /\ dirty' = [l \in Layers |-> [dirty[l] EXCEPT ![dst] = TRUE]]
  /\ seqLen' = [seqLen EXCEPT ![dst] = IF n > @ THEN n ELSE @]
  /\ UNCHANGED <<tracked, btGPU, freeList, mem>>

-----------------------------------------------------------------------------
(* The callers.                                                            *)

\* AddSequence: the pool gets an entry if it exists by then.
Add(s) ==
  /\ life[s] = "new"
  /\ life' = [life EXCEPT ![s] = "live"]
  /\ IF up THEN CreateSequence(s) ELSE UNCHANGED poolVars
  /\ UNCHANGED <<up, shared, pos, fwd>>

\* RemoveSequence: at any moment, also under a running forward pass.
Remove(s) ==
  /\ life[s] = "live"
  /\ life' = [life EXCEPT ![s] = "gone"]
  /\ DeleteSequence(s)
  /\ UNCHANGED <<up, shared, pos, fwd>>

\* Prefix reuse for a sequence that has not run yet.
Share(src, dst, n) ==
  /\ fwd.at = "idle" /\ src # dst
  /\ life[src] = "live" /\ life[dst] = "live"
  /\ pos[dst] = 0 /\ n <= pos[src] /\ CanShare(src, dst, n)
  /\ shared[src][1] = None
  /\ ShareBlocks(src, dst, n)
  /\ shared' = [shared EXCEPT ![dst] = <<src, n>>]
  /\ pos' = [pos EXCEPT ![dst] = n]
  /\ UNCHANGED <<up, life, fwd>>

\* The Run goroutine takes a registered sequence into its batch.
Pick(s, n) ==
  /\ fwd.at = "idle"
  /\ life[s] = "live" /\ pos[s] + n <= MaxLen
  /\ fwd' = [at |-> "ensure", seq |-> s, start |-> pos[s], n |-> n, layer |-> 1]
  /\ UNCHANGED <<up, poolVars, life, shared, pos>>

\* The head of DecodeWithPagedKV, PrefillWithPagedKV and
\* VerifySpeculativeWithPagedKVAndHidden: create pool and entry if missing.
EnsureSequence ==
  /\ fwd.at = "ensure"
  /\ up' = TRUE
  /\ IF fwd.seq \in tracked THEN UNCHANGED poolVars ELSE CreateSequence(fwd.seq)
  /\ fwd' = [fwd EXCEPT !.at = "store"]
  /\ UNCHANGED <<life, shared, pos>>

LayerStore ==
  /\ fwd.at = "store"
  /\ CanStoreKV(fwd.layer, fwd.seq, fwd.start, fwd.n)
  /\ StoreKV(fwd.layer, fwd.seq, fwd.start, fwd.n)
  /\ fwd' = [fwd EXCEPT !.at = "attend"]
  /\ UNCHANGED <<up, life, shared, pos>>

\* A first multi-token pass attends over the K/V at hand (SDPAPrefill); any
\* other pass attends over the pool.
Prefills == fwd.start = 0 /\ fwd.n > 1

AfterLayer ==
  IF fwd.layer < NumLayers
    THEN /\ fwd' = [fwd EXCEPT !.at = "store", !.layer = @ + 1]
         /\ UNCHANGED pos
    ELSE /\ fwd' = IF Prefills \/ fwd.n = 1 THEN Idle ELSE [fwd EXCEPT !.at = "verify"]
         /\ pos' = [pos EXCEPT ![fwd.seq] = fwd.start + fwd.n]

LayerAttend ==
  /\ fwd.at = "attend"
  /\ IF Prefills THEN UNCHANGED poolVars
     ELSE CanAttend(fwd.layer, fwd.seq) /\ Attention(fwd.layer, fwd.seq)
  /\ AfterLayer
  /\ UNCHANGED <<up, life, shared>>

\* An error of a layer ends the Run goroutine.
LayerError ==
  /\ \/ /\ fwd.at = "store"
        /\ ~CanStoreKV(fwd.layer, fwd.seq, fwd.start, fwd.n)
        /\ FailStoreKV(fwd.layer, fwd.seq)
     \/ /\ fwd.at = "attend" /\ ~Prefills
        /\ ~CanAttend(fwd.layer, fwd.seq)
        /\ UNCHANGED poolVars
  /\ fwd' = [fwd EXCEPT !.at = "dead"]
  /\ UNCHANGED <<up, life, shared, pos>>

\* After a speculative verification: keep the input token and the accepted
\* drafts.
Rollback(len) ==
  /\ fwd.at = "verify"
  /\ len \in (fwd.start + 1)..(fwd.start + fwd.n)
  /\ TruncateSequence(fwd.seq, len)
  /\ pos' = [pos EXCEPT ![fwd.seq] = len]
  /\ fwd' = Idle
  /\ UNCHANGED <<up, life, shared>>

Next ==
  \/ \E s \in Seqs : Add(s) \/ Remove(s)
  \/ \E src, dst \in Seqs, n \in ShareLens : Share(src, dst, n)
  \/ \E s \in Seqs, n \in Chunks : Pick(s, n)
  \/ EnsureSequence \/ LayerStore \/ LayerAttend \/ LayerError
  \/ \E len \in 1..MaxLen : Rollback(len)

Spec == Init /\ [][Next]_vars

-----------------------------------------------------------------------------
(* Properties.                                                             *)

\* The types of the pool's state.
TypeOK ==
  /\ up \in BOOLEAN
  /\ tracked \subseteq Seqs
  /\ table \in [Layers -> [Seqs -> Seq(Blocks)]]
  /\ seqLen \in [Seqs -> Nat]
  /\ dirty \in [Layers -> [Seqs -> BOOLEAN]]
  /\ btGPU \in [Layers -> [Seqs -> Seq(Blocks)]]
  /\ freeList \in [Layers -> Seq(Blocks)]
  /\ refs \in [Layers -> [Blocks -> Nat]]
  /\ mem \in [Layers -> [Blocks -> [Offsets -> Seqs \cup {None}]]]
  /\ life \in [Seqs -> {"new", "live", "gone"}]
  /\ shared \in [Seqs -> (Seqs \cup {None}) \X Nat]
  /\ pos \in [Seqs -> Nat]
  /\ fwd \in [at : {"idle", "ensure", "store", "attend", "verify", "dead"},
              seq : Seqs \cup {None}, start : Nat, n : Nat, layer : Nat]

\* References of the tables to block b of layer l.
RefsTo(l, b) ==
  {si \in Seqs \X (1..MaxLen) :
     si[2] \in DOMAIN table[l][si[1]] /\ table[l][si[1]][si[2]] = b}

\* The reference count of a block is the number of table entries that name
\* it, whatever was shared, truncated, deleted or left behind by an error.
RefCountsExact ==
  \A l \in Layers, b \in Blocks : refs[l][b] = Cardinality(RefsTo(l, b))

\* The free list holds every unreferenced block exactly once and no other:
\* no block is lost, released twice, or handed out while in use.
FreeListExact ==
  /\ TypeOK
  /\ \A l \in Layers :
       /\ \A i, j \in DOMAIN freeList[l] : freeList[l][i] = freeList[l][j] => i = j
       /\ {freeList[l][i] : i \in DOMAIN freeList[l]} = {b \in Blocks : refs[l][b] = 0}

\* Whose K/V position p of a sequence is.
Expected(s, p) == IF p < shared[s][2] THEN shared[s][1] ELSE s

\* A kernel that attends for a live sequence reads, through the block table
\* uploaded to the GPU, that sequence's own K/V at every position up to its
\* length (a shared prefix counts as its own).
AttendsOwnKV ==
  [][\A l \in Layers, s \in Seqs :
       (LayerAttend /\ ~Prefills /\ fwd.layer = l /\ fwd.seq = s /\ life[s] = "live") =>
          \A p \in 0..(seqLen[s] - 1) :
            /\ p \div BlockSize < Len(btGPU'[l][s])
            /\ mem[l][BlockOf(btGPU'[l][s], p)][p % BlockSize] = Expected(s, p)]_vars

\* Between forward passes the layers of a live sequence agree: each has
\* exactly the blocks its position needs.
LayersAgree ==
  fwd.at = "idle" =>
    \A s \in Seqs : life[s] = "live" /\ s \in tracked =>
      /\ seqLen[s] = pos[s]
      /\ \A l \in Layers : Len(table[l][s]) = BlocksFor(pos[s])
=============================================================================
