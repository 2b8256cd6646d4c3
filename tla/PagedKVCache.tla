---------------------------- MODULE PagedKVCache -----------------------------
(***************************************************************************)
(* The host-side paged KV cache (inference/kv): the block allocator with   *)
(* one free list per layer and one reference count per block number, the   *)
(* block tables of the sequences, and the named fragments that sequences   *)
(* may share.  Its callers are the Run goroutine, which stores and gathers *)
(* layer by layer (runtime/block.go, ExecuteWithPagedKV without a GPU      *)
(* pool) and cuts rejected drafts off, and one handler per sequence, which *)
(* creates and deletes it and may cache or insert fragments while Run does *)
(* not work on it.  An action ends where the code releases a lock.         *)
(*                                                                         *)
(* A stored K/V pair is <<sequence, position, version>>: the position it   *)
(* was rotated for (RoPE) and the version of the sequence, which changes   *)
(* at every rollback so that rejected drafts differ from their successors. *)
(* Block tables are objects of their own: a caller may hold one that       *)
(* DeleteSequence has taken out of the map.                                *)
(***************************************************************************)
EXTENDS Integers, Sequences, FiniteSets

CONSTANTS
  Configs,      \* configurations NewPagedKVCache may get
  MaxSeqs,      \* bound: sequences ever created
  Chunks,       \* bound: tokens a forward pass may bring
  Cancellable,  \* sequences whose client may leave during a forward pass
  Disciplined   \* fragment callers keep to CanCache and Serial

\* A configuration is the PagedKVConfig, with the fragment names in use and, as
\* a bound, the longest sequence.
ASSUME CacheAssumption ==
  /\ \A c \in Configs : /\ c.NumLayers \in Nat \ {0}
                        /\ c.BlockSize \in Nat \ {0}
                        /\ c.MaxBlocks \in Nat
                        /\ c.MaxLen \in Nat
                        /\ IsFiniteSet(c.Names)
  /\ MaxSeqs \in Nat
  /\ Chunks \subseteq Nat \ {0}
  /\ Cancellable \subseteq 1..MaxSeqs
  /\ Disciplined \in BOOLEAN

VARIABLES
  config,     \* c.config
  alloc,      \* BlockAllocator: free[l] its stacks, ref its counts (0: no entry)
  data,       \* data[l][b][o]: Block.Data of a layer
  sequences,  \* c.sequences: the table object of a sequence, 0 for no entry
  table,      \* the BlockTable objects
  fragments,  \* FragmentCache.fragments
  nextSeqID,
  life,       \* "none", "fresh", "live" (with the scheduler), "finished", and once
              \* deleted "gone", "left" (in a pass) or "torn" (freed twice as well)
  ctx,        \* what the sequence consists of: the K/V its callers stored
  version,    \* rollbacks so far, modulo two
  batch,      \* sequences of the current scheduler step still to be run
  op,         \* the Run goroutine inside the cache
  ins         \* the InsertFragment call in progress

vars == <<config, alloc, data, sequences, table, fragments, nextSeqID, life,
          ctx, version, batch, op, ins>>

SeqIDs  == 1..MaxSeqs
Layers  == 1..config.NumLayers
Blocks  == 0..(config.MaxBlocks - 1)
Offsets == 0..(config.BlockSize - 1)

Unwritten == <<0, 0, 0>>

\* NewBlockTable.  Object s is the table CreateSequence makes for s, object
\* MaxSeqs + s the one made for it when the map has no entry any more.
NewBlockTable == [blocks |-> [l \in Layers |-> <<>>], seqLen |-> 0, ranges |-> <<>>]
Objects == 1..(2 * MaxSeqs)
TableOf(s) == IF sequences[s] = 0 THEN MaxSeqs + s ELSE sequences[s]

NoFragment == [ok |-> FALSE, num |-> 0, blocks |-> [l \in Layers |-> <<>>], is |-> <<>>]

Idle == [pc |-> "idle", s |-> 0, obj |-> 0, layer |-> 0, i |-> 0, start |-> 0, n |-> 0]
NoInsert == [pc |-> "idle", s |-> 0, fragment |-> NoFragment, pos |-> 0, obj |-> 0,
             done |-> [l \in Layers |-> 0]]

\* NewBlockAllocator: pushed in reverse, so that block 0 is popped first.
FullFreeList(m) == [i \in 1..m |-> m - i]

\* NewPagedKVCache.
Init ==
  /\ config \in Configs
  /\ alloc = [free |-> [l \in Layers |-> FullFreeList(config.MaxBlocks)],
              ref  |-> [b \in Blocks |-> 0]]
  /\ data = [l \in Layers |-> [b \in Blocks |-> [o \in Offsets |-> Unwritten]]]
  /\ sequences = [s \in SeqIDs |-> 0]
  /\ table = [t \in Objects |-> NewBlockTable]
  /\ fragments = [f \in config.Names |-> NoFragment]
  /\ nextSeqID = 1
  /\ life = [s \in SeqIDs |-> "none"]
  /\ ctx = [s \in SeqIDs |-> <<>>]
  /\ version = [s \in SeqIDs |-> 0]
  /\ batch = {}
  /\ op = Idle
  /\ ins = NoInsert

-----------------------------------------------------------------------------
(* BlockAllocator, as functions from one allocator state to the next.      *)

\* Free.  The count belongs to the block number, the stack to the layer.
Free(a, l, b) ==
  IF a.ref[b] <= 1
    THEN [free |-> [a.free EXCEPT ![l] = Append(@, b)], ref |-> [a.ref EXCEPT ![b] = 0]]
    ELSE [a EXCEPT !.ref[b] = @ - 1]

FreeLayer(a, l, t) ==
  LET after[i \in 0..Len(t)] == IF i = 0 THEN a ELSE Free(after[i - 1], l, t[i])
  IN  after[Len(t)]

\* Mutant: only the first layer's blocks are released.
FreeAll_FirstLayer(a, blocks) == FreeLayer(a, 1, blocks[1])

\* The nested loops over layers and their blocks.
FreeAll(a, blocks) ==
  LET after[l \in 0..config.NumLayers] ==
        IF l = 0 THEN a ELSE FreeLayer(after[l - 1], l, blocks[l])
  IN  after[config.NumLayers]

\* Block b is entry i of a layer's list.
Occurs(blocks, l, i, b) == i \in DOMAIN blocks[l] /\ blocks[l][i] = b
Indices == 1..(config.MaxBlocks + config.MaxLen)

\* Mutant: references are not counted.
AddRefs_None(a, blocks) == a

\* AddRef for every block of every layer.
AddRefs(a, blocks) ==
  [a EXCEPT !.ref = [b \in Blocks |-> a.ref[b] +
     Cardinality({u \in Layers \X Indices : Occurs(blocks, u[1], u[2], b)})]]

\* Allocate pops the stack of the layer and sets the count to one.
Allocate(a, l) ==
  LET b == a.free[l][Len(a.free[l])] IN
  [free |-> [a.free EXCEPT ![l] = SubSeq(@, 1, Len(@) - 1)],
   ref  |-> [a.ref EXCEPT ![b] = 1],
   got  |-> b]

-----------------------------------------------------------------------------
(* Handlers.                                                               *)

CreateSequence ==
  /\ nextSeqID <= MaxSeqs
  /\ nextSeqID' = nextSeqID + 1
  /\ sequences' = [sequences EXCEPT ![nextSeqID] = nextSeqID]
  /\ life' = [life EXCEPT ![nextSeqID] = "fresh"]
  /\ UNCHANGED <<config, alloc, data, table, fragments, ctx, version, batch, op, ins>>

\* AddSequence hands the sequence to the scheduler.
Publish(s) ==
  /\ life[s] = "fresh" /\ ins.s # s
  /\ life' = [life EXCEPT ![s] = "live"]
  /\ UNCHANGED <<config, alloc, data, sequences, table, fragments, nextSeqID,
                 ctx, version, batch, op, ins>>

\* RemoveSequence of the scheduler: when the stream has ended, or at any time
\* when the client leaves.  A table that Run does not hold is then garbage; a
\* sequence that leaves in a pass is stored on by it, in a table nobody deletes.
DeleteSequence(s) ==
  /\ life[s] = "finished" \/ (life[s] = "live" /\ s \in Cancellable)
  /\ life' = [life EXCEPT ![s] = IF op.s = s \/ s \in batch THEN "left" ELSE "gone"]
  /\ IF sequences[s] = 0
       THEN UNCHANGED <<alloc, sequences>>
       ELSE /\ alloc' = FreeAll(alloc, table[sequences[s]].blocks)
            /\ sequences' = [sequences EXCEPT ![s] = 0]
  /\ IF op.s = s \/ s \in batch
       THEN UNCHANGED <<table, ctx, version>>
       ELSE /\ table' = [table EXCEPT ![s] = NewBlockTable]
            /\ ctx' = [ctx EXCEPT ![s] = <<>>]
            /\ version' = [version EXCEPT ![s] = 0]
  /\ UNCHANGED <<config, data, fragments, nextSeqID, batch, op, ins>>

-----------------------------------------------------------------------------
(* Fragments.  The source calls them from tests only, one at a time; with  *)
(* Disciplined the callers keep to what these two operators say.           *)

\* Whole blocks, and no fragment inside that would need a shift of its own.
CanCache(t) ==
  Disciplined => /\ t.seqLen % config.BlockSize = 0
                 /\ \A i \in DOMAIN t.ranges : t.ranges[i].start = 0

\* Fragment operations exclude each other.
Serial == Disciplined => ins = NoInsert

\* CacheContent of a completed sequence, by its handler: the old fragment of
\* that name is released, then the table's blocks get one more reference.
CacheContent(f, s) ==
  /\ life[s] = "finished" /\ Serial
  /\ LET t == table[sequences[s]]
         released == IF fragments[f].ok THEN FreeAll(alloc, fragments[f].blocks) ELSE alloc
     IN  /\ CanCache(t)
         /\ alloc' = AddRefs(released, t.blocks)
         /\ fragments' = [fragments EXCEPT ![f] =
                            [ok |-> TRUE, num |-> t.seqLen, blocks |-> t.blocks, is |-> ctx[s]]]
  /\ UNCHANGED <<config, data, sequences, table, nextSeqID, life, ctx, version, batch, op, ins>>

\* FragmentCache.Delete.
DeleteFragment(f) ==
  /\ fragments[f].ok /\ Serial
  /\ alloc' = FreeAll(alloc, fragments[f].blocks)
  /\ fragments' = [fragments EXCEPT ![f] = NoFragment]
  /\ UNCHANGED <<config, data, sequences, table, nextSeqID, life, ctx, version, batch, op, ins>>

\* InsertFragment, by the handler of a sequence not yet published.  First the
\* fragment is looked up; an unknown name inserts nothing.
LookupFragment(f, s, insertPos) ==
  /\ life[s] = "fresh" /\ ins = NoInsert
  /\ fragments[f].ok
  /\ insertPos + fragments[f].num <= config.MaxLen
  /\ Disciplined => insertPos = Len(ctx[s])
  /\ ins' = [NoInsert EXCEPT !.pc = "table", !.s = s, !.fragment = fragments[f], !.pos = insertPos]
  /\ UNCHANGED <<config, alloc, data, sequences, table, fragments, nextSeqID,
                 life, ctx, version, batch, op>>

\* Under the lock: the table of the sequence, made if need be.
InsertTable ==
  /\ ins.pc = "table"
  /\ sequences' = [sequences EXCEPT ![ins.s] = TableOf(ins.s)]
  /\ ins' = [ins EXCEPT !.pc = "share", !.obj = TableOf(ins.s)]
  /\ UNCHANGED <<config, alloc, data, table, fragments, nextSeqID, life, ctx,
                 version, batch, op>>

Unshared == {l \in Layers : ins.done[l] < Len(ins.fragment.blocks[l])}

\* The loop, layer by layer: AddRef for the next block, under the allocator's
\* lock, and AppendBlock to a table that only this handler looks at.
ShareBlock ==
  /\ ins.pc = "share"
  /\ \E l \in Unshared :
       /\ \A k \in Unshared : l <= k
       /\ LET b == ins.fragment.blocks[l][ins.done[l] + 1] IN
          /\ alloc' = [alloc EXCEPT !.ref[b] = @ + 1]
          /\ table' = [table EXCEPT ![ins.obj].blocks[l] = Append(@, b)]
       /\ ins' = [ins EXCEPT !.done[l] = @ + 1]
  /\ UNCHANGED <<config, data, sequences, fragments, nextSeqID, life, ctx, version, batch, op>>

Larger(a, b) == IF a > b THEN a ELSE b

\* K/V c with K/V d laid over it from position p on.
Overlaid(c, d, p) ==
  [j \in 1..Larger(Len(c), p + Len(d)) |-> IF j > p /\ j <= p + Len(d) THEN d[j - p]
                                           ELSE IF j <= Len(c) THEN c[j] ELSE Unwritten]

\* Mutant: the shift of the inserted positions is not recorded.
InsertRange_NoShift ==
  /\ ins.pc = "share" /\ Unshared = {}
  /\ LET f == ins.fragment IN
     /\ table' = [table EXCEPT ![ins.obj].seqLen = Larger(@, ins.pos + f.num)]
     /\ ctx' = [ctx EXCEPT ![ins.s] = Overlaid(@, f.is, ins.pos)]
  /\ ins' = NoInsert
  /\ UNCHANGED <<config, alloc, data, sequences, fragments, nextSeqID, life, version, batch, op>>

\* After the loop the range is recorded with its RoPE shift, which is the
\* position it starts at.
InsertRange ==
  /\ ins.pc = "share" /\ Unshared = {}
  /\ LET f == ins.fragment IN
     /\ table' = [table EXCEPT ![ins.obj].ranges = Append(@, [start |-> ins.pos, num |-> f.num]),
                               ![ins.obj].seqLen = Larger(@, ins.pos + f.num)]
     /\ ctx' = [ctx EXCEPT ![ins.s] = Overlaid(@, f.is, ins.pos)]
  /\ ins' = NoInsert
  /\ UNCHANGED <<config, alloc, data, sequences, fragments, nextSeqID, life, version, batch, op>>

-----------------------------------------------------------------------------
(* The Run goroutine.                                                      *)

\* A scheduler step takes a batch from the registered sequences.
FormBatch ==
  /\ op.pc = "idle" /\ batch = {}
  /\ batch' \in (SUBSET {s \in SeqIDs : life[s] = "live" /\ Len(ctx[s]) < config.MaxLen}) \ {{}}
  /\ UNCHANGED <<config, alloc, data, sequences, table, fragments, nextSeqID,
                 life, ctx, version, op, ins>>

\* A forward pass over n tokens of s: prefill, decode or verification.
StartPass(s, n) ==
  /\ op.pc = "idle" /\ s \in batch
  /\ Len(ctx[s]) + n <= config.MaxLen
  /\ batch' = batch \ {s}
  /\ op' = [pc |-> "store", s |-> s, obj |-> 0, layer |-> 1, i |-> 0,
            start |-> Len(ctx[s]), n |-> n]
  /\ ctx' = [ctx EXCEPT ![s] = @ \o [j \in 1..n |-> <<s, Len(@) + j - 1, version[s]>>]]
  /\ UNCHANGED <<config, alloc, data, sequences, table, fragments, nextSeqID,
                 life, version, ins>>

\* StoreKV, under the lock: the table of the sequence, made if need be.
StoreKVLookup ==
  /\ op.pc = "store"
  /\ sequences' = [sequences EXCEPT ![op.s] = TableOf(op.s)]
  /\ op' = [op EXCEPT !.pc = "fill", !.obj = TableOf(op.s)]
  /\ UNCHANGED <<config, alloc, data, table, fragments, nextSeqID, life, ctx,
                 version, batch, ins>>

Pos == op.start + op.i
BlockIdx(p) == p \div config.BlockSize
HasBlock(t, l, p) == BlockIdx(p) < Len(t.blocks[l])
BlockID(t, l, p) == t.blocks[l][BlockIdx(p) + 1]

\* StoreKV looks at the table it holds; AllocateBlock, under the lock, extends
\* the table that is in the map.
AllocateBlock ==
  /\ op.pc = "fill" /\ ~HasBlock(table[op.obj], op.layer, Pos)
  /\ sequences' = [sequences EXCEPT ![op.s] = TableOf(op.s)]
  /\ IF alloc.free[op.layer] = <<>>
       THEN op' = [Idle EXCEPT !.pc = "dead"] /\ UNCHANGED <<alloc, table>>
       ELSE LET a == Allocate(alloc, op.layer) IN
            /\ alloc' = [free |-> a.free, ref |-> a.ref]
            /\ table' = [table EXCEPT ![TableOf(op.s)].blocks[op.layer] = Append(@, a.got)]
            /\ UNCHANGED op
  /\ UNCHANGED <<config, data, fragments, nextSeqID, life, ctx, version, batch, ins>>

\* Mutant: the offset in the block is that of the first token of the batch.
WriteKV_FixedOffset ==
  /\ op.pc = "fill" /\ HasBlock(table[op.obj], op.layer, Pos)
  /\ data' = [data EXCEPT ![op.layer][BlockID(table[op.obj], op.layer, Pos)]
                            [op.start % config.BlockSize] = ctx[op.s][Pos + 1]]
  /\ table' = [table EXCEPT ![op.obj].seqLen = Larger(@, Pos + 1)]
  /\ op' = IF op.i + 1 < op.n THEN [op EXCEPT !.pc = "store", !.i = @ + 1]
                              ELSE [op EXCEPT !.pc = "attend"]
  /\ UNCHANGED <<config, alloc, sequences, fragments, nextSeqID, life, ctx,
                 version, batch, ins>>

\* The rest of StoreKV for one token, and the loop of StoreKVBatch.
WriteKV ==
  /\ op.pc = "fill" /\ HasBlock(table[op.obj], op.layer, Pos)
  /\ data' = [data EXCEPT ![op.layer][BlockID(table[op.obj], op.layer, Pos)]
                            [Pos % config.BlockSize] = ctx[op.s][Pos + 1]]
  /\ table' = [table EXCEPT ![op.obj].seqLen = Larger(@, Pos + 1)]
  /\ op' = IF op.i + 1 < op.n THEN [op EXCEPT !.pc = "store", !.i = @ + 1]
                              ELSE [op EXCEPT !.pc = "attend"]
  /\ UNCHANGED <<config, alloc, sequences, fragments, nextSeqID, life, ctx,
                 version, batch, ins>>

\* GetKVSlice over positions 0..n-1; a missing block reads as zeros.
GetKVSlice(s, l, n) ==
  LET t == table[sequences[s]] IN
  [p \in 1..n |-> IF HasBlock(t, l, p - 1)
                    THEN data[l][BlockID(t, l, p - 1)][(p - 1) % config.BlockSize]
                    ELSE Unwritten]

\* GetKVSliceForAttention: the position a stored K stands for after the shifts
\* of the fragment ranges that end within the first n positions.
RoPEPosition(s, l, n, p) ==
  LET t == table[sequences[s]]
      hit == {i \in DOMAIN t.ranges : /\ t.ranges[i].start + t.ranges[i].num <= n
                                      /\ t.ranges[i].start <= p
                                      /\ p < t.ranges[i].start + t.ranges[i].num}
      shift == IF hit = {} THEN 0 ELSE t.ranges[CHOOSE i \in hit : TRUE].start
  IN  GetKVSlice(s, l, n)[p + 1][2] + shift

\* The layer attends (the gathered K/V is what the invariants look at) and the
\* next layer follows.  After the last one a sequence may turn out finished;
\* a verification goes on to its rollback.  Without a table the slices are nil
\* and taking the address of their first element panics.
Attend ==
  /\ op.pc = "attend"
  /\ IF sequences[op.s] = 0
       THEN op' = [Idle EXCEPT !.pc = "dead"] /\ UNCHANGED life
     ELSE IF op.layer < config.NumLayers
       THEN op' = [op EXCEPT !.pc = "store", !.layer = @ + 1, !.i = 0] /\ UNCHANGED life
       ELSE IF op.n > 1 /\ op.start > 0
         THEN op' = [op EXCEPT !.pc = "verify"] /\ UNCHANGED life
         ELSE /\ op' = Idle
              /\ \E end \in {life[op.s], "finished"} :
                   life' = [life EXCEPT ![op.s] = IF @ = "live" THEN end ELSE @]
  /\ UNCHANGED <<config, alloc, data, sequences, table, fragments, nextSeqID,
                 ctx, version, batch, ins>>

\* TruncateSequence, under the lock: the table.  len tokens are accepted.
TruncateLookup(len) ==
  /\ op.pc = "verify"
  /\ len \in (op.start + 1)..(op.start + op.n)
  /\ op' = IF sequences[op.s] = 0 THEN Idle
           ELSE [op EXCEPT !.pc = "cut", !.obj = sequences[op.s], !.n = len - op.start]
  /\ UNCHANGED <<config, alloc, data, sequences, table, fragments, nextSeqID,
                 life, ctx, version, batch, ins>>

NeededBlocks(len) == (len + config.BlockSize - 1) \div config.BlockSize

\* TruncateSequence, after the lock: TruncateBlocks, then Free for every block
\* cut off, also of a table that has been deleted, and freed, since.
TruncateSequence ==
  /\ op.pc = "cut"
  /\ LET len  == op.start + op.n
         t    == table[op.obj]
         keep == NeededBlocks(len)
     IN  IF len >= t.seqLen THEN UNCHANGED <<alloc, table, life, ctx, version>>
         ELSE /\ alloc' = FreeAll(alloc, [l \in Layers |-> SubSeq(t.blocks[l], keep + 1, Len(t.blocks[l]))])
              /\ table' = [table EXCEPT ![op.obj] =
                   [t EXCEPT !.blocks = [l \in Layers |-> IF keep < Len(t.blocks[l])
                                                            THEN SubSeq(t.blocks[l], 1, keep)
                                                            ELSE t.blocks[l]],
                             !.seqLen = len]]
              /\ life' = [life EXCEPT ![op.s] = IF op.obj = sequences[op.s] THEN @ ELSE "torn"]
              /\ ctx' = [ctx EXCEPT ![op.s] = SubSeq(@, 1, len)]
              /\ version' = [version EXCEPT ![op.s] = 1 - @]
  /\ op' = Idle
  /\ UNCHANGED <<config, data, sequences, fragments, nextSeqID, batch, ins>>

Run ==
  \/ FormBatch \/ (\E s \in SeqIDs, n \in Chunks : StartPass(s, n))
  \/ StoreKVLookup \/ AllocateBlock \/ WriteKV \/ Attend
  \/ (\E len \in 1..config.MaxLen : TruncateLookup(len)) \/ TruncateSequence

Handlers ==
  \/ CreateSequence
  \/ \E s \in SeqIDs : Publish(s) \/ DeleteSequence(s)

Fragments ==
  \/ \E f \in config.Names : \/ DeleteFragment(f)
                             \/ \E s \in SeqIDs : CacheContent(f, s)
                             \/ \E s \in SeqIDs, p \in 0..config.MaxLen : LookupFragment(f, s, p)
  \/ InsertTable \/ ShareBlock \/ InsertRange

Next == Run \/ Handlers \/ Fragments

Spec == Init /\ [][Next]_vars

-----------------------------------------------------------------------------
(* Properties.                                                             *)

\* Block numbers stay in range, counts are natural numbers and tables are
\* never longer than the stored positions (paged.go, BlockAllocator).
TypeOK ==
  /\ \A l \in Layers : alloc.free[l] \in Seq(Blocks)
  /\ alloc.ref \in [Blocks -> Nat]
  /\ sequences \in [SeqIDs -> {0} \cup Objects]
  /\ \A t \in Objects : /\ table[t].seqLen \in 0..config.MaxLen
                        /\ \A l \in Layers : table[t].blocks[l] \in Seq(Blocks)
  /\ nextSeqID \in 1..(MaxSeqs + 1)
  /\ batch \subseteq SeqIDs
  /\ op.pc \in {"idle", "store", "fill", "attend", "verify", "cut", "dead"}

\* Some truncation freed blocks of a table that had been deleted since it was
\* looked up: they are on the free list twice from then on.
Torn == \E s \in SeqIDs : life[s] = "torn"

\* References to block b of layer l: from registered tables, from fragments.
InTables(l, b) == {u \in SeqIDs \X Indices : /\ sequences[u[1]] # 0
                                             /\ Occurs(table[sequences[u[1]]].blocks, l, u[2], b)}
InFragments(l, b) == {u \in config.Names \X Indices : Occurs(fragments[u[1]].blocks, l, u[2], b)}
References(l, b) == Cardinality(InTables(l, b)) + Cardinality(InFragments(l, b))

\* Until a truncation races a deletion, a block of a layer is on its free list,
\* once, exactly when no registered table and no fragment holds it, whatever
\* else is deleted between the steps of a forward pass: nothing is handed out
\* twice, and what is shared survives the sequence it came from.  A sequence
\* deleted between passes keeps nothing; one deleted in a pass may keep the
\* table StoreKV makes for it (paged.go, Free and Allocate; paged_cache.go,
\* DeleteSequence and StoreKV).
BlocksAccounted ==
  /\ TypeOK
  /\ \A s \in SeqIDs : life[s] = "gone" => sequences[s] = 0
  /\ ~Torn => \A l \in Layers, b \in Blocks :
       Cardinality({i \in DOMAIN alloc.free[l] : alloc.free[l][i] = b})
         = IF References(l, b) = 0 THEN 1 ELSE 0

\* With one layer, where block numbers identify blocks, the counts are exact
\* (paged.go, refCounts).
RefCountsExact ==
  (config.NumLayers = 1 /\ ~Torn) => \A b \in Blocks : alloc.ref[b] = References(1, b)

\* The running sequence is still registered and no block is on a free list twice.
Attends == op.pc = "attend" /\ life[op.s] = "live" /\ ~Torn

\* Attention gathers, for every position of a sequence that has not been
\* deleted, the K/V stored for that position: not another sequence's, not a
\* rejected draft's, not an unwritten slot's, whoever else left in the middle of
\* a pass (paged_cache.go, GetKVSlice after StoreKVBatch).
AttendsOwnKV ==
  Attends => GetKVSlice(op.s, op.layer, Len(ctx[op.s])) = ctx[op.s]

\* After the shifts of its fragments, every gathered K is rotated for the
\* position at which it is attended to (GetKVSliceForAttention).
RoPEMatchesPosition ==
  Attends => \A p \in 0..(Len(ctx[op.s]) - 1) :
               RoPEPosition(op.s, op.layer, Len(ctx[op.s]), p) = p
=============================================================================
