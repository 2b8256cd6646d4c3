---------------------------- MODULE DeviceMemory ----------------------------
(***************************************************************************)
(* The device memory of one process: the Metal backend's buffer pool       *)
(* (Alloc, AllocPermanent, Free, ResetPool), the bump allocator of         *)
(* VEXEL_SCRATCH=1, the scratch arena, and everything that allocates from  *)
(* them while a model serves or is fine-tuned:                             *)
(*                                                                         *)
(*   - the single GPU KV cache (gpu_kv_cache.go), the GPU block pool       *)
(*     (gpu_block_pool.go) and the CPU paged cache's round trip;           *)
(*   - the decode functions (decode.go) and the layer (block.go);          *)
(*   - LoRA training: TrainingForward, Backward and the SGD step.          *)
(*                                                                         *)
(* ResetPool recycles EVERY buffer Alloc has handed out, at the start of   *)
(* each pass, whoever still uses it.  A pass is the sequence of memory     *)
(* operations its code performs (plan); an action executes the next one.   *)
(* The data is reduced to which rows a long-lived buffer still holds.      *)
(***************************************************************************)
EXTENDS Integers, Sequences, FiniteSets, SequencesExt

CONSTANTS
  Uses,       \* what the process does: a subset of "f16", "f32" (GPU KV cache of that precision), "blocks" (GPU block pool), "cpupaged", "train"
  ScratchOn,  \* {FALSE}, or with TRUE the VEXEL_SCRATCH=1 builds too (these force the FP32 cache)
  NumLayers,
  Dims,       \* [hidden, heads, kvHeads, headDim, inter, vocab]
  Rank,       \* LoRA rank
  MaxSeq,     \* rows of the KV cache; the largest batch the arena is sized for
  Lengths,    \* the lengths of prompts and of training examples
  MaxPasses   \* bound on the passes of a behaviour

AllUses == {"f16", "f32", "blocks", "cpupaged", "train"}

ASSUME UsesAssumption == Uses \subseteq AllUses /\ ScratchOn \subseteq BOOLEAN
ASSUME SizesAssumption ==
  /\ NumLayers \in Nat \ {0} /\ Rank \in Nat \ {0} /\ MaxSeq \in Nat \ {0}
  /\ MaxPasses \in Nat /\ Lengths \subseteq Nat \ {0}
  /\ Dims \in [{"hidden", "heads", "kvHeads", "headDim", "inter", "vocab"} -> Nat \ {0}]

VARIABLES
  use,      \* what this process does, [kind, scratch]
  size,     \* size[b]: the bytes of Metal buffer b; buffers are numbered as they are created
  avail,    \* pool.available, as one sequence: per size it is the code's stack
  inUse,    \* pool.inUse
  freed,    \* buffers given to metal_release
  held,     \* long-lived holder -> its buffer
  rows,     \* long-lived holder -> the rows (positions) still intact in it
  slot,     \* temporary of the running pass -> [buf, off, n], for the current layer
  plan,     \* the memory operations left in the running pass
  scratch,  \* [buf, off]: the bump allocator
  arena,    \* bytes taken from the arena in this pass
  seqLen,   \* rows in the cache
  passes,   \* passes begun
  clean     \* no pass asked for a size some long-lived pooled buffer has

pool == <<size, avail, inUse, freed>>
vars == <<use, size, avail, inUse, freed, held, rows, slot, plan, scratch, arena, seqLen, passes, clean>>

----------------------------------------------------------------------------
(* Sizes                                                                   *)

LayerIds == 0 .. NumLayers - 1
QDim  == Dims.heads * Dims.headDim
KVDim == Dims.kvHeads * Dims.headDim

\* ModelConfig.ScratchBytes: the peak of a layer's intermediates, or the logits.
ScratchBytes(n) ==
  LET block == n * Dims.hidden + 2 * n * QDim + 2 * n * KVDim + n * n + 4 * n * Dims.inter
      logits == n * Dims.vocab
  IN  4 * (IF logits > block THEN logits ELSE block)

\* ModelConfig.TotalArenaBytes for the arena initModel creates, headroom included.
TotalArenaBytes(n) ==
  LET total == n * 4 + n * Dims.hidden * 4 + ScratchBytes(n) + Dims.vocab * 4
  IN  total + total \div 10

\* The bump allocator's capacity: one decode step and room to align its eight buffers.
ScratchCapacity == ScratchBytes(1) + 7 * 256

\* newGPUKVCacheWithKVPrecision: one K and one V buffer per layer.
KVBufferBytes(kind) == MaxSeq * KVDim * (IF kind = "f16" THEN 2 ELSE 4)

\* AllocGradients: the A and B matrices of the four adapted projections.
GradientBytes ==
  [QA |-> Rank * Dims.hidden * 4, QB |-> QDim * Rank * 4,
   KA |-> Rank * Dims.hidden * 4, KB |-> KVDim * Rank * 4,
   VA |-> Rank * Dims.hidden * 4, VB |-> KVDim * Rank * 4,
   OA |-> Rank * QDim * 4,        OB |-> Dims.hidden * Rank * 4]

Matrices(what, l) == [i \in 1 .. 8 |-> <<what, l, <<"QA", "QB", "KA", "KB", "VA", "VB", "OA", "OB">>[i]>>]

\* The long-lived buffers of each kind of process and how they are allocated.
Cached  == {"K", "V"} \X LayerIds
Trained == {"grad", "momentum"} \X LayerIds \X DOMAIN GradientBytes
Holders(kind) ==
  CASE kind \in {"f16", "f32"} -> Cached
    [] kind = "blocks"         -> {<<"pool", l>> : l \in LayerIds}
    [] kind = "cpupaged"       -> {}
    [] kind = "train"          -> Trained
HolderBytes(kind, h) ==
  CASE kind = "train"  -> GradientBytes[h[3]]
    [] kind = "blocks" -> 2 * MaxSeq * KVDim * 2
    [] OTHER           -> KVBufferBytes(kind)

\* Holders whose buffer comes from the recycled pool (NewGPUBlockPool alone asks for permanent ones).
Pooled(kind) == IF kind = "blocks" THEN {} ELSE Holders(kind)

----------------------------------------------------------------------------
(* The plan of a pass                                                      *)

Op(o, s, n) == [op |-> o, s |-> s, n |-> n]
Alloc(s, n)  == Op("alloc", s, n)                 \* Backend.Alloc
Bump(s, n)   == Op("bump", s, n)                  \* Backend.ScratchAlloc
Arena(s, n) == Op("arena", s, n)                 \* Arena.Alloc
Write(s)     == Op("write", s, 0)                 \* a kernel fills temporary s
Fill(s, n)   == <<Alloc(s, n), Write(s)>>         \* allocate and fill
Fills(reqs)  == FlattenSeq([i \in DOMAIN reqs |-> Fill(reqs[i][1], reqs[i][2])])
Layers(P(_)) == FlattenSeq([i \in 1 .. NumLayers |-> P(i - 1)])

\* The intermediates of a layer, in the order ExecuteWithGPUKV allocates them.
Intermediates(n) ==
  << <<"normOut", n * Dims.hidden * 4>>, <<"q", n * QDim * 4>>, <<"k", n * KVDim * 4>>,
     <<"v", n * KVDim * 4>>, <<"attnOut", n * QDim * 4>>, <<"gate", n * Dims.inter * 4>>,
     <<"up", n * Dims.inter * 4>>, <<"fusedMLPTemp", n * Dims.inter * 8>> >>

\* ExecuteWithGPUKV: the FP16 cache takes four more buffers in prefill (decode reuses permanent
\* ones); the projections are written before AppendKV, the attention output and the MLP after it.
LayerGPUKV(kind, n, l) ==
  LET reqs == Intermediates(n)
  IN  <<Op("rewind", "", 0)>>
      \o [i \in DOMAIN reqs |-> Bump(reqs[i][1], reqs[i][2])]
      \o (IF kind = "f16" /\ n > 1
          THEN <<Alloc("kF16", n * KVDim * 2), Alloc("vF16", n * KVDim * 2),
                 Alloc("qF16", n * QDim * 2), Alloc("attnOutF16", n * QDim * 2)>>
          ELSE << >>)
      \o <<Write("normOut"), Write("q"), Write("k"), Write("v")>>
      \o (IF kind = "f16" /\ n > 1 THEN <<Write("kF16"), Write("vF16")>> ELSE << >>)
      \o <<Op("append", <<"K", l>>, n), Op("append", <<"V", l>>, n)>>
      \o <<Write("attnOut"), Write("gate"), Write("up")>>

\* ExecuteWithPagedKV: seven pooled intermediates; the block pool copies a prefill token by token
\* through a buffer it allocates permanently and frees, the CPU cache uploads the whole context.
LayerPagedKV(kind, n, l) ==
  LET reqs == SubSeq(Intermediates(n), 1, 7)
  IN  [i \in DOMAIN reqs |-> Alloc(reqs[i][1], reqs[i][2])]
      \o <<Write("normOut"), Write("q"), Write("k"), Write("v")>>
      \o (CASE kind = "blocks" ->
                 (IF n > 1 THEN <<Op("permanent", "tokenBuf", KVDim * 4), Op("free", "tokenBuf", 0)>>
                           ELSE << >>)
                 \o <<Op("store", <<"pool", l>>, n)>>
            [] OTHER -> Fills(<< <<"fullK", (seqLen + n) * KVDim * 4>>,
                                 <<"fullV", (seqLen + n) * KVDim * 4>> >>))
      \o <<Write("attnOut"), Write("gate"), Write("up")>>

\* The scratch a pass asks of the arena: PrefillWithPagedKV adds room for the scores, DecodeWithPagedKV
\* for K and V of the whole context. The latter alone computes the logits of every row.
FirstPaged(kind) == kind \in {"blocks", "cpupaged"} /\ seqLen = 0
LaterPaged(kind) == kind \in {"blocks", "cpupaged"} /\ seqLen > 0
LayerScratch(kind, n) ==
  ScratchBytes(n) + (IF FirstPaged(kind) THEN n * n * 4 ELSE 0)
                  + (IF LaterPaged(kind) THEN (seqLen + n) * KVDim * 8 ELSE 0)
LogitsRows(kind, n) == IF LaterPaged(kind) THEN n ELSE 1

\* PrefillWithPagedKV, DecodeWithPagedKV, DecodeWithGPUKV: the arena's three buffers, the layers, the
\* last row's copy where only its logits are computed, the logits.
ForwardPlan(kind, n) ==
  <<Arena("tokens", n * 4), Write("tokens"), Arena("state", n * Dims.hidden * 4), Write("state"),
    Arena("layerScratch", LayerScratch(kind, n))>>
  \o Layers(LAMBDA l : IF kind \in {"f16", "f32"} THEN LayerGPUKV(kind, n, l) ELSE LayerPagedKV(kind, n, l))
  \o <<Op("commit", "", n)>>
  \o (IF n > LogitsRows(kind, n) THEN Fill("lastState", Dims.hidden * 4) ELSE << >>)
  \o <<Arena("logits", LogitsRows(kind, n) * Dims.vocab * 4), Write("logits")>>

\* applyLoRA: the rank-sized intermediate and the delta.
LoRADelta(n, out) == << <<"intermediate", n * Rank * 4>>, <<"loraOut", n * out * 4>> >>

\* BlockRuntime.TrainingForward: every intermediate and its saved copy.
LayerTrainingForward(n) ==
  LET h == n * Dims.hidden * 4  q == n * QDim * 4  kv == n * KVDim * 4  g == n * Dims.inter * 4
  IN  Fills(<< <<"Residual", h>>, <<"NormOut", h>>, <<"q", q>>, <<"k", kv>>, <<"v", kv>> >>
            \o LoRADelta(n, QDim) \o LoRADelta(n, KVDim) \o LoRADelta(n, KVDim)
            \o << <<"V", kv>>, <<"Q", q>>, <<"K", kv>>, <<"attnOut", q>>, <<"AttnOut", q>>, <<"woOut", h>> >>
            \o LoRADelta(n, Dims.hidden)
            \o << <<"FFNNormOut", h>>, <<"gate", g>>, <<"up", g>>, <<"Gate", g>>, <<"Up", g>>, <<"mlpOut", h>> >>)

\* Backward: the gradients of one layer, loraGrads' eight rank-sized buffers among them.
LayerBackward(n) ==
  LET h == n * Dims.hidden * 4  q == n * QDim * 4  kv == n * KVDim * 4  g == n * Dims.inter * 4
  IN  Fills(<< <<"dAct", g>>, <<"dGate", g>>, <<"dUp", g>>, <<"dFFNInput", h>>, <<"tmp", h>>, <<"tmp", h>>,
               <<"ffnNormInput", h>>, <<"dFFNNorm", h>>, <<"dAttnOut", q>>, <<"dQ", q>>, <<"dK", kv>>,
               <<"dV", kv>>, <<"attnWeights", Dims.heads * n * n * 4>> >>
            \o [i \in 1 .. 8 |-> <<"inter", n * Rank * 4>>]
            \o << <<"dNormOut", h>>, <<"tmp", h>>, <<"tmp", h>>, <<"tmp", h>>, <<"dAttnNorm", h>> >>)

\* Trainer.Train, one example: forward, targets and mask, ZeroGradients, Backward, sgdUpdate.
TrainPlan(n) ==
  Fills(<< <<"tokens", n * 4>>, <<"state", n * Dims.hidden * 4>> >>)
  \o Layers(LAMBDA l : LayerTrainingForward(n))
  \o Fills(<< <<"normOut", n * Dims.hidden * 4>>, <<"logits", n * Dims.vocab * 4>>,
              <<"targets", n * 4>>, <<"mask", n * 4>> >>)
  \o <<Op("zero", "", 0)>>
  \o Fills(<< <<"dLogits", n * Dims.vocab * 4>>, <<"dFinalNormOut", n * Dims.hidden * 4>>,
              <<"dResidual", n * Dims.hidden * 4>> >>)
  \o Layers(LAMBDA l : LayerBackward(n))
  \o <<Op("update", "", 0)>>

Plan(kind, n) == IF kind = "train" THEN TrainPlan(n) ELSE ForwardPlan(kind, n)

----------------------------------------------------------------------------
(* Start up                                                                *)

NoSlots == [s \in {} |-> 0]

\* The order in which the constructors allocate: the cache layer by layer, all gradients before the momenta.
HolderSeq(kind) ==
  CASE kind \in {"f16", "f32"} -> Layers(LAMBDA l : << <<"K", l>>, <<"V", l>> >>)
    [] kind = "blocks"         -> Layers(LAMBDA l : << <<"pool", l>> >>)
    [] kind = "cpupaged"       -> << >>
    [] kind = "train"          -> Layers(LAMBDA l : Matrices("grad", l)) \o Layers(LAMBDA l : Matrices("momentum", l))

Init ==
  /\ \E kind \in Uses, s \in ScratchOn :
       /\ s => kind = "f32"                       \* CreateGPUKVCache: scratch disables FP16
       /\ use = [kind |-> kind, scratch |-> s]
       /\ LET hs == HolderSeq(kind)
              ids == [h \in Holders(kind) |-> CHOOSE i \in DOMAIN hs : hs[i] = h]
          IN  /\ held = ids
              /\ size = [i \in DOMAIN hs |-> HolderBytes(kind, hs[i])]
                        \o (IF s THEN <<ScratchCapacity>> ELSE << >>)
              /\ inUse = IF Pooled(kind) = {} THEN << >> ELSE [i \in DOMAIN hs |-> i]
              /\ scratch = [buf |-> IF s THEN Len(hs) + 1 ELSE 0, off |-> 0]
       /\ rows = [h \in Holders(kind) |-> IF kind = "train" THEN {0} ELSE {}]
  /\ avail = << >> /\ freed = {} /\ slot = NoSlots /\ plan = << >>
  /\ arena = 0 /\ seqLen = 0 /\ passes = 0 /\ clean = TRUE

----------------------------------------------------------------------------
(* The pool                                                                *)

\* The buffers of the pool that Alloc(n) may take: those of exactly this size.
\* Mutant: any buffer that is large enough.
Reusable_Larger(n) == {i \in DOMAIN avail : size[avail[i]] >= n}
Reusable(n) == {i \in DOMAIN avail : size[avail[i]] = n}

\* Name s of the pass now stands for n bytes of buffer b.
Bind(s, b, off, n) ==
  slot' = [x \in DOMAIN slot \cup {s} |-> IF x = s THEN [buf |-> b, off |-> off, n |-> n] ELSE slot[x]]

\* Alloc pops the most recently returned buffer of the size, or creates one.
TakeBuffer(s, n) ==
  \/ /\ Reusable(n) # {}
     /\ LET i == CHOOSE x \in Reusable(n) : \A y \in Reusable(n) : y <= x
        IN  /\ avail' = RemoveAt(avail, i)
            /\ inUse' = Append(inUse, avail[i])
            /\ Bind(s, avail[i], 0, n)
     /\ UNCHANGED size
  \/ /\ Reusable(n) = {}
     /\ size' = Append(size, n)
     /\ inUse' = Append(inUse, Len(size) + 1)
     /\ Bind(s, Len(size) + 1, 0, n)
     /\ UNCHANGED avail

\* ResetPool: everything handed out goes back, in order.
\* Mutant: the in-use list is not emptied.
ResetPool_Keeps == avail' = avail \o inUse /\ inUse' = inUse
ResetPool == avail' = avail \o inUse /\ inUse' = << >>

Next1 == plan[1]
Advance == plan' = Tail(plan)
Running(o) == plan # << >> /\ Next1.op = o

\* A decode function or Trainer.Train starts: ResetPool, ResetScratch, and the pass's operations.
BeginPass(n) ==
  /\ plan = << >> /\ passes < MaxPasses
  /\ ResetPool
  /\ plan' = Plan(use.kind, n)
  /\ arena' = 0 /\ slot' = NoSlots /\ passes' = passes + 1
  /\ clean' = (clean /\ (use.kind \in {"f16", "f32"} => seqLen + n <= MaxSeq)
                     /\ \A i \in DOMAIN plan' : plan'[i].op \in {"alloc", "arena", "bump"} =>
                           \A h \in Pooled(use.kind) : size[held[h]] # plan'[i].n)
  /\ UNCHANGED <<use, size, freed, held, rows, scratch, seqLen>>

\* A new request on the single cache: GPUKVCache.Reset.
NewSequence ==
  /\ plan = << >> /\ use.kind # "train" /\ seqLen > 0
  /\ seqLen' = 0
  /\ rows' = [h \in DOMAIN rows |-> {}]
  /\ UNCHANGED <<use, size, avail, inUse, freed, held, slot, plan, scratch, arena, passes, clean>>

DoAlloc ==
  /\ Running("alloc") /\ TakeBuffer(Next1.s, Next1.n) /\ Advance
  /\ UNCHANGED <<use, freed, held, rows, scratch, arena, seqLen, passes, clean>>

\* Arena.Alloc: counts against the arena's size, then takes a pooled buffer.
DoArena ==
  /\ Running("arena") /\ arena + Next1.n <= TotalArenaBytes(MaxSeq)
  /\ arena' = arena + Next1.n
  /\ TakeBuffer(Next1.s, Next1.n) /\ Advance
  /\ UNCHANGED <<use, freed, held, rows, scratch, seqLen, passes, clean>>

\* The arena is exhausted: the decode function returns the error.
ArenaOOM ==
  /\ Running("arena") /\ arena + Next1.n > TotalArenaBytes(MaxSeq)
  /\ plan' = << >>
  /\ UNCHANGED <<use, pool, held, rows, slot, scratch, arena, seqLen, passes, clean>>

\* ScratchAllocator.Alloc rounds the bump pointer up to 256 bytes.
Aligned(off) == ((off + 255) \div 256) * 256
\* Mutant: the padding is not added to the bump pointer.
Bumped_NoPadding(off, n) == off + n
Bumped(off, n) == Aligned(off) + n
Fits(n) == use.scratch /\ Aligned(scratch.off) + n <= ScratchCapacity

DoBump ==
  /\ Running("bump") /\ Fits(Next1.n)
  /\ Bind(Next1.s, scratch.buf, Aligned(scratch.off), Next1.n)
  /\ scratch' = [scratch EXCEPT !.off = Bumped(scratch.off, Next1.n)]
  /\ Advance
  /\ UNCHANGED <<use, pool, held, rows, arena, seqLen, passes, clean>>

\* Backend.ScratchAlloc falls back to the pool.
BumpFallback ==
  /\ Running("bump") /\ ~Fits(Next1.n)
  /\ TakeBuffer(Next1.s, Next1.n) /\ Advance
  /\ UNCHANGED <<use, freed, held, rows, scratch, arena, seqLen, passes, clean>>

\* ScratchReset at the start of a layer: the previous layer's intermediates are dead.
Rewind ==
  /\ Running("rewind") /\ Advance
  /\ scratch' = [scratch EXCEPT !.off = 0]
  /\ slot' = [s \in DOMAIN slot \cap {"tokens", "state", "layerScratch"} |-> slot[s]]
  /\ UNCHANGED <<use, pool, held, rows, arena, seqLen, passes, clean>>

\* AllocPermanent: a new buffer the pool never sees.
DoPermanent ==
  /\ Running("permanent") /\ Advance
  /\ size' = Append(size, Next1.n)
  /\ Bind(Next1.s, Len(size) + 1, 0, Next1.n)
  /\ UNCHANGED <<use, avail, inUse, freed, held, rows, scratch, arena, seqLen, passes, clean>>

\* Free: out of inUse if it is there (the last entry takes its place), then released.
DoFree ==
  /\ Running("free") /\ Advance
  /\ LET b == slot[Next1.s].buf
         at == {i \in DOMAIN inUse : inUse[i] = b}
     IN  /\ freed' = freed \cup {b}
         /\ inUse' = IF at = {} THEN inUse
                     ELSE Front([inUse EXCEPT ![CHOOSE i \in at : \A j \in at : i <= j] = Last(inUse)])
  /\ slot' = [s \in DOMAIN slot \ {Next1.s} |-> slot[s]]
  /\ UNCHANGED <<use, size, avail, held, rows, scratch, arena, seqLen, passes, clean>>

\* A kernel fills a temporary: a long-lived buffer that is the same one loses its rows.
DoWrite ==
  /\ Running("write") /\ Advance
  /\ rows' = [h \in DOMAIN rows |-> IF held[h] = slot[Next1.s].buf THEN {} ELSE rows[h]]
  /\ UNCHANGED <<use, pool, held, slot, scratch, arena, seqLen, passes, clean>>

\* AppendKV: this pass's rows of a layer.  There is no test of maxSeqLen: a row past the end lands in the
\* next head's region, or past the buffer for the last head.
Landed(h, n) ==
  LET new == seqLen .. seqLen + n - 1
  IN  (rows[h] \ (IF Dims.kvHeads > 1 THEN {p - MaxSeq : p \in new} ELSE {}))
      \cup {p \in new : p < MaxSeq}
DoAppend ==
  /\ Running("append") /\ Advance
  /\ rows' = [rows EXCEPT ![Next1.s] = Landed(Next1.s, Next1.n)]
  /\ UNCHANGED <<use, pool, held, slot, scratch, arena, seqLen, passes, clean>>

\* GPUBlockPool.StoreKV: the rows of this pass, or an error that ends the pass when the blocks run out.
DoStore ==
  /\ Running("store") /\ seqLen + Next1.n <= MaxSeq /\ Advance
  /\ rows' = [rows EXCEPT ![Next1.s] = @ \cup (seqLen .. seqLen + Next1.n - 1)]
  /\ UNCHANGED <<use, pool, held, slot, scratch, arena, seqLen, passes, clean>>
StoreFails ==
  /\ Running("store") /\ seqLen + Next1.n > MaxSeq /\ plan' = << >>
  /\ UNCHANGED <<use, pool, held, rows, slot, scratch, arena, seqLen, passes, clean>>

\* After the last layer the cache counts the new rows.
DoCommit ==
  /\ Running("commit") /\ Advance
  /\ seqLen' = seqLen + Next1.n
  /\ UNCHANGED <<use, pool, held, rows, slot, scratch, arena, passes, clean>>

\* ZeroGradients.
DoZero ==
  /\ Running("zero") /\ Advance
  /\ rows' = [h \in DOMAIN rows |-> IF h[1] = "grad" THEN {0} ELSE rows[h]]
  /\ UNCHANGED <<use, pool, held, slot, scratch, arena, seqLen, passes, clean>>

\* sgdUpdate reads the gradients and rewrites the momentum in place.
DoUpdate ==
  /\ Running("update") /\ Advance
  /\ UNCHANGED <<use, pool, held, rows, slot, scratch, arena, seqLen, passes, clean>>

Next ==
  \/ \E n \in Lengths : BeginPass(n)
  \/ NewSequence
  \/ DoAlloc \/ DoArena \/ ArenaOOM \/ DoBump \/ BumpFallback \/ Rewind
  \/ DoPermanent \/ DoFree \/ DoWrite \/ DoAppend \/ DoStore \/ StoreFails \/ DoCommit
  \/ DoZero \/ DoUpdate

Spec == Init /\ [][Next]_vars

----------------------------------------------------------------------------
(* Properties                                                              *)

Pool == avail \o inUse

\* The pool never owns a buffer twice, never one that was released, and never a permanent one (the block
\* pool's and the bump allocator's): Alloc, Free and ResetPool move buffers between available and inUse.
PoolSound ==
  LET owned == Range(Pool)
      permanent == {scratch.buf} \cup {held[h] : h \in DOMAIN held \ Pooled(use.kind)}
  IN  /\ Cardinality(owned) = Len(Pool)
      /\ owned \subseteq DOMAIN size \ (freed \cup permanent)

Overlap(a, b) == a.buf = b.buf /\ a.off < b.off + b.n /\ b.off < a.off + a.n

\* The temporaries a layer works with occupy pairwise disjoint memory inside live buffers, from the pool, from
\* the 256-byte aligned bump allocator, or from a mixture of both when the bump allocator is too small.
TempsDisjoint ==
  /\ \A s, t \in DOMAIN slot : s # t => ~Overlap(slot[s], slot[t])
  /\ \A s \in DOMAIN slot : /\ slot[s].buf \in DOMAIN size \ freed
                            /\ slot[s].off + slot[s].n <= size[slot[s].buf]

Intact ==
  /\ \A h \in DOMAIN rows : use.kind # "train" => 0 .. seqLen - 1 \subseteq rows[h]
  /\ \A h \in DOMAIN rows : use.kind = "train" /\ h[1] = "momentum" => rows[h] = {0}

\* What the next pass relies on is still there: the KV rows of every earlier position, and the momentum
\* carried from one training step to the next -- as long as no pass asks the pool for exactly the size of a
\* long-lived buffer and the context fits the cache.  The block pool needs neither proviso.
SurvivesPasses == clean => Intact

\* What gpu_block_pool.go says its allocations must satisfy, of every long-lived buffer: the buffers retained
\* across forward passes survive ResetPool.
RetainedSurvive == Intact

=============================================================================
