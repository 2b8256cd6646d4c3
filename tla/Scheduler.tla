------------------------------ MODULE Scheduler ------------------------------
(***************************************************************************)
(* The request path of the inference server: the HTTP and gRPC handlers    *)
(* (inference/serve), the scheduler loop (inference/scheduler/scheduler.go)*)
(* with the Sequence objects and token channels it drives (sequence.go),   *)
(* the condition variable that wakes the loop, and the KV storage that     *)
(* every registered sequence owns (PagedKVCache, GPUBlockPool or the       *)
(* single GPUKVCache).                                                     *)
(*                                                                         *)
(* One handler goroutine serves one request and creates one Sequence, so a *)
(* request names its handler, its Sequence object and its kvSeqID.  A      *)
(* token is the number under which it was generated.  An action ends where *)
(* the code releases a lock that another goroutine may take.               *)
(***************************************************************************)
EXTENDS Integers, Sequences, FiniteSets

CONSTANTS
  Requests,     \* the requests the handlers serve
  None,         \* no request: an absent map entry
  Kind,         \* Kind[r]: "generate", "stream" (HTTP), "grpc" (either RPC)
  ClockIDs,     \* values time.Now().UnixNano() may return to a gRPC handler
  PromptLen,    \* PromptLen[r]: prompt tokens after Encode, 0 for an empty prompt
  Limit,        \* Limit[r]: max_tokens of the request, 0 when not given
  MaxTokens,    \* Config.MaxTokens, 0 for no global limit
  MaxBatchSize, \* Config.MaxBatchSize
  ChanCap,      \* capacity of a token channel (100 in NewSequence)
  CacheMode,    \* "paged" (--context-len given) or "gpu"
  BlockSize,    \* tokens of a KV block
  MaxBlocks,    \* blocks of the GPU pool (of each layer)
  ArenaTokens,  \* tokens of a pass the scratch arena is made for (initModel)
  Hidden,       \* ModelConfig: sizes of a token's rows in 4-byte words,
  Inter,        \*   its hidden state, a layer's intermediates for it,
  KVWords,      \*   its K and V together,
  Vocab,        \*   and its logits
  MaxClients,   \* bound: handlers in flight at a time (1 for the CLI and REPL)
  Cancellable   \* bound: requests whose client may time out or go away

ASSUME RequestsAssumption ==
  /\ IsFiniteSet(Requests)
  /\ None \notin Requests \cup ClockIDs
  /\ Requests \cap ClockIDs = {}
  /\ Kind \in [Requests -> {"generate", "stream", "grpc"}]

ASSUME ConfigAssumption ==
  /\ PromptLen \in [Requests -> Nat]
  /\ Limit \in [Requests -> Nat]
  /\ MaxTokens \in Nat
  /\ MaxBatchSize \in Nat \ {0}
  /\ ChanCap \in Nat \ {0}
  /\ CacheMode \in {"paged", "gpu"}
  /\ BlockSize \in Nat \ {0}
  /\ MaxBlocks \in Nat
  /\ {ArenaTokens, Hidden, Inter, KVWords, Vocab} \subseteq Nat
  /\ MaxClients \in Nat
  /\ Cancellable \in SUBSET Requests

VARIABLES
  \* the scheduler
  sequences,    \* Scheduler.sequences: sequence ID -> sequence, or None
  pc,           \* where the Run goroutine is
  batch,        \* the batch of the current step
  k,            \* index of the loop over the batch
  waiter,       \* the goroutine Run spawns to wait on the condition variable
  ctxDone,      \* the context of Run is cancelled
  \* the Sequence objects
  st,           \* Sequence.state
  promptDone,   \* IsPrefillComplete: promptPos has reached the end
  pos,          \* Sequence.position
  gen,          \* len(generatedTokens)
  chan,         \* the buffered token channel
  closed,       \* tokenChan is closed
  \* the handlers
  hpc,          \* where the handler goroutine is
  id,           \* the sequence ID of the request
  victim,       \* the sequence RemoveSequence took out of the map
  recv,         \* tokens the handler has read from the channel
  \* KV storage
  kvTab,        \* sequences with a table in PagedKVCache
  poolUp,       \* the GPU block pool has been created
  poolTab,      \* sequences the GPU block pool tracks
  kvLen,        \* tokens stored in the pool for a sequence
  held,         \* blocks in the pool's table of a sequence
  freeBlocks,   \* length of the pool's free list
  gpuKV         \* owner of each entry of the single GPUKVCache

seqVars  == <<st, promptDone, pos, gen, chan, closed>>
handVars == <<hpc, id, victim, recv>>
poolVars == <<poolUp, poolTab, kvLen, held, freeBlocks>>
kvVars   == <<kvTab, poolUp, poolTab, kvLen, held, freeBlocks, gpuKV>>
runVars  == <<pc, batch, k, waiter, ctxDone>>
vars     == <<sequences, runVars, seqVars, handVars, kvVars>>

SeqIDs == Requests \cup ClockIDs

\* Run has returned or the process has crashed.
Ended == {"dead", "stopped", "panicked"}

Init ==
  /\ sequences = [i \in SeqIDs |-> None]
  /\ pc = "top" /\ batch = <<>> /\ k = 1 /\ waiter = "none" /\ ctxDone = FALSE
  /\ st = [r \in Requests |-> "Pending"]
  /\ promptDone = [r \in Requests |-> PromptLen[r] = 0]
  /\ pos = [r \in Requests |-> 0]
  /\ gen = [r \in Requests |-> 0]
  /\ chan = [r \in Requests |-> <<>>]
  /\ closed = [r \in Requests |-> FALSE]
  /\ hpc = [r \in Requests |-> "idle"]
  /\ id = [r \in Requests |-> None]
  /\ victim = [r \in Requests |-> None]
  /\ recv = [r \in Requests |-> <<>>]
  /\ kvTab = {} /\ poolUp = FALSE /\ poolTab = {}
  /\ kvLen = [r \in Requests |-> 0]
  /\ held = [r \in Requests |-> 0]
  /\ freeBlocks = MaxBlocks
  /\ gpuKV = <<>>

-----------------------------------------------------------------------------
(* Handlers: server.go handleGenerate / handleStream, grpc.go Generate /   *)
(* StreamGenerate, and the scheduler calls they make.                      *)

Goto(r, to) == hpc' = [hpc EXCEPT ![r] = to]

\* HTTP handlers draw from an atomic counter, so no two get the same ID; the
\* gRPC handlers use the clock.
NextSeqID(r) == IF Kind[r] = "grpc" THEN ClockIDs ELSE {r}

Active == {r \in Requests : hpc[r] \notin {"idle", "done"}}

\* A request arrives; its handler creates the Sequence.
Submit(r) ==
  /\ hpc[r] = "idle"
  /\ Cardinality(Active) < MaxClients
  /\ \E i \in NextSeqID(r) : id' = [id EXCEPT ![r] = i]
  /\ Goto(r, "addkv")
  /\ UNCHANGED <<sequences, runVars, seqVars, victim, recv, kvVars>>

\* AddSequence, first half: KV storage for the sequence.  The GPU pool gets an
\* entry only if it already exists.
AddSequenceKV(r) ==
  /\ hpc[r] = "addkv"
  /\ kvTab' = IF CacheMode = "paged" THEN kvTab \cup {r} ELSE kvTab
  /\ poolTab' = IF poolUp THEN poolTab \cup {r} ELSE poolTab
  /\ Goto(r, "insert")
  /\ UNCHANGED <<sequences, runVars, seqVars, id, victim, recv,
                 poolUp, kvLen, held, freeBlocks, gpuKV>>

\* AddSequence, second half: publish the sequence under the lock.
AddSequenceInsert(r) ==
  /\ hpc[r] = "insert"
  /\ sequences' = [sequences EXCEPT ![id[r]] = r]
  /\ Goto(r, "wake")
  /\ UNCHANGED <<runVars, seqVars, id, victim, recv, kvVars>>

\* wakeUp: Broadcast reaches only a goroutine that is already in Wait.
Broadcast == waiter' = IF waiter = "waiting" THEN "woken" ELSE waiter

WakeUp(r) ==
  /\ hpc[r] = "wake"
  /\ Broadcast
  /\ Goto(r, "recv")
  /\ UNCHANGED <<sequences, pc, batch, k, ctxDone, seqVars, id, victim, recv, kvVars>>

\* Mutant: the handler peeks at the channel instead of draining it.
Receive_Peeks(r) ==
  /\ hpc[r] = "recv"
  /\ chan[r] # <<>>
  /\ Len(recv[r]) < 6
  /\ recv' = [recv EXCEPT ![r] = Append(@, Head(chan[r]))]
  /\ UNCHANGED <<sequences, runVars, seqVars, hpc, id, victim, kvVars>>

\* The handler reads one token.
Receive(r) ==
  /\ hpc[r] = "recv"
  /\ chan[r] # <<>>
  /\ recv' = [recv EXCEPT ![r] = Append(@, Head(chan[r]))]
  /\ chan' = [chan EXCEPT ![r] = Tail(@)]
  /\ UNCHANGED <<sequences, runVars, st, promptDone, pos, gen, closed,
                 hpc, id, victim, kvVars>>

\* The channel is closed and drained: the answer is complete.
EndOfStream(r) ==
  /\ hpc[r] = "recv"
  /\ chan[r] = <<>> /\ closed[r]
  /\ Goto(r, "remove")
  /\ UNCHANGED <<sequences, runVars, seqVars, id, victim, recv, kvVars>>

\* Request timeout, client cancellation or a failed Send.  handleStream
\* watches no context: it leaves its loop only at the end of the stream.
GiveUp(r) ==
  /\ hpc[r] = "recv"
  /\ r \in Cancellable /\ Kind[r] # "stream"
  /\ Goto(r, "remove")
  /\ UNCHANGED <<sequences, runVars, seqVars, id, victim, recv, kvVars>>

\* Mutant: the missing entry is not noticed.
RemoveSequence_Unchecked(r) ==
  /\ hpc[r] = "remove"
  /\ sequences' = [sequences EXCEPT ![id[r]] = None]
  /\ victim' = [victim EXCEPT ![r] = sequences[id[r]]]
  /\ Goto(r, "free")
  /\ UNCHANGED <<runVars, seqVars, id, recv, kvVars>>

\* RemoveSequence under the lock.  It deletes whatever sequence is
\* registered under the ID and returns at once when there is none.
RemoveSequence(r) ==
  /\ hpc[r] = "remove"
  /\ sequences' = [sequences EXCEPT ![id[r]] = None]
  /\ victim' = [victim EXCEPT ![r] = sequences[id[r]]]
  /\ Goto(r, IF sequences[id[r]] = None THEN "done" ELSE "free")
  /\ UNCHANGED <<runVars, seqVars, id, recv, kvVars>>

\* Mutant: the blocks of a deleted sequence are not given back.
PoolDelete_KeepsBlocks(q) ==
  /\ poolTab' = poolTab \ {q}
  /\ held' = [held EXCEPT ![q] = 0]
  /\ kvLen' = [kvLen EXCEPT ![q] = 0]
  /\ UNCHANGED freeBlocks

\* DeleteSequence of the pool: blocks go back to the free list.
PoolDelete(q) ==
  /\ poolTab' = poolTab \ {q}
  /\ freeBlocks' = freeBlocks + held[q]
  /\ held' = [held EXCEPT ![q] = 0]
  /\ kvLen' = [kvLen EXCEPT ![q] = 0]

\* RemoveSequence after the lock: release the KV storage of the sequence.
RemoveSequenceKV(r) ==
  /\ hpc[r] = "free"
  /\ PoolDelete(victim[r])
  /\ kvTab' = kvTab \ {victim[r]}
  /\ Goto(r, "done")
  /\ UNCHANGED <<sequences, runVars, seqVars, id, victim, recv,
                 poolUp, gpuKV>>

Handler(r) ==
  \/ AddSequenceKV(r) \/ AddSequenceInsert(r) \/ WakeUp(r)
  \/ Receive(r) \/ EndOfStream(r)
  \/ RemoveSequence(r) \/ RemoveSequenceKV(r)

-----------------------------------------------------------------------------
(* Sequence operations (sequence.go).                                      *)

SeqLimit(r) == IF Limit[r] > 0 THEN Limit[r] ELSE MaxTokens

ReachedMaxTokens(r, n) == SeqLimit(r) > 0 /\ n >= SeqLimit(r)

\* Mutant: a full channel makes room by dropping its oldest token.
PushToken_DropsOldest(r, token) ==
  chan' = [chan EXCEPT ![r] = Append(IF Len(@) < ChanCap THEN @ ELSE Tail(@), token)]

\* PushToken never blocks: a token for a full channel is dropped.
PushToken(r, token) ==
  chan' = [chan EXCEPT ![r] = IF Len(@) < ChanCap THEN Append(@, token) ELSE @]

\* Mutant: the token is pushed before the end of the sequence is tested.
Emit_PushesFinal(r, reason, after) ==
  /\ gen' = [gen EXCEPT ![r] = @ + 1]
  /\ pc' = IF closed[r] THEN "panicked" ELSE after
  /\ PushToken(r, gen[r] + 1)
  /\ st' = [st EXCEPT ![r] = IF reason = "none" THEN "Decoding" ELSE "Finished"]
  /\ closed' = [closed EXCEPT ![r] = reason # "none"]

\* Record the sampled token and act on it: a final token finishes the
\* sequence and closes the channel without being delivered, any other token
\* is pushed.  Sending on a closed channel, or closing it again, panics.
Emit(r, reason, after) ==
  /\ gen' = [gen EXCEPT ![r] = @ + 1]
  /\ pc' = IF closed[r] THEN "panicked" ELSE after
  /\ IF reason = "none"
       THEN /\ PushToken(r, gen[r] + 1)
            /\ st' = [st EXCEPT ![r] = "Decoding"]
            /\ UNCHANGED closed
       ELSE /\ st' = [st EXCEPT ![r] = "Finished"]
            /\ closed' = [closed EXCEPT ![r] = TRUE]
            /\ UNCHANGED chan

\* Mutant: a decode step does not test the token limit.
DecodeReasons_NoLimit(r) == {"stop", "none"}

\* What the token sampled by a decode step means for the sequence.
DecodeReasons(r) ==
  {"stop"} \cup {IF ReachedMaxTokens(r, gen[r] + 1) THEN "limit" ELSE "none"}

\* The token sampled from the prefill logits is checked against the stop
\* tokens only.
PrefillReasons(r) == {"stop", "none"}

\* Sampling after a decode forward pass: AdvancePosition, then the token.
SampleDecode(r, after) ==
  /\ pos' = [pos EXCEPT ![r] = @ + 1]
  /\ \E reason \in DecodeReasons(r) : Emit(r, reason, after)
  /\ UNCHANGED promptDone

\* Mutant: SetPrefillComplete counts the sampled token as processed.
SamplePrefill_OffByOne(r, after) ==
  /\ promptDone' = [promptDone EXCEPT ![r] = TRUE]
  /\ pos' = [pos EXCEPT ![r] = PromptLen[r] + 1]
  /\ \E reason \in PrefillReasons(r) : Emit(r, reason, after)

\* Sampling after a prefill forward pass: SetPrefillComplete, then the token.
SamplePrefill(r, after) ==
  /\ promptDone' = [promptDone EXCEPT ![r] = TRUE]
  /\ pos' = [pos EXCEPT ![r] = PromptLen[r]]
  /\ \E reason \in PrefillReasons(r) : Emit(r, reason, after)

-----------------------------------------------------------------------------
(* KV storage as the forward passes use it.                                *)

BlocksFor(n) == (n + BlockSize - 1) \div BlockSize

\* Mutant: the pool is created lazily, but not the sequence's entry.
EnsureSequence_PoolOnly(r) ==
  /\ poolUp' = TRUE
  /\ UNCHANGED poolTab

\* DecodeWithPagedKV and PrefillWithPagedKV begin by creating the pool and
\* the sequence's entry in it when they are missing.
EnsureSequence(r) ==
  /\ poolUp' = TRUE
  /\ poolTab' = poolTab \cup {r}

\* Mutant: exhaustion is not detected.
CanStore_Unchecked(r, n) == r \in poolTab

\* StoreKV fails when the pool does not know the sequence, or when it runs
\* out of blocks; blocks taken before the failure stay in the table.
CanStore(r, n) == r \in poolTab /\ BlocksFor(n) - held[r] <= freeBlocks

\* Mutant: the last block is computed without rounding up.
StoreKV_RoundsDown(r, n) ==
  LET need == IF n \div BlockSize > held[r] THEN n \div BlockSize - held[r] ELSE 0 IN
  /\ held' = [held EXCEPT ![r] = @ + need]
  /\ freeBlocks' = freeBlocks - need
  /\ kvLen' = [kvLen EXCEPT ![r] = IF n > @ THEN n ELSE @]

StoreKV(r, n) ==
  LET need == IF BlocksFor(n) > held[r] THEN BlocksFor(n) - held[r] ELSE 0 IN
  /\ held' = [held EXCEPT ![r] = @ + need]
  /\ freeBlocks' = freeBlocks - need
  /\ kvLen' = [kvLen EXCEPT ![r] = IF n > @ THEN n ELSE @]

FailStoreKV(r) ==
  /\ held' = [held EXCEPT ![r] = IF r \in poolTab THEN @ + freeBlocks ELSE @]
  /\ freeBlocks' = IF r \in poolTab THEN 0 ELSE freeBlocks
  /\ UNCHANGED kvLen

-----------------------------------------------------------------------------
(* The scratch arena a forward pass allocates from, in 4-byte words.       *)

\* ModelConfig.ScratchBytes: a layer's intermediates and attention scores for
\* n tokens, or the logits of all of them.
ScratchBytes(n) ==
  LET block == n * Inter + n * n
  IN  IF n * Vocab > block THEN n * Vocab ELSE block

\* ModelConfig.TotalArenaBytes, with its headroom of a tenth.
TotalArenaBytes(n) ==
  LET total == n + n * Hidden + ScratchBytes(n) + Vocab
  IN  total + total \div 10

\* What a pass over n tokens that ends before position end takes from the arena
\* ahead of its layers: token IDs, hidden states and the layers' scratch, which
\* the paged passes enlarge by the scores of a prefill or the context of a decode.
PassBytes(prefill, n, end) ==
  n + n * Hidden + ScratchBytes(n)
    + (IF CacheMode = "gpu" THEN 0 ELSE IF prefill THEN n * n ELSE end * KVWords)

\* Arena.Alloc succeeds for all of that and for the logits after the layers.
Fits(prefill, n, end) ==
  PassBytes(prefill, n, end) + Vocab <= TotalArenaBytes(ArenaTokens)

-----------------------------------------------------------------------------
(* The scheduler loop (scheduler.go Run, step, runDecodeStep).             *)

Registered(r) == \E i \in SeqIDs : sequences[i] = r

\* collectReady: registered sequences that are not finished.
Ready == {r \in Requests : Registered(r) /\ st[r] # "Finished"}

\* formBatches: at most MaxBatchSize ready sequences in map iteration order,
\* which Go randomises.
Batches(S) ==
  LET n == IF Cardinality(S) <= MaxBatchSize THEN Cardinality(S) ELSE MaxBatchSize
  IN  {b \in [1..n -> S] : \A i, j \in 1..n : b[i] = b[j] => i = j}

Collect ==
  /\ pc = "top" /\ ~ctxDone
  /\ \E b \in Batches(Ready) :
       /\ batch' = b
       /\ k' = 1
       /\ pc' = IF b = <<>> THEN "cleanup" ELSE "prefill"
  /\ UNCHANGED <<sequences, waiter, ctxDone, seqVars, handVars, kvVars>>

\* Run returns when its context is cancelled; a parked Run broadcasts first.
RunReturns ==
  /\ pc \in {"top", "parked"} /\ ctxDone
  /\ pc' = "stopped"
  /\ IF pc = "parked" THEN Broadcast ELSE UNCHANGED waiter
  /\ UNCHANGED <<sequences, batch, k, ctxDone, seqVars, handVars, kvVars>>

\* step with an empty batch: finished sequences leave the map.
Cleanup ==
  /\ pc = "cleanup"
  /\ sequences' = [i \in SeqIDs |->
       IF sequences[i] # None /\ st[sequences[i]] = "Finished"
         THEN None ELSE sequences[i]]
  /\ pc' = "yield"
  /\ UNCHANGED <<batch, k, waiter, ctxDone, seqVars, handVars, kvVars>>

NeedsPrefill(r) == st[r] = "Pending" /\ PromptLen[r] > 0 /\ ~promptDone[r]

\* Mutant: the filter after prefill forgets that prefill may finish a sequence.
NeedsDecode_AnyPrefilled(r) == st[r] = "Decoding" \/ promptDone[r]

NeedsDecode(r) == st[r] = "Decoding" \/ (st[r] = "Pending" /\ promptDone[r])

\* The loops over the batch: prefill, then decode, then (paged) sampling.
Selected(r) == IF pc = "prefill" THEN NeedsPrefill(r) ELSE NeedsDecode(r)

Current == batch[k]

InLoop(phase) == pc = phase /\ k <= Len(batch) /\ Selected(Current)

LoopSkip ==
  /\ pc \in {"prefill", "decode", "sample"}
  /\ k <= Len(batch) /\ ~Selected(Current)
  /\ k' = k + 1
  /\ UNCHANGED <<sequences, pc, batch, waiter, ctxDone, seqVars, handVars, kvVars>>

LoopEnd ==
  /\ pc \in {"prefill", "decode", "sample"}
  /\ k > Len(batch)
  /\ k' = 1
  /\ pc' = CASE pc = "prefill" -> "decode"
             [] pc = "decode" /\ CacheMode = "paged" -> "sample"
             [] OTHER -> "yield"
  /\ UNCHANGED <<sequences, batch, waiter, ctxDone, seqVars, handVars, kvVars>>

\* NextInputToken: the last generated token at the current position; with
\* nothing generated, BOS at position 0.
InputPos(r) == IF gen[r] = 0 THEN 0 ELSE pos[r]

\* The forward pass for Current: the tokens it runs and the position it ends before.
Prefilling == pc \in {"prefill", "prefillkv"}
PassTokens == IF Prefilling THEN PromptLen[Current] ELSE 1
PassEnd == IF Prefilling THEN PromptLen[Current] ELSE InputPos(Current) + 1

\* The allocations ahead of its layers succeed; so does the one for its logits.
LayersFit ==
  PassBytes(Prefilling, PassTokens, PassEnd) <= TotalArenaBytes(ArenaTokens)
LogitsFit == Fits(Prefilling, PassTokens, PassEnd)

\* Mutant: the GPU cache is not reset for a new sequence.
RunGPUPrefill_NoReset ==
  /\ CacheMode = "gpu" /\ InLoop("prefill") /\ LogitsFit
  /\ gpuKV' = gpuKV \o [i \in 1..PromptLen[Current] |-> Current]
  /\ SamplePrefill(Current, "prefill")
  /\ k' = k + 1
  /\ UNCHANGED <<sequences, batch, waiter, ctxDone, handVars, kvTab, poolVars>>

\* runGPUPrefill: Reset the cache, run the whole prompt, sample one token.
RunGPUPrefill ==
  /\ CacheMode = "gpu" /\ InLoop("prefill") /\ LogitsFit
  /\ gpuKV' = [i \in 1..PromptLen[Current] |-> Current]
  /\ SamplePrefill(Current, "prefill")
  /\ k' = k + 1
  /\ UNCHANGED <<sequences, batch, waiter, ctxDone, handVars, kvTab, poolVars>>

\* The GPU branch of runDecodeStep: each sequence is decoded against the one
\* cache, whose next entry it appends, and sampled at once.
DecodeWithGPUKV ==
  /\ CacheMode = "gpu" /\ InLoop("decode") /\ LogitsFit
  /\ gpuKV' = Append(gpuKV, Current)
  /\ SampleDecode(Current, "decode")
  /\ k' = k + 1
  /\ UNCHANGED <<sequences, batch, waiter, ctxDone, handVars, kvTab, poolVars>>

\* runBatchedPrefill and the paged branch of runDecodeStep, up to the layers.
BeginPaged ==
  /\ CacheMode = "paged"
  /\ InLoop("prefill") \/ InLoop("decode")
  /\ EnsureSequence(Current)
  /\ pc' = IF pc = "prefill" THEN "prefillkv" ELSE "decodekv"
  /\ UNCHANGED <<sequences, batch, k, waiter, ctxDone, seqVars, handVars, kvTab,
                 kvLen, held, freeBlocks, gpuKV>>

\* The layers of PrefillWithPagedKV, then sampling.
PrefillWithPagedKV ==
  /\ pc = "prefillkv"
  /\ CanStore(Current, PromptLen[Current]) /\ LogitsFit
  /\ StoreKV(Current, PromptLen[Current])
  /\ SamplePrefill(Current, "prefill")
  /\ k' = k + 1
  /\ UNCHANGED <<sequences, batch, waiter, ctxDone, handVars, kvTab, poolUp,
                 poolTab, gpuKV>>

\* The layers of DecodeWithPagedKV for one sequence of the batch.
DecodeWithPagedKV ==
  /\ pc = "decodekv"
  /\ CanStore(Current, InputPos(Current) + 1) /\ LogitsFit
  /\ StoreKV(Current, InputPos(Current) + 1)
  /\ pc' = "decode" /\ k' = k + 1
  /\ UNCHANGED <<sequences, batch, waiter, ctxDone, seqVars, handVars, kvTab,
                 poolUp, poolTab, gpuKV>>

\* An error inside a forward pass goes up through step, and Run returns it.
PassFails ==
  /\ pc' = "dead"
  /\ UNCHANGED <<sequences, batch, k, waiter, ctxDone, seqVars, handVars, kvTab,
                 poolUp, poolTab>>

\* A layer's StoreKV fails.
LayerError ==
  /\ pc \in {"prefillkv", "decodekv"} /\ LayersFit
  /\ ~CanStore(Current, PassEnd)
  /\ FailStoreKV(Current)
  /\ PassFails
  /\ UNCHANGED gpuKV

\* The scratch arena runs out in a paged pass: ahead of the layers nothing is
\* stored, at the logits every layer has stored its part.
PagedArenaError ==
  /\ pc \in {"prefillkv", "decodekv"} /\ ~LogitsFit
  /\ IF LayersFit
       THEN CanStore(Current, PassEnd) /\ StoreKV(Current, PassEnd)
       ELSE UNCHANGED <<kvLen, held, freeBlocks>>
  /\ PassFails
  /\ UNCHANGED gpuKV

\* The same in a GPU pass, whose prefill has already reset the cache.
GPUArenaError ==
  /\ CacheMode = "gpu" /\ (InLoop("prefill") \/ InLoop("decode")) /\ ~LogitsFit
  /\ gpuKV' = (IF Prefilling THEN <<>> ELSE gpuKV)
                 \o [i \in 1..(IF LayersFit THEN PassTokens ELSE 0) |-> Current]
  /\ PassFails
  /\ UNCHANGED <<kvLen, held, freeBlocks>>

\* Sampling for one sequence after the paged decode of the whole batch.
SampleBatch ==
  /\ InLoop("sample")
  /\ SampleDecode(Current, "sample")
  /\ k' = k + 1
  /\ UNCHANGED <<sequences, batch, waiter, ctxDone, handVars, kvVars>>

\* Mutant: Run waits after every step, registered sequences or not.
Yield_AlwaysParks ==
  /\ pc = "yield"
  /\ pc' = "parked" /\ waiter' = "spawned"
  /\ UNCHANGED <<sequences, batch, k, ctxDone, seqVars, handVars, kvVars>>

\* Run after a step: loop while sequences are registered, otherwise spawn a
\* goroutine that waits on the condition variable, and block on it.
Yield ==
  /\ pc = "yield"
  /\ IF \E i \in SeqIDs : sequences[i] # None
       THEN pc' = "top" /\ UNCHANGED waiter
       ELSE pc' = "parked" /\ waiter' = "spawned"
  /\ UNCHANGED <<sequences, batch, k, ctxDone, seqVars, handVars, kvVars>>

\* The spawned goroutine reaches cond.Wait.
WaiterWait ==
  /\ waiter = "spawned"
  /\ waiter' = "waiting"
  /\ UNCHANGED <<sequences, pc, batch, k, ctxDone, seqVars, handVars, kvVars>>

\* The waiting goroutine was woken and closed done: Run goes on.
Unpark ==
  /\ pc = "parked" /\ waiter = "woken"
  /\ pc' = "top" /\ waiter' = "none"
  /\ UNCHANGED <<sequences, batch, k, ctxDone, seqVars, handVars, kvVars>>

Loop ==
  \/ Collect \/ RunReturns \/ Cleanup \/ LoopSkip \/ LoopEnd
  \/ RunGPUPrefill \/ DecodeWithGPUKV
  \/ BeginPaged \/ PrefillWithPagedKV \/ DecodeWithPagedKV
  \/ LayerError \/ PagedArenaError \/ GPUArenaError
  \/ SampleBatch \/ Yield \/ WaiterWait \/ Unpark

\* Shutdown cancels the context of Run (external: the signal handler).
CancelContext ==
  /\ ~ctxDone
  /\ ctxDone' = TRUE
  /\ UNCHANGED <<sequences, pc, batch, k, waiter, seqVars, handVars, kvVars>>

Next ==
  \/ \E r \in Requests : Submit(r) \/ GiveUp(r) \/ Handler(r)
  \/ Loop
  \/ CancelContext

Spec == Init /\ [][Next]_vars

\* Fairness: the Go runtime runs every goroutine that can run (the Run loop,
\* the goroutine waiting for it, each handler), and a random map iteration
\* order puts every ready sequence into a batch again and again.  Clients and
\* shutdown owe nothing.
RunStep == Loop /\ ~WaiterWait

Picks(r) == Collect /\ \E i \in DOMAIN batch' : batch'[i] = r

FairSpec ==
  /\ Spec
  /\ WF_vars(RunStep)
  /\ WF_vars(WaiterWait)
  /\ \A r \in Requests : WF_vars(Handler(r)) /\ SF_vars(Picks(r))

-----------------------------------------------------------------------------
(* Properties.                                                             *)

TypeOK ==
  /\ sequences \in [SeqIDs -> Requests \cup {None}]
  /\ pc \in {"top", "cleanup", "prefill", "prefillkv", "decode", "decodekv",
             "sample", "yield", "parked"} \cup Ended
  /\ batch \in Seq(Requests)
  /\ k \in Nat \ {0}
  /\ waiter \in {"none", "spawned", "waiting", "woken"}
  /\ ctxDone \in BOOLEAN
  /\ st \in [Requests -> {"Pending", "Decoding", "Finished"}]
  /\ promptDone \in [Requests -> BOOLEAN]
  /\ pos \in [Requests -> Nat]
  /\ gen \in [Requests -> Nat]
  /\ chan \in [Requests -> Seq(Nat)]
  /\ closed \in [Requests -> BOOLEAN]
  /\ hpc \in [Requests -> {"idle", "addkv", "insert", "wake", "recv", "remove",
                           "free", "done"}]
  /\ id \in [Requests -> SeqIDs \cup {None}]
  /\ victim \in [Requests -> Requests \cup {None}]
  /\ recv \in [Requests -> Seq(Nat)]
  /\ kvTab \in SUBSET Requests
  /\ poolUp \in BOOLEAN
  /\ poolTab \in SUBSET Requests
  /\ kvLen \in [Requests -> Nat]
  /\ held \in [Requests -> Nat]
  /\ freeBlocks \in Nat
  /\ gpuKV \in Seq(Requests)

\* No token is sent on a closed channel and no channel is closed twice
\* (sequence.go PushToken, Close): either would panic and end the server.
NoPanic == pc # "panicked"

\* A handler past Submit has an ID, and RemoveSequence goes on to release KV
\* storage only of a sequence it found.
HandlersKnown ==
  \A r \in Requests :
    /\ hpc[r] # "idle" => id[r] \in SeqIDs
    /\ hpc[r] = "free" => victim[r] \in Requests

\* A channel is closed exactly when its sequence is finished.
ClosedWhenFinished == \A r \in Requests : closed[r] <=> st[r] = "Finished"

\* A forward pass runs for a member of the batch, a prefill for a pending one.
PassOfBatch ==
  /\ pc \in {"prefillkv", "decodekv"} => k <= Len(batch)
  /\ pc = "prefillkv" => st[Current] = "Pending"

\* The strengthening under which TypeOK and NoPanic are inductive.
IndInv ==
  TypeOK /\ NoPanic /\ HandlersKnown /\ ClosedWhenFinished /\ PassOfBatch

\* RemoveSequence has taken the sequence out of the map.
Removed(r) == \E q \in Requests : victim[q] = r

\* A sequence is published once, under its own ID, and never again after it
\* was removed; a handler removes at most one sequence.
RegisteredOnce ==
  /\ \A i \in SeqIDs : sequences[i] # None =>
       /\ id[sequences[i]] = i
       /\ hpc[sequences[i]] \notin {"idle", "addkv", "insert"}
       /\ ~Removed(sequences[i])
  /\ \A r \in Requests :
       /\ Removed(r) => hpc[r] \notin {"idle", "addkv", "insert"}
       /\ victim[r] # None => hpc[r] \in {"free", "done"}

\* Positions follow the tokens: a pending sequence has neither, any other both.
Progressed ==
  \A r \in Requests :
    /\ st[r] = "Pending" => gen[r] = 0 /\ pos[r] = 0
    /\ st[r] # "Pending" => gen[r] > 0 /\ pos[r] > 0

\* What a forward pass has tested before it started: a batch holds no sequence
\* twice, and the pass runs for a sequence of its phase that the pool tracks,
\* unless the sequence was removed since.
PassStarted ==
  /\ \A i, j \in DOMAIN batch : batch[i] = batch[j] => i = j
  /\ pc \in {"prefillkv", "decodekv", "sample"} => CacheMode = "paged"
  /\ pc = "prefillkv" => NeedsPrefill(Current)
  /\ pc = "decodekv" => NeedsDecode(Current)
  /\ pc \in {"prefillkv", "decodekv"} => Current \in poolTab \/ Removed(Current)

\* The paged decode of r has run in this step and its sampling has not.
Ahead(r) ==
  /\ NeedsDecode(r)
  /\ \E j \in DOMAIN batch :
       /\ batch[j] = r
       /\ \/ pc \in {"decode", "decodekv"} /\ j < k
          \/ pc = "sample" /\ j >= k

\* What the pool stores: blocks for the tokens of every sequence, one token
\* more than the positions of a sequence that is ahead.  A failed pass leaves
\* the other members of its batch ahead.
PoolStores ==
  /\ \A r \in Requests :
       /\ held[r] > 0 \/ kvLen[r] > 0 => r \in poolTab
       /\ pc # "dead" => held[r] = BlocksFor(kvLen[r])
  /\ CacheMode = "paged" => \A r \in Requests : ~Removed(r) =>
       /\ hpc[r] \notin {"idle", "addkv"} => r \in kvTab
       /\ pc # "dead" => IF Ahead(r) THEN kvLen[r] = InputPos(r) + 1
                                   ELSE kvLen[r] = InputPos(r)
       /\ kvLen[r] >= InputPos(r)
       /\ gen[r] > 0 => held[r] = BlocksFor(kvLen[r])

\* The strengthening under which the properties of the KV storage below are
\* inductive.
KVInv ==
  IndInv /\ RegisteredOnce /\ Progressed /\ PassStarted /\ PoolStores

\* What the handler has read followed by what waits in the channel.
Delivered(r) == recv[r] \o chan[r]

\* While a sequence has generated no more tokens than the channel holds, the
\* client sees every token but the final one, once each and in order.
StreamFaithful ==
  \A r \in Requests :
    gen[r] <= ChanCap =>
      Delivered(r) = [i \in 1..(IF closed[r] THEN gen[r] - 1 ELSE gen[r]) |-> i]

\* A slow client may miss tokens, but never sees one twice or out of order.
StreamInOrder ==
  \A r \in Requests :
    /\ \A i \in DOMAIN Delivered(r) : Delivered(r)[i] \in 1..gen[r]
    /\ \A i, j \in DOMAIN Delivered(r) : i < j => Delivered(r)[i] < Delivered(r)[j]

\* The token that reaches the limit is generated but not delivered, and the
\* token sampled by prefill is not tested: with a limit n a client gets at most
\* n - 1 tokens, or one when n = 1, and at most one token is made past it.
TokenBudget ==
  \A r \in Requests : SeqLimit(r) > 0 =>
    /\ gen[r] <= SeqLimit(r) \/ gen[r] = 2
    /\ Len(Delivered(r)) < SeqLimit(r) \/ Len(Delivered(r)) = 1

\* A paged decode of a sequence that is still registered finds its whole
\* context in the pool: the entries below the input position and no others.
ContextComplete ==
  pc = "decodekv" /\ Registered(Current) => kvLen[Current] = InputPos(Current)

\* A registered sequence keeps its storage: its KV table and, once it has
\* generated, pool blocks for every stored token.
RegisteredKeepsKV ==
  \A r \in Requests :
    CacheMode = "paged" /\ Registered(r) =>
      /\ r \in kvTab
      /\ gen[r] > 0 => r \in poolTab /\ held[r] = BlocksFor(kvLen[r])

\* The entries of all block tables, each numbered within its table.
HeldBlocks == UNION {{r} \X (1..held[r]) : r \in Requests}

\* Every block of the pool is in the free list or in one table, and only
\* sequences the pool tracks hold blocks.
BlocksConserved ==
  /\ freeBlocks + Cardinality(HeldBlocks) = MaxBlocks
  /\ \A r \in Requests : held[r] > 0 => r \in poolTab

\* Run dies of an error only when the pool is exhausted, when the pass asked for
\* more than the scratch arena (nothing tests the length of a prompt or of its
\* context against it), or when the sequence it was running was removed under it.
FatalCause ==
  [][pc # "dead" /\ pc' = "dead" =>
       \/ freeBlocks' = 0
       \/ ~LogitsFit
       \/ Current \notin poolTab /\ \E q \in Requests : victim[q] = Current]_vars

\* A GPU decode of a sequence sees exactly that sequence's entries in the
\* single GPUKVCache: nobody else's, and all of its own.
OwnContext ==
  [][\A r \in Requests :
       pos'[r] = pos[r] + 1 /\ pc = "decode" =>
         gpuKV = [i \in 1..InputPos(r) |-> r]]_vars

\* The token stream contract every consumer relies on.
Stream == INSTANCE TokenStream WITH made <- gen, buf <- chan, got <- recv

ImplementsStream == Stream!Spec

\* With blocks enough for every request, an arena that holds every pass, and no
\* client that leaves early, Run never returns an error (runDecodeStep,
\* runBatchedPrefill, runGPUPrefill).
RunSurvives == pc # "dead"

\* Once the loop is awake with a sequence registered, the sequence finishes,
\* is removed, or Run itself ends.
EventuallyServed ==
  \A r \in Requests :
    (Registered(r) /\ pc \notin {"parked"} \cup Ended)
      ~> (closed[r] \/ ~Registered(r) \/ pc \in Ended)

-----------------------------------------------------------------------------
(* What a comment of the repository says of the program and the code does  *)
(* not do: the subject of a run that violates it.                          *)

\* scheduler.go:71 "Condition variable for reliable concurrent wakeup": a
\* request whose AddSequence has returned gets its stream closed, unless its
\* client leaves or Run ends.
ReliableWakeup ==
  \A r \in Requests :
    hpc[r] = "recv" ~> (closed[r] \/ hpc[r] # "recv" \/ pc \in Ended)
=============================================================================
