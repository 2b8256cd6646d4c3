--------------------------- MODULE SchedulerProofs ---------------------------
(***************************************************************************)
(* Theorems about Scheduler, for every set of requests, batch size, channel*)
(* capacity, pool size and cache mode.                                     *)
(***************************************************************************)
EXTENDS Scheduler, FiniteSetTheorems, SequenceTheorems, TLAPS

\* The number of blocks StoreKV wants is a natural number.
LEMMA BlocksForType ==
  ASSUME NEW n \in Nat
  PROVE  BlocksFor(n) \in Nat
  BY ConfigAssumption DEF BlocksFor

\* A batch formed from ready sequences is a sequence of requests.
LEMMA BatchType ==
  ASSUME NEW b \in Batches(Ready)
  PROVE  b \in Seq(Requests)
<1>1. Ready \subseteq Requests
  BY DEF Ready
<1>2. IsFiniteSet(Ready)
  BY <1>1, RequestsAssumption, FS_Subset
<1>3. Cardinality(Ready) \in Nat
  BY <1>2, FS_CardinalityType
<1> DEFINE n == IF Cardinality(Ready) <= MaxBatchSize
                  THEN Cardinality(Ready) ELSE MaxBatchSize
<1>4. n \in Nat
  BY <1>3, ConfigAssumption
<1>5. b \in [1..n -> Ready]
  BY DEF Batches
<1> QED
  BY <1>1, <1>4, <1>5

\* What Emit does to a sequence that is not finished: the types hold, the
\* channel is still closed exactly when the sequence is finished, no panic.
LEMMA EmitSafe ==
  ASSUME TypeOK, NEW r \in Requests, NEW reason \in {"none", "stop", "limit"},
         NEW after \in {"prefill", "decode", "sample"},
         \A q \in Requests : closed[q] <=> st[q] = "Finished",
         st[r] # "Finished", Emit(r, reason, after)
  PROVE  /\ pc' = after
         /\ gen' \in [Requests -> Nat]
         /\ chan' \in [Requests -> Seq(Nat)]
         /\ closed' \in [Requests -> BOOLEAN]
         /\ st' \in [Requests -> {"Pending", "Decoding", "Finished"}]
         /\ \A q \in Requests : closed'[q] <=> st'[q] = "Finished"
<1>1. ~closed[r]
  OBVIOUS
<1>2. /\ pc' = after
      /\ gen' \in [Requests -> Nat]
  BY <1>1 DEF Emit, TypeOK
<1>3. CASE reason = "none"
  <2>1. chan' \in [Requests -> Seq(Nat)]
    <3>1. chan' = [chan EXCEPT ![r] = IF Len(@) < ChanCap
                                        THEN Append(@, gen[r] + 1) ELSE @]
      BY <1>3 DEF Emit, PushToken
    <3>2. chan[r] \in Seq(Nat) /\ gen[r] + 1 \in Nat
      BY DEF TypeOK
    <3>3. Append(chan[r], gen[r] + 1) \in Seq(Nat)
      BY <3>2
    <3> QED
      BY <3>1, <3>2, <3>3 DEF TypeOK
  <2>2. /\ closed' = closed
        /\ st' = [st EXCEPT ![r] = "Decoding"]
    BY <1>3 DEF Emit
  <2> QED
    BY <1>1, <1>2, <2>1, <2>2 DEF TypeOK
<1>4. CASE reason # "none"
  <2>1. /\ chan' = chan
        /\ closed' = [closed EXCEPT ![r] = TRUE]
        /\ st' = [st EXCEPT ![r] = "Finished"]
    BY <1>4 DEF Emit
  <2> QED
    BY <1>2, <2>1 DEF TypeOK
<1> QED
  BY <1>3, <1>4

\* The same for the token sampled after a prefill or a decode pass, together
\* with the position the pass leaves.
LEMMA SampleSafe ==
  ASSUME TypeOK, NEW r \in Requests, NEW after \in {"prefill", "decode", "sample"},
         \A q \in Requests : closed[q] <=> st[q] = "Finished",
         st[r] # "Finished",
         SamplePrefill(r, after) \/ SampleDecode(r, after)
  PROVE  /\ pc' = after
         /\ promptDone' \in [Requests -> BOOLEAN]
         /\ pos' \in [Requests -> Nat]
         /\ gen' \in [Requests -> Nat]
         /\ chan' \in [Requests -> Seq(Nat)]
         /\ closed' \in [Requests -> BOOLEAN]
         /\ st' \in [Requests -> {"Pending", "Decoding", "Finished"}]
         /\ \A q \in Requests : closed'[q] <=> st'[q] = "Finished"
<1>1. PICK reason \in {"none", "stop", "limit"} : Emit(r, reason, after)
  BY DEF SamplePrefill, SampleDecode, PrefillReasons, DecodeReasons
<1>2. promptDone' \in [Requests -> BOOLEAN]
  BY DEF SamplePrefill, SampleDecode, TypeOK
<1>3. pos' \in [Requests -> Nat]
  <2>1. PromptLen[r] \in Nat /\ pos \in [Requests -> Nat]
    BY ConfigAssumption DEF TypeOK
  <2>2. \/ pos' = [pos EXCEPT ![r] = PromptLen[r]]
        \/ pos' = [pos EXCEPT ![r] = @ + 1]
    BY DEF SamplePrefill, SampleDecode
  <2> QED
    BY <2>1, <2>2
<1> QED
  BY <1>1, <1>2, <1>3, EmitSafe

\* StoreKV, when CanStore allows it, takes no more blocks than are free.
LEMMA StoreKVType ==
  ASSUME TypeOK, NEW r \in Requests, NEW n \in Nat, CanStore(r, n), StoreKV(r, n)
  PROVE  /\ held' \in [Requests -> Nat]
         /\ freeBlocks' \in Nat
         /\ kvLen' \in [Requests -> Nat]
<1>1. BlocksFor(n) \in Nat /\ held[r] \in Nat /\ freeBlocks \in Nat
  BY BlocksForType DEF TypeOK
<1> DEFINE need == IF BlocksFor(n) > held[r] THEN BlocksFor(n) - held[r] ELSE 0
<1>2. need \in Nat /\ need <= freeBlocks
  BY <1>1 DEF CanStore
<1>3. /\ held' = [held EXCEPT ![r] = @ + need]
      /\ freeBlocks' = freeBlocks - need
      /\ kvLen' = [kvLen EXCEPT ![r] = IF n > @ THEN n ELSE @]
  BY DEF StoreKV
<1> HIDE DEF need
<1> QED
  BY <1>1, <1>2, <1>3 DEF TypeOK
-----------------------------------------------------------------------------
(* The handlers preserve the inductive invariant.                          *)

\* The initial state satisfies the inductive invariant.
LEMMA InitInd == Init => IndInv
<1> SUFFICES ASSUME Init PROVE IndInv
  OBVIOUS
<1>1. TypeOK
  <2>1. /\ sequences \in [SeqIDs -> Requests \cup {None}]
        /\ id \in [Requests -> SeqIDs \cup {None}]
        /\ victim \in [Requests -> Requests \cup {None}]
        /\ promptDone \in [Requests -> BOOLEAN]
    BY DEF Init
  <2>2. /\ batch \in Seq(Requests) /\ gpuKV \in Seq(Requests)
        /\ chan \in [Requests -> Seq(Nat)] /\ recv \in [Requests -> Seq(Nat)]
    BY DEF Init
  <2>3. /\ k \in Nat \ {0} /\ freeBlocks \in Nat
        /\ pos \in [Requests -> Nat] /\ gen \in [Requests -> Nat]
        /\ kvLen \in [Requests -> Nat] /\ held \in [Requests -> Nat]
    BY ConfigAssumption DEF Init
  <2>4. /\ st \in [Requests -> {"Pending", "Decoding", "Finished"}]
        /\ closed \in [Requests -> BOOLEAN]
        /\ hpc \in [Requests -> {"idle", "addkv", "insert", "wake", "recv",
                                 "remove", "free", "done"}]
    BY DEF Init
  <2>5. /\ pc = "top" /\ waiter = "none" /\ ctxDone = FALSE
        /\ kvTab = {} /\ poolUp = FALSE /\ poolTab = {}
    BY DEF Init
  <2> QED
    BY <2>1, <2>2, <2>3, <2>4, <2>5 DEF TypeOK
<1>2. NoPanic /\ HandlersKnown /\ ClosedWhenFinished /\ PassOfBatch
  BY DEF Init, NoPanic, HandlersKnown, ClosedWhenFinished, PassOfBatch
<1> QED
  BY <1>1, <1>2 DEF IndInv

\* The conjuncts about the loop and the Sequence objects only depend on what
\* no handler writes.
LEMMA LoopUntouched ==
  ASSUME IndInv, UNCHANGED <<pc, batch, k, st, closed>>
  PROVE  NoPanic' /\ ClosedWhenFinished' /\ PassOfBatch'
  BY DEF IndInv, NoPanic, ClosedWhenFinished, PassOfBatch, Current

\* A request that arrives, or whose client leaves, preserves it.
LEMMA ClientInd ==
  ASSUME IndInv, NEW r \in Requests, Submit(r) \/ GiveUp(r)
  PROVE  IndInv'
<1>0. NoPanic' /\ ClosedWhenFinished' /\ PassOfBatch'
  BY LoopUntouched DEF Submit, GiveUp, runVars, seqVars
<1>1. CASE Submit(r)
  <2>1. PICK i \in SeqIDs : id' = [id EXCEPT ![r] = i]
    BY <1>1 DEF Submit, NextSeqID, SeqIDs
  <2>2. TypeOK'
    BY <1>1, <2>1 DEF IndInv, TypeOK, Submit, Goto, runVars, seqVars, kvVars
  <2>3. HandlersKnown'
    BY <1>1, <2>1 DEF IndInv, TypeOK, HandlersKnown, Submit, Goto
  <2> QED
    BY <1>0, <2>2, <2>3 DEF IndInv
<1>2. CASE GiveUp(r)
  <2>1. TypeOK'
    BY <1>2 DEF IndInv, TypeOK, GiveUp, Goto, runVars, seqVars, kvVars
  <2>2. HandlersKnown'
    BY <1>2 DEF IndInv, TypeOK, HandlersKnown, GiveUp, Goto
  <2> QED
    BY <1>0, <2>1, <2>2 DEF IndInv
<1> QED
  BY <1>1, <1>2

\* A step of a handler goroutine preserves it.
LEMMA HandlerInd ==
  ASSUME IndInv, NEW r \in Requests, Handler(r)
  PROVE  IndInv'
<1>0. NoPanic' /\ ClosedWhenFinished' /\ PassOfBatch'
  BY LoopUntouched
  DEF Handler, AddSequenceKV, AddSequenceInsert, WakeUp, Receive, EndOfStream,
      RemoveSequence, RemoveSequenceKV, runVars, seqVars
<1>1. CASE AddSequenceKV(r)
  <2>1. TypeOK'
    BY <1>1 DEF IndInv, TypeOK, AddSequenceKV, Goto, runVars, seqVars
  <2>2. HandlersKnown'
    BY <1>1 DEF IndInv, TypeOK, HandlersKnown, AddSequenceKV, Goto
  <2> QED
    BY <1>0, <2>1, <2>2 DEF IndInv
<1>2. CASE AddSequenceInsert(r)
  <2>1. TypeOK'
    BY <1>2 DEF IndInv, TypeOK, AddSequenceInsert, Goto, runVars, seqVars, kvVars
  <2>2. HandlersKnown'
    BY <1>2 DEF IndInv, TypeOK, HandlersKnown, AddSequenceInsert, Goto
  <2> QED
    BY <1>0, <2>1, <2>2 DEF IndInv
<1>3. CASE WakeUp(r)
  <2>1. TypeOK'
    BY <1>3 DEF IndInv, TypeOK, WakeUp, Broadcast, Goto, seqVars, kvVars
  <2>2. HandlersKnown'
    BY <1>3 DEF IndInv, TypeOK, HandlersKnown, WakeUp, Goto
  <2> QED
    BY <1>0, <2>1, <2>2 DEF IndInv
<1>4. CASE Receive(r)
  <2>1. chan[r] \in Seq(Nat) /\ chan[r] # <<>> /\ recv[r] \in Seq(Nat)
    BY <1>4 DEF IndInv, TypeOK, Receive
  <2>2. Tail(chan[r]) \in Seq(Nat) /\ Append(recv[r], Head(chan[r])) \in Seq(Nat)
    BY <2>1
  <2>3. chan' \in [Requests -> Seq(Nat)] /\ recv' \in [Requests -> Seq(Nat)]
    BY <1>4, <2>2 DEF IndInv, TypeOK, Receive
  <2>4. TypeOK'
    BY <1>4, <2>3 DEF IndInv, TypeOK, Receive, runVars, kvVars
  <2>5. HandlersKnown'
    BY <1>4 DEF IndInv, HandlersKnown, Receive
  <2> QED
    BY <1>0, <2>4, <2>5 DEF IndInv
<1>5. CASE EndOfStream(r)
  <2>1. TypeOK'
    BY <1>5 DEF IndInv, TypeOK, EndOfStream, Goto, runVars, seqVars, kvVars
  <2>2. HandlersKnown'
    BY <1>5 DEF IndInv, TypeOK, HandlersKnown, EndOfStream, Goto
  <2> QED
    BY <1>0, <2>1, <2>2 DEF IndInv
<1>6. CASE RemoveSequence(r)
  <2>1. id[r] \in SeqIDs
    BY <1>6 DEF IndInv, HandlersKnown, RemoveSequence
  <2>2. sequences[id[r]] \in Requests \cup {None}
    BY <2>1 DEF IndInv, TypeOK
  <2>3. TypeOK'
    BY <1>6, <2>1, <2>2
    DEF IndInv, TypeOK, RemoveSequence, Goto, runVars, seqVars, kvVars
  <2>4. HandlersKnown'
    BY <1>6, <2>2 DEF IndInv, TypeOK, HandlersKnown, RemoveSequence, Goto
  <2> QED
    BY <1>0, <2>3, <2>4 DEF IndInv
<1>7. CASE RemoveSequenceKV(r)
  <2>1. victim[r] \in Requests
    BY <1>7 DEF IndInv, HandlersKnown, RemoveSequenceKV
  <2>2. /\ poolTab' \in SUBSET Requests /\ freeBlocks' \in Nat
        /\ held' \in [Requests -> Nat] /\ kvLen' \in [Requests -> Nat]
    <3>1. /\ poolTab' = poolTab \ {victim[r]}
          /\ freeBlocks' = freeBlocks + held[victim[r]]
          /\ held' = [held EXCEPT ![victim[r]] = 0]
          /\ kvLen' = [kvLen EXCEPT ![victim[r]] = 0]
      BY <1>7 DEF RemoveSequenceKV, PoolDelete
    <3>2. freeBlocks \in Nat /\ held[victim[r]] \in Nat
      BY <2>1 DEF IndInv, TypeOK
    <3>3. freeBlocks' \in Nat
      BY <3>1, <3>2
    <3>4. held' \in [Requests -> Nat] /\ kvLen' \in [Requests -> Nat]
      BY <3>1 DEF IndInv, TypeOK
    <3> QED
      BY <3>1, <3>3, <3>4 DEF IndInv, TypeOK
  <2>3. TypeOK'
    BY <1>7, <2>2 DEF IndInv, TypeOK, RemoveSequenceKV, Goto, runVars, seqVars
  <2>4. HandlersKnown'
    BY <1>7 DEF IndInv, TypeOK, HandlersKnown, RemoveSequenceKV, Goto
  <2> QED
    BY <1>0, <2>3, <2>4 DEF IndInv
<1> QED
  BY <1>1, <1>2, <1>3, <1>4, <1>5, <1>6, <1>7 DEF Handler
-----------------------------------------------------------------------------
(* So does the scheduler loop.                                             *)

\* The batch member a loop is at.
LEMMA CurrentType ==
  ASSUME TypeOK, k <= Len(batch)
  PROVE  Current \in Requests
  BY DEF TypeOK, Current

\* A step of the loop that samples a token: the facts of SampleSafe suffice,
\* whatever the pass did to the KV storage within its types.
LEMMA SampleInd ==
  ASSUME IndInv, NEW r \in Requests, NEW after \in {"prefill", "decode", "sample"},
         st[r] # "Finished",
         SamplePrefill(r, after) \/ SampleDecode(r, after),
         k' = k + 1,
         UNCHANGED <<sequences, batch, waiter, ctxDone, handVars, kvTab, poolUp, poolTab>>,
         kvLen' \in [Requests -> Nat], held' \in [Requests -> Nat],
         freeBlocks' \in Nat, gpuKV' \in Seq(Requests)
  PROVE  IndInv'
<1>1. /\ pc' = after
      /\ promptDone' \in [Requests -> BOOLEAN]
      /\ pos' \in [Requests -> Nat]
      /\ gen' \in [Requests -> Nat]
      /\ chan' \in [Requests -> Seq(Nat)]
      /\ closed' \in [Requests -> BOOLEAN]
      /\ st' \in [Requests -> {"Pending", "Decoding", "Finished"}]
      /\ \A q \in Requests : closed'[q] <=> st'[q] = "Finished"
  BY SampleSafe DEF IndInv, ClosedWhenFinished
<1>2. k' \in Nat \ {0}
  BY DEF IndInv, TypeOK
<1>3. TypeOK'
  BY <1>1, <1>2 DEF IndInv, TypeOK, handVars
<1>4. NoPanic' /\ ClosedWhenFinished' /\ PassOfBatch'
  BY <1>1 DEF NoPanic, ClosedWhenFinished, PassOfBatch
<1>5. HandlersKnown'
  BY DEF IndInv, HandlersKnown, handVars
<1> QED
  BY <1>3, <1>4, <1>5 DEF IndInv

\* A step of the loop that leaves sequences and KV storage within their types
\* and moves to a program counter outside the forward passes.
LEMMA ControlInd ==
  ASSUME IndInv,
         UNCHANGED <<ctxDone, seqVars, handVars, kvVars>>,
         sequences' \in [SeqIDs -> Requests \cup {None}],
         batch' \in Seq(Requests), k' \in Nat \ {0},
         waiter' \in {"none", "spawned", "waiting", "woken"},
         pc' \in {"top", "cleanup", "prefill", "decode", "sample", "yield",
                 "parked", "stopped"}
  PROVE  IndInv'
<1>1. TypeOK'
  BY DEF IndInv, TypeOK, Ended, seqVars, handVars, kvVars
<1>2. NoPanic' /\ ClosedWhenFinished' /\ PassOfBatch'
  BY DEF IndInv, NoPanic, ClosedWhenFinished, PassOfBatch, seqVars
<1>3. HandlersKnown'
  BY DEF IndInv, HandlersKnown, handVars
<1> QED
  BY <1>1, <1>2, <1>3 DEF IndInv

\* The position a pass ends before is a natural number.
LEMMA PassEndType ==
  ASSUME TypeOK, Current \in Requests
  PROVE  PassEnd \in Nat
<1>1. PromptLen[Current] \in Nat
  BY ConfigAssumption
<1>2. InputPos(Current) \in Nat
  BY DEF InputPos, TypeOK
<1> QED
  BY <1>1, <1>2 DEF PassEnd

\* A pass that fails, whatever it did to the KV storage within its types.
LEMMA FailsInd ==
  ASSUME IndInv, PassFails,
         kvLen' \in [Requests -> Nat], held' \in [Requests -> Nat],
         freeBlocks' \in Nat, gpuKV' \in Seq(Requests)
  PROVE  IndInv'
<1>1. TypeOK'
  BY DEF IndInv, PassFails, TypeOK, Ended, seqVars, handVars
<1>2. NoPanic' /\ ClosedWhenFinished' /\ PassOfBatch'
  BY DEF IndInv, PassFails, NoPanic, ClosedWhenFinished, PassOfBatch, seqVars
<1>3. HandlersKnown'
  BY DEF IndInv, PassFails, HandlersKnown, handVars
<1> QED
  BY <1>1, <1>2, <1>3 DEF IndInv

\* The rows a failing GPU pass leaves in the single cache.
LEMMA FailedRowsType ==
  ASSUME IndInv, GPUArenaError
  PROVE  gpuKV' \in Seq(Requests)
<1>1. Current \in Requests
  BY CurrentType DEF GPUArenaError, InLoop, IndInv
<1> DEFINE n == IF LayersFit THEN PassTokens ELSE 0
           kept == IF Prefilling THEN <<>> ELSE gpuKV
<1>2. n \in Nat
  BY <1>1, ConfigAssumption DEF PassTokens
<1>3. kept \in Seq(Requests)
  BY DEF IndInv, TypeOK
<1>4. gpuKV' = kept \o [i \in 1..n |-> Current]
  BY DEF GPUArenaError
<1> HIDE DEF n, kept
<1>5. [i \in 1..n |-> Current] \in Seq(Requests)
  BY <1>1, <1>2
<1> QED
  BY <1>3, <1>4, <1>5

\* A step of the Run goroutine, or of the one that waits for it, preserves
\* the inductive invariant.
LEMMA LoopInd ==
  ASSUME IndInv, Loop
  PROVE  IndInv'
<1> USE DEF IndInv
<1>1. CASE Collect
  <2>1. PICK b \in Batches(Ready) :
          batch' = b /\ k' = 1 /\ pc' \in {"cleanup", "prefill"}
    BY <1>1 DEF Collect
  <2>2. batch' \in Seq(Requests)
    BY <2>1, BatchType
  <2>3. /\ UNCHANGED <<ctxDone, seqVars, handVars, kvVars>>
        /\ sequences' = sequences /\ waiter' = waiter
    BY <1>1 DEF Collect
  <2>4. k' \in Nat \ {0}
    BY <2>1
  <2>5. /\ sequences' \in [SeqIDs -> Requests \cup {None}]
        /\ waiter' \in {"none", "spawned", "waiting", "woken"}
    BY <2>3 DEF TypeOK
  <2> QED
    BY <2>1, <2>2, <2>3, <2>4, <2>5, ControlInd
<1>2. CASE RunReturns
  BY <1>2, ControlInd DEF RunReturns, Broadcast, TypeOK
<1>3. CASE Cleanup
  <2>1. sequences' \in [SeqIDs -> Requests \cup {None}]
    BY <1>3 DEF Cleanup, TypeOK
  <2> QED
    BY <1>3, <2>1, ControlInd DEF Cleanup, TypeOK
<1>4. CASE LoopSkip
  <2>1. k' \in Nat \ {0}
    BY <1>4 DEF LoopSkip, TypeOK
  <2> QED
    BY <1>4, <2>1, ControlInd DEF LoopSkip, TypeOK
<1>5. CASE LoopEnd
  <2>1. pc' \in {"decode", "sample", "yield"}
    BY <1>5 DEF LoopEnd
  <2>2. k' \in Nat \ {0}
    BY <1>5 DEF LoopEnd
  <2> QED
    BY <1>5, <2>1, <2>2, ControlInd DEF LoopEnd, TypeOK
<1>6. CASE RunGPUPrefill
  <2>1. Current \in Requests
    BY <1>6, CurrentType DEF RunGPUPrefill, InLoop
  <2>2. st[Current] # "Finished"
    BY <1>6 DEF RunGPUPrefill, InLoop, Selected, NeedsPrefill
  <2>3. gpuKV' \in Seq(Requests)
    <3>1. PICK c \in Requests, n \in Nat : c = Current /\ n = PromptLen[Current]
      BY <2>1, ConfigAssumption
    <3>2. gpuKV' = [i \in 1..n |-> c]
      BY <1>6, <3>1 DEF RunGPUPrefill
    <3> QED
      BY <3>1, <3>2
  <2> QED
    BY <1>6, <2>1, <2>2, <2>3, SampleInd DEF RunGPUPrefill, poolVars, TypeOK
<1>7. CASE DecodeWithGPUKV
  <2>1. Current \in Requests
    BY <1>7, CurrentType DEF DecodeWithGPUKV, InLoop
  <2>2. st[Current] # "Finished"
    BY <1>7 DEF DecodeWithGPUKV, InLoop, Selected, NeedsDecode
  <2>3. gpuKV' \in Seq(Requests)
    BY <1>7, <2>1 DEF DecodeWithGPUKV, TypeOK
  <2> QED
    BY <1>7, <2>1, <2>2, <2>3, SampleInd DEF DecodeWithGPUKV, poolVars, TypeOK
<1>8. CASE BeginPaged
  <2>1. k <= Len(batch) /\ Current \in Requests /\ Selected(Current)
    BY <1>8, CurrentType DEF BeginPaged, InLoop
  <2>2. /\ poolUp' = TRUE
        /\ poolTab' \in SUBSET Requests
    BY <1>8, <2>1 DEF BeginPaged, EnsureSequence, TypeOK
  <2>3. /\ pc' \in {"prefillkv", "decodekv"}
        /\ pc' = "prefillkv" => st[Current] = "Pending"
    BY <1>8, <2>1 DEF BeginPaged, InLoop, Selected, NeedsPrefill
  <2>4. TypeOK'
    BY <1>8, <2>2, <2>3 DEF BeginPaged, TypeOK, seqVars, handVars
  <2>5. NoPanic' /\ ClosedWhenFinished' /\ PassOfBatch'
    BY <1>8, <2>1, <2>3
    DEF BeginPaged, NoPanic, ClosedWhenFinished, PassOfBatch, Current, seqVars
  <2>6. HandlersKnown'
    BY <1>8 DEF BeginPaged, HandlersKnown, handVars
  <2> QED
    BY <2>4, <2>5, <2>6
<1>9. CASE PrefillWithPagedKV
  <2>1. Current \in Requests /\ st[Current] # "Finished"
    BY <1>9, CurrentType DEF PrefillWithPagedKV, PassOfBatch
  <2>2. /\ held' \in [Requests -> Nat] /\ freeBlocks' \in Nat
        /\ kvLen' \in [Requests -> Nat]
    BY <1>9, <2>1, ConfigAssumption, StoreKVType DEF PrefillWithPagedKV
  <2> QED
    BY <1>9, <2>1, <2>2, SampleInd DEF PrefillWithPagedKV, TypeOK
<1>10. CASE DecodeWithPagedKV
  <2>1. Current \in Requests
    BY <1>10, CurrentType DEF DecodeWithPagedKV, PassOfBatch
  <2>2. InputPos(Current) + 1 \in Nat
    BY <2>1 DEF InputPos, TypeOK
  <2>3. /\ held' \in [Requests -> Nat] /\ freeBlocks' \in Nat
        /\ kvLen' \in [Requests -> Nat]
    BY <1>10, <2>1, <2>2, StoreKVType DEF DecodeWithPagedKV
  <2>7. k' \in Nat \ {0}
    BY <1>10 DEF DecodeWithPagedKV, TypeOK
  <2>4. TypeOK'
    BY <1>10, <2>3, <2>7 DEF DecodeWithPagedKV, TypeOK, seqVars, handVars
  <2>5. NoPanic' /\ ClosedWhenFinished' /\ PassOfBatch'
    BY <1>10 DEF DecodeWithPagedKV, NoPanic, ClosedWhenFinished, PassOfBatch, seqVars
  <2>6. HandlersKnown'
    BY <1>10 DEF DecodeWithPagedKV, HandlersKnown, handVars
  <2> QED
    BY <2>4, <2>5, <2>6
<1>11. CASE LayerError
  <2>1. Current \in Requests
    BY <1>11, CurrentType DEF LayerError, PassOfBatch
  <2>2. /\ held' \in [Requests -> Nat] /\ freeBlocks' \in Nat
        /\ kvLen' \in [Requests -> Nat]
    BY <1>11, <2>1 DEF LayerError, FailStoreKV, TypeOK, PassFails
  <2> QED
    BY <1>11, <2>2, FailsInd DEF LayerError, TypeOK
<1>16. CASE PagedArenaError
  <2>1. Current \in Requests
    BY <1>16, CurrentType DEF PagedArenaError, PassOfBatch
  <2>2. PassEnd \in Nat
    BY <2>1, PassEndType
  <2>3. /\ held' \in [Requests -> Nat] /\ freeBlocks' \in Nat
        /\ kvLen' \in [Requests -> Nat]
    <3>1. CASE LayersFit
      BY <1>16, <2>1, <2>2, <3>1, StoreKVType DEF PagedArenaError
    <3>2. CASE ~LayersFit
      BY <1>16, <3>2 DEF PagedArenaError, TypeOK
    <3> QED
      BY <3>1, <3>2
  <2> QED
    BY <1>16, <2>3, FailsInd DEF PagedArenaError, TypeOK
<1>17. CASE GPUArenaError
  BY <1>17, FailedRowsType, FailsInd DEF GPUArenaError, TypeOK
<1>12. CASE SampleBatch
  <2>1. Current \in Requests
    BY <1>12, CurrentType DEF SampleBatch, InLoop
  <2>2. st[Current] # "Finished"
    BY <1>12 DEF SampleBatch, InLoop, Selected, NeedsDecode
  <2> QED
    BY <1>12, <2>1, <2>2, SampleInd DEF SampleBatch, kvVars, TypeOK
<1>13. CASE Yield
  BY <1>13, ControlInd DEF Yield, TypeOK
<1>14. CASE WaiterWait
  <2>1. TypeOK'
    BY <1>14 DEF WaiterWait, TypeOK, seqVars, handVars, kvVars
  <2>2. NoPanic' /\ ClosedWhenFinished' /\ PassOfBatch'
    BY <1>14, LoopUntouched DEF WaiterWait, seqVars
  <2>3. HandlersKnown'
    BY <1>14 DEF WaiterWait, HandlersKnown, handVars
  <2> QED
    BY <2>1, <2>2, <2>3
<1>15. CASE Unpark
  BY <1>15, ControlInd DEF Unpark, TypeOK
<1> QED
  BY <1>1, <1>2, <1>3, <1>4, <1>5, <1>6, <1>7, <1>8, <1>9, <1>10, <1>11, <1>12,
     <1>13, <1>14, <1>15, <1>16, <1>17
  DEF Loop

-----------------------------------------------------------------------------
(* The theorems.                                                           *)

\* Every step preserves the inductive invariant.
LEMMA NextInd == IndInv /\ [Next]_vars => IndInv'
<1> SUFFICES ASSUME IndInv, [Next]_vars PROVE IndInv'
  OBVIOUS
<1>1. ASSUME NEW r \in Requests, Submit(r) \/ GiveUp(r) \/ Handler(r)
      PROVE  IndInv'
  BY <1>1, ClientInd, HandlerInd
<1>2. CASE Loop
  BY <1>2, LoopInd
<1>3. CASE CancelContext
  <2>1. TypeOK'
    BY <1>3 DEF CancelContext, IndInv, TypeOK, seqVars, handVars, kvVars
  <2>2. NoPanic' /\ ClosedWhenFinished' /\ PassOfBatch'
    BY <1>3, LoopUntouched DEF CancelContext, seqVars
  <2>3. HandlersKnown'
    BY <1>3 DEF CancelContext, IndInv, HandlersKnown, handVars
  <2> QED
    BY <2>1, <2>2, <2>3 DEF IndInv
<1>4. CASE UNCHANGED vars
  <2>1. TypeOK'
    BY <1>4 DEF IndInv, TypeOK, vars, runVars, seqVars, handVars, kvVars
  <2>2. NoPanic' /\ ClosedWhenFinished' /\ PassOfBatch'
    BY <1>4, LoopUntouched DEF vars, runVars, seqVars
  <2>3. HandlersKnown'
    BY <1>4 DEF IndInv, HandlersKnown, vars, handVars
  <2> QED
    BY <2>1, <2>2, <2>3 DEF IndInv
<1> QED
  BY <1>1, <1>2, <1>3, <1>4 DEF Next

\* The inductive invariant holds in every reachable state.
THEOREM Invariance == Spec => []IndInv
  BY InitInd, NextInd, PTL DEF Spec

\* Type correctness: in particular StoreKV never takes a block that is not
\* free, RemoveSequence never releases the storage of a missing sequence, and
\* no loop reads past its batch.
THEOREM TypeCorrectness == Spec => []TypeOK
<1>1. IndInv => TypeOK
  BY DEF IndInv
<1> QED
  BY <1>1, Invariance, PTL

\* No interleaving of clients that leave, removals, prefill and decode sends
\* on a closed token channel or closes one twice.
THEOREM PanicFreedom == Spec => []NoPanic
<1>1. IndInv => NoPanic
  BY DEF IndInv
<1> QED
  BY <1>1, Invariance, PTL
-----------------------------------------------------------------------------
(* The scheduler implements the token stream.                              *)

\* A sampled token of an unfinished sequence is one the stream produces, kept
\* or lost, or its last one.
LEMMA EmitRefines ==
  ASSUME TypeOK, NEW r \in Requests, NEW reason, NEW after,
         ~closed[r], Emit(r, reason, after), UNCHANGED recv
  PROVE  Stream!Produce(r) \/ Stream!Finish(r)
<1>1. CASE reason = "none"
  <2>1. \/ chan' = [chan EXCEPT ![r] = Append(@, gen[r] + 1)]
        \/ chan' = chan
    BY <1>1 DEF Emit, PushToken, TypeOK
  <2> QED
    BY <1>1, <2>1 DEF Emit, Stream!Produce
<1>2. CASE reason # "none"
  BY <1>2 DEF Emit, Stream!Finish
<1> QED
  BY <1>1, <1>2

\* Steps that neither sample nor receive are stutters of the stream.
LEMMA StutterRefines ==
  ASSUME [Next]_vars,
         ~(\E r \in Requests : Receive(r)),
         ~(RunGPUPrefill \/ DecodeWithGPUKV \/ PrefillWithPagedKV \/ SampleBatch)
  PROVE  UNCHANGED <<gen, chan, closed, recv>>
<1>1. ASSUME NEW r \in Requests, Submit(r) \/ GiveUp(r) \/ Handler(r)
      PROVE  UNCHANGED <<gen, chan, closed, recv>>
  BY <1>1
  DEF Submit, GiveUp, Handler, AddSequenceKV, AddSequenceInsert, WakeUp,
      EndOfStream, RemoveSequence, RemoveSequenceKV, seqVars
<1>2. ASSUME Loop
      PROVE  UNCHANGED <<gen, chan, closed, recv>>
  BY <1>2
  DEF Loop, Collect, RunReturns, Cleanup, LoopSkip, LoopEnd, BeginPaged,
      DecodeWithPagedKV, LayerError, PagedArenaError, GPUArenaError, PassFails,
      Yield, WaiterWait, Unpark, seqVars, handVars
<1>3. ASSUME CancelContext \/ UNCHANGED vars
      PROVE  UNCHANGED <<gen, chan, closed, recv>>
  BY <1>3 DEF CancelContext, vars, seqVars, handVars
<1> QED
  BY <1>1, <1>2, <1>3 DEF Next

\* Every step of the scheduler is a step of the stream or a stutter of it.
LEMMA StepRefines ==
  ASSUME IndInv, [Next]_vars
  PROVE  [Stream!Next]_(Stream!vars)
<1>1. ASSUME NEW r \in Requests, Receive(r)
      PROVE  Stream!Take(r)
  BY <1>1 DEF Receive, Stream!Take
<1>2. ASSUME NEW after, k <= Len(batch), st[Current] # "Finished", UNCHANGED recv,
             SamplePrefill(Current, after) \/ SampleDecode(Current, after)
      PROVE  \E r \in Requests : Stream!Produce(r) \/ Stream!Finish(r)
  <2>1. Current \in Requests
    BY <1>2, CurrentType DEF IndInv
  <2>2. ~closed[Current]
    BY <1>2, <2>1 DEF IndInv, ClosedWhenFinished
  <2>3. PICK reason : Emit(Current, reason, after)
    BY <1>2 DEF SamplePrefill, SampleDecode
  <2> QED
    BY <1>2, <2>1, <2>2, <2>3, EmitRefines DEF IndInv
<1>3. CASE RunGPUPrefill
  <2>1. k <= Len(batch) /\ st[Current] # "Finished" /\ UNCHANGED recv
    BY <1>3 DEF RunGPUPrefill, InLoop, Selected, NeedsPrefill, handVars
  <2> QED
    BY <1>2, <1>3, <2>1 DEF RunGPUPrefill, Stream!Next
<1>4. CASE DecodeWithGPUKV
  <2>1. k <= Len(batch) /\ st[Current] # "Finished" /\ UNCHANGED recv
    BY <1>4 DEF DecodeWithGPUKV, InLoop, Selected, NeedsDecode, handVars
  <2> QED
    BY <1>2, <1>4, <2>1 DEF DecodeWithGPUKV, Stream!Next
<1>5. CASE PrefillWithPagedKV
  <2>1. k <= Len(batch) /\ st[Current] # "Finished" /\ UNCHANGED recv
    BY <1>5 DEF PrefillWithPagedKV, IndInv, PassOfBatch, handVars
  <2> QED
    BY <1>2, <1>5, <2>1 DEF PrefillWithPagedKV, Stream!Next
<1>6. CASE SampleBatch
  <2>1. k <= Len(batch) /\ st[Current] # "Finished" /\ UNCHANGED recv
    BY <1>6 DEF SampleBatch, InLoop, Selected, NeedsDecode, handVars
  <2> QED
    BY <1>2, <1>6, <2>1 DEF SampleBatch, Stream!Next
<1> QED
  BY <1>1, <1>3, <1>4, <1>5, <1>6, StutterRefines DEF Stream!Next, Stream!vars

\* The scheduler, its handlers and the token channels implement the abstract
\* token stream: tokens reach a client in the order they were made, the
\* channel closes once, and nothing follows.
THEOREM Refinement == Spec => ImplementsStream
<1>1. Init => Stream!Init
  BY DEF Init, Stream!Init
<1>2. IndInv /\ [Next]_vars => [Stream!Next]_(Stream!vars)
  BY StepRefines
<1> QED
  BY <1>1, <1>2, Invariance, PTL DEF Spec, Stream!Spec, ImplementsStream
-----------------------------------------------------------------------------
(* Tokens are delivered in order.                                          *)

\* A token pushed into the channel is the last one of what is delivered.
LEMMA PushExtends ==
  ASSUME NEW s \in Seq(Nat), NEW t \in Seq(Nat), NEW x \in Nat
  PROVE  s \o Append(t, x) = Append(s \o t, x)
<1>1. <<x>> \in Seq(Nat) /\ s \o t \in Seq(Nat)
  BY ConcatProperties
<1>2. Append(t, x) = t \o <<x>> /\ Append(s \o t, x) = (s \o t) \o <<x>>
  BY <1>1, AppendIsConcat
<1> QED
  BY <1>1, <1>2, ConcatAssociative

\* Receiving a token moves it and changes nothing of what is delivered.
LEMMA ReceiveKeeps ==
  ASSUME NEW s \in Seq(Nat), NEW t \in Seq(Nat), t # <<>>
  PROVE  Append(s, Head(t)) \o Tail(t) = s \o t
<1>1. Head(t) \in Nat /\ Tail(t) \in Seq(Nat) /\ <<Head(t)>> \in Seq(Nat)
  BY HeadTailProperties
<1>2. Append(s, Head(t)) = s \o <<Head(t)>>
  BY <1>1, AppendIsConcat
<1>3. t = <<Head(t)>> \o Tail(t)
  BY <1>1, HeadTailProperties
<1>4. (s \o <<Head(t)>>) \o Tail(t) = s \o (<<Head(t)>> \o Tail(t))
  BY <1>1, ConcatAssociative, SMTT(40)
<1> QED
  BY <1>2, <1>3, <1>4, Zenon

\* A strictly increasing sequence of token numbers up to n.
OrderedUpTo(s, n) ==
  /\ \A i \in DOMAIN s : s[i] \in 1..n
  /\ \A i, j \in DOMAIN s : i < j => s[i] < s[j]

\* The next token number keeps such a sequence increasing, sent or lost.
LEMMA OrderedAppend ==
  ASSUME NEW s \in Seq(Nat), NEW n \in Nat, OrderedUpTo(s, n)
  PROVE  /\ OrderedUpTo(s, n + 1)
         /\ OrderedUpTo(Append(s, n + 1), n + 1)
<1>1. OrderedUpTo(s, n + 1)
  BY DEF OrderedUpTo
<1>2. OrderedUpTo(Append(s, n + 1), n + 1)
  <2> DEFINE t == Append(s, n + 1)
  <2>1. /\ Len(t) = Len(s) + 1 /\ DOMAIN t = 1..(Len(s) + 1)
        /\ \A i \in 1..Len(s) : t[i] = s[i]
        /\ t[Len(s) + 1] = n + 1
        /\ DOMAIN s = 1..Len(s) /\ Len(s) \in Nat
    BY AppendProperties, LenProperties
  <2> HIDE DEF t
  <2>2. \A i \in DOMAIN t : t[i] \in 1..(n + 1)
    BY <2>1 DEF OrderedUpTo
  <2>3. \A i, j \in DOMAIN t : i < j => t[i] < t[j]
    BY <2>1 DEF OrderedUpTo
  <2> QED
    BY <2>2, <2>3 DEF OrderedUpTo, t
<1> QED
  BY <1>1, <1>2

\* A slow client may miss tokens but gets the others once and in order,
\* whatever the capacity of the channel.
THEOREM OrderedDelivery == Spec => []StreamInOrder
<1> DEFINE Ordered == \A r \in Requests : OrderedUpTo(Delivered(r), gen[r])
<1>1. Init => Ordered
  BY DEF Init, Delivered, OrderedUpTo
<1>2. ASSUME IndInv, Ordered, [Stream!Next]_(Stream!vars)
      PROVE  Ordered'
  <2> USE DEF IndInv
  <2>0. \A r \in Requests : chan[r] \in Seq(Nat) /\ recv[r] \in Seq(Nat) /\ gen[r] \in Nat
    BY <1>2 DEF TypeOK
  <2>1. ASSUME NEW r \in Requests, Stream!Take(r)
        PROVE  Ordered'
    <3>1. Delivered(r)' = Delivered(r)
      BY <1>2, <2>0, <2>1, ReceiveKeeps DEF Stream!Take, Delivered, TypeOK
    <3>2. \A q \in Requests : q # r => Delivered(q)' = Delivered(q)
      BY <1>2, <2>1 DEF Stream!Take, Delivered, TypeOK
    <3>3. gen' = gen
      BY <2>1 DEF Stream!Take
    <3> QED
      BY <1>2, <3>1, <3>2, <3>3
  <2>2. ASSUME NEW r \in Requests, Stream!Produce(r) \/ Stream!Finish(r)
        PROVE  Ordered'
    <3>1. gen'[r] = gen[r] + 1 /\ \A q \in Requests : q # r => gen'[q] = gen[q]
      BY <1>2, <2>2 DEF Stream!Produce, Stream!Finish, TypeOK
    <3>2. \A q \in Requests : q # r => Delivered(q)' = Delivered(q)
      BY <1>2, <2>2 DEF Stream!Produce, Stream!Finish, Delivered, TypeOK
    <3>3. Delivered(r) \in Seq(Nat)
      BY <2>0, ConcatProperties DEF Delivered
    <3>4. \/ Delivered(r)' = Delivered(r)
          \/ Delivered(r)' = Append(Delivered(r), gen[r] + 1)
      <4>1. recv' = recv /\ (chan' = chan \/ chan'[r] = Append(chan[r], gen[r] + 1))
        BY <1>2, <2>2 DEF Stream!Produce, Stream!Finish, TypeOK
      <4>2. recv[r] \o Append(chan[r], gen[r] + 1) = Append(Delivered(r), gen[r] + 1)
        <5>1. gen[r] + 1 \in Nat /\ recv[r] \in Seq(Nat) /\ chan[r] \in Seq(Nat)
          BY <2>0
        <5> QED
          BY <5>1, PushExtends DEF Delivered
      <4> QED
        BY <4>1, <4>2 DEF Delivered
    <3>5. OrderedUpTo(Delivered(r)', gen'[r])
      BY <1>2, <2>0, <3>1, <3>3, <3>4, OrderedAppend
    <3> QED
      BY <1>2, <3>1, <3>2, <3>5
  <2>3. CASE UNCHANGED Stream!vars
    BY <1>2, <2>3 DEF Stream!vars, Delivered
  <2> QED
    BY <1>2, <2>1, <2>2, <2>3 DEF Stream!Next
<1>3. IndInv /\ Ordered /\ [Next]_vars => Ordered'
  BY <1>2, StepRefines
<1>4. Ordered => StreamInOrder
  BY DEF StreamInOrder, OrderedUpTo
<1> QED
  BY <1>1, <1>3, <1>4, Invariance, PTL DEF Spec
=============================================================================
