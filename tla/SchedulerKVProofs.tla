-------------------------- MODULE SchedulerKVProofs --------------------------
(***************************************************************************)
(* Theorems about the KV storage of Scheduler: who owns it, what it holds, *)
(* why Run can die and when it survives; and about what a client receives, *)
(* which needs the storage.  For every set of requests, ID clock, batch    *)
(* size, block size and pool size.                                         *)
(***************************************************************************)
EXTENDS SchedulerProofs

\* An empty sequence needs no block.
LEMMA BlocksForZero == BlocksFor(0) = 0
  BY ConfigAssumption DEF BlocksFor

\* A longer sequence needs no fewer blocks.
LEMMA BlocksForMono ==
  ASSUME NEW m \in Nat, NEW n \in Nat, m <= n
  PROVE  BlocksFor(m) <= BlocksFor(n)
  BY ConfigAssumption DEF BlocksFor

\* One token more takes at most one block more.
LEMMA BlocksForStep ==
  ASSUME NEW n \in Nat
  PROVE  BlocksFor(n + 1) <= BlocksFor(n) + 1
  BY ConfigAssumption DEF BlocksFor

\* Who is ahead depends only on the loop and on the states of the sequences.
LEMMA AheadSame ==
  ASSUME UNCHANGED <<pc, batch, k, st, promptDone>>
  PROVE  \A r \in Requests : Ahead(r)' <=> Ahead(r)
  BY DEF Ahead, NeedsDecode

\* Outside the decode and sampling loops nobody is.
LEMMA AheadNone ==
  ASSUME pc \notin {"decode", "decodekv", "sample"}
  PROVE  \A r \in Requests : ~Ahead(r)
  BY DEF Ahead

\* The context of a sequence that was not removed, outside a failed step.
LEMMA ContextOf ==
  ASSUME PoolStores, CacheMode = "paged", pc # "dead", NEW r \in Requests, ~Removed(r)
  PROVE  /\ Ahead(r) => kvLen[r] = InputPos(r) + 1
         /\ ~Ahead(r) => kvLen[r] = InputPos(r)
  BY DEF PoolStores

\* The initial state satisfies the invariant.
LEMMA InitKV == Init => KVInv
<1> SUFFICES ASSUME Init PROVE KVInv
  OBVIOUS
<1>1. IndInv
  BY InitInd
<1>2. RegisteredOnce /\ Progressed /\ PassStarted
  BY RequestsAssumption DEF Init, RegisteredOnce, Removed, Progressed, PassStarted
<1>3. PoolStores
  BY BlocksForZero, AheadNone DEF Init, PoolStores, InputPos
<1> QED
  BY <1>1, <1>2, <1>3 DEF KVInv
-----------------------------------------------------------------------------
(* Registration.                                                           *)

\* RegisteredOnce only depends on the map and on the handlers.
LEMMA RegisteredSame ==
  ASSUME RegisteredOnce, UNCHANGED <<sequences, handVars>>
  PROVE  RegisteredOnce'
  BY DEF RegisteredOnce, Removed, handVars

\* A handler step keeps every sequence published once, and never brings a
\* removed sequence back.
LEMMA HandlerRegistered ==
  ASSUME IndInv, RegisteredOnce, NEW r \in Requests,
         Submit(r) \/ GiveUp(r) \/ Handler(r)
  PROVE  /\ RegisteredOnce'
         /\ \A q \in Requests : Removed(q) => Removed(q)'
<1>0. /\ sequences \in [SeqIDs -> Requests \cup {None}]
      /\ id \in [Requests -> SeqIDs \cup {None}]
      /\ victim \in [Requests -> Requests \cup {None}]
      /\ DOMAIN hpc = Requests
      /\ None \notin Requests
  BY RequestsAssumption DEF IndInv, TypeOK
<1>1. CASE Submit(r)
  BY <1>0, <1>1 DEF Submit, Goto, RegisteredOnce, Removed
<1>2. CASE /\ hpc[r] \notin {"insert", "remove"}
           /\ hpc'[r] \notin {"idle", "addkv", "insert"}
           /\ hpc[r] \in {"free", "done"} => hpc'[r] \in {"free", "done"}
           /\ \A q \in Requests : q # r => hpc'[q] = hpc[q]
           /\ UNCHANGED <<sequences, id, victim>>
  BY <1>0, <1>2 DEF RegisteredOnce, Removed
<1>3. CASE AddSequenceKV(r)
  BY <1>0, <1>3 DEF AddSequenceKV, Goto, RegisteredOnce, Removed
<1>4. CASE AddSequenceInsert(r)
  <2>1. id[r] \in SeqIDs
    BY <1>4 DEF IndInv, HandlersKnown, AddSequenceInsert
  <2>2. /\ \A i \in SeqIDs : sequences'[i] = IF i = id[r] THEN r ELSE sequences[i]
        /\ \A q \in Requests : hpc'[q] = IF q = r THEN "wake" ELSE hpc[q]
        /\ hpc[r] = "insert"
        /\ UNCHANGED <<id, victim>>
    BY <1>0, <1>4, <2>1 DEF AddSequenceInsert, Goto
  <2> QED
    BY <1>0, <2>1, <2>2 DEF RegisteredOnce, Removed
<1>5. CASE RemoveSequence(r)
  <2>1. id[r] \in SeqIDs
    BY <1>5 DEF IndInv, HandlersKnown, RemoveSequence
  <2>2. /\ \A i \in SeqIDs : sequences'[i] = IF i = id[r] THEN None ELSE sequences[i]
        /\ \A q \in Requests : victim'[q] = IF q = r THEN sequences[id[r]] ELSE victim[q]
        /\ \A q \in Requests : q # r => hpc'[q] = hpc[q]
        /\ hpc[r] = "remove" /\ hpc'[r] \in {"free", "done"}
        /\ UNCHANGED id
    BY <1>0, <1>5, <2>1 DEF RemoveSequence, Goto
  <2>3. victim[r] = None
    BY <2>2 DEF RegisteredOnce
  <2>4. \A q \in Requests : Removed(q)' <=> Removed(q) \/ q = sequences[id[r]]
    BY <1>0, <2>2, <2>3 DEF Removed
  <2>5. \A i \in SeqIDs : sequences'[i] # None =>
          sequences'[i] = sequences[i] /\ i # id[r] /\ sequences[i] # sequences[id[r]]
    BY <1>0, <2>1, <2>2 DEF RegisteredOnce
  <2>6. \A i \in SeqIDs : sequences'[i] # None =>
          /\ id'[sequences'[i]] = i
          /\ hpc'[sequences'[i]] \notin {"idle", "addkv", "insert"}
          /\ ~Removed(sequences[i])'
    BY <1>0, <2>2, <2>4, <2>5 DEF RegisteredOnce
  <2>7. \A q \in Requests :
          /\ Removed(q)' => hpc'[q] \notin {"idle", "addkv", "insert"}
          /\ victim'[q] # None => hpc'[q] \in {"free", "done"}
    BY <1>0, <2>1, <2>2, <2>4 DEF RegisteredOnce
  <2> QED
    BY <2>4, <2>6, <2>7 DEF RegisteredOnce
<1>6. CASE RemoveSequenceKV(r)
  BY <1>0, <1>2, <1>6 DEF RemoveSequenceKV, Goto
<1>7. CASE WakeUp(r) \/ EndOfStream(r) \/ GiveUp(r)
  BY <1>0, <1>2, <1>7 DEF WakeUp, EndOfStream, GiveUp, Goto
<1>8. CASE Receive(r)
  BY <1>0, <1>2, <1>8 DEF Receive
<1> QED
  BY <1>1, <1>3, <1>4, <1>5, <1>6, <1>7, <1>8 DEF Handler

\* A handler step preserves the invariant: it touches the storage of a
\* sequence only to create it or, once the sequence is removed, to release it.
LEMMA HandlerKV ==
  ASSUME KVInv, NEW r \in Requests, Submit(r) \/ GiveUp(r) \/ Handler(r)
  PROVE  Progressed' /\ PassStarted' /\ PoolStores'
<1> USE DEF KVInv
<1>1. UNCHANGED <<pc, batch, k, st, promptDone, pos, gen>>
  BY DEF Submit, GiveUp, Handler, AddSequenceKV, AddSequenceInsert, WakeUp, Receive,
         EndOfStream, RemoveSequence, RemoveSequenceKV, runVars, seqVars
<1>2. \A q \in Requests : Removed(q) => Removed(q)'
  BY HandlerRegistered
<1>3. \A q \in Requests :
        \/ /\ held'[q] = held[q] /\ kvLen'[q] = kvLen[q]
           /\ q \in poolTab => q \in poolTab'
           /\ q \in kvTab => q \in kvTab'
        \/ Removed(q) /\ held'[q] = 0 /\ kvLen'[q] = 0
  <2>1. CASE Submit(r) \/ GiveUp(r) \/ AddSequenceInsert(r) \/ WakeUp(r)
             \/ Receive(r) \/ EndOfStream(r) \/ RemoveSequence(r)
    BY <2>1 DEF Submit, GiveUp, AddSequenceInsert, WakeUp, Receive, EndOfStream,
                RemoveSequence, kvVars
  <2>2. CASE AddSequenceKV(r)
    BY <2>2 DEF AddSequenceKV
  <2>3. CASE RemoveSequenceKV(r)
    <3>1. victim[r] \in Requests
      BY <2>3 DEF IndInv, HandlersKnown, RemoveSequenceKV
    <3>2. Removed(victim[r])
      BY DEF Removed
    <3> QED
      BY <2>3, <3>1, <3>2 DEF RemoveSequenceKV, PoolDelete, IndInv, TypeOK
  <2> QED
    BY <2>1, <2>2, <2>3 DEF Handler
<1>4. \A q \in Requests :
        hpc'[q] \notin {"idle", "addkv"} =>
          \/ hpc[q] \notin {"idle", "addkv"}
          \/ CacheMode = "paged" => q \in kvTab'
  <2>1. DOMAIN hpc = Requests
    BY DEF IndInv, TypeOK
  <2>2. CASE AddSequenceKV(r)
    BY <2>1, <2>2 DEF AddSequenceKV, Goto
  <2>3. CASE ~AddSequenceKV(r)
    BY <2>1, <2>3 DEF Submit, GiveUp, Handler, AddSequenceInsert, WakeUp,
                Receive, EndOfStream, RemoveSequence, RemoveSequenceKV, Goto
  <2> QED
    BY <2>2, <2>3
<1>5. Progressed'
  BY <1>1 DEF Progressed
<1>6. PassStarted'
  <2>1. pc \in {"prefillkv", "decodekv"} => Current \in Requests
    BY CurrentType DEF IndInv, PassOfBatch
  <2> QED
    BY <1>1, <1>2, <1>3, <2>1 DEF PassStarted, Current, NeedsPrefill, NeedsDecode
<1>7. PoolStores'
  <2>1. /\ \A q \in Requests : Ahead(q)' <=> Ahead(q)
        /\ \A q \in Requests : InputPos(q)' = InputPos(q)
    BY <1>1, AheadSame DEF InputPos
  <2>2. ASSUME NEW q \in Requests
        PROVE  /\ held'[q] > 0 \/ kvLen'[q] > 0 => q \in poolTab'
               /\ pc' # "dead" => held'[q] = BlocksFor(kvLen'[q])
    <3>1. CASE held'[q] = 0 /\ kvLen'[q] = 0
      BY <3>1, BlocksForZero
    <3>2. CASE /\ held'[q] = held[q] /\ kvLen'[q] = kvLen[q]
               /\ q \in poolTab => q \in poolTab'
      BY <1>1, <3>2 DEF PoolStores
    <3> QED
      BY <1>3, <3>1, <3>2
  <2>3. ASSUME CacheMode = "paged", NEW q \in Requests, ~Removed(q)'
        PROVE  /\ hpc'[q] \notin {"idle", "addkv"} => q \in kvTab'
               /\ pc' # "dead" => IF Ahead(q)' THEN kvLen'[q] = InputPos(q)' + 1 ELSE kvLen'[q] = InputPos(q)'
               /\ kvLen'[q] >= InputPos(q)'
               /\ gen'[q] > 0 => held'[q] = BlocksFor(kvLen'[q])
    <3>1. /\ ~Removed(q)
          /\ held'[q] = held[q] /\ kvLen'[q] = kvLen[q]
          /\ q \in kvTab => q \in kvTab'
      BY <1>2, <1>3, <2>3
    <3> QED
      BY <1>1, <1>4, <2>1, <2>3, <3>1 DEF PoolStores
  <2> QED
    BY <2>2, <2>3 DEF PoolStores
<1> QED
  BY <1>5, <1>6, <1>7
-----------------------------------------------------------------------------
(* The scheduler loop.                                                     *)

\* Sampling moves a sequence from pending to decoding or finished, with one
\* token more and the positions its pass has processed.
LEMMA SampleProgress ==
  ASSUME IndInv, Progressed, NEW r \in Requests, NEW after,
         \/ SamplePrefill(r, after) /\ st[r] = "Pending" /\ PromptLen[r] > 0
         \/ SampleDecode(r, after)
  PROVE  /\ Progressed'
         /\ \A q \in Requests : q # r =>
              /\ st'[q] = st[q] /\ promptDone'[q] = promptDone[q]
              /\ gen'[q] = gen[q] /\ pos'[q] = pos[q]
         /\ gen'[r] = gen[r] + 1
         /\ SamplePrefill(r, after) => pos'[r] = PromptLen[r]
         /\ SampleDecode(r, after) => pos'[r] = pos[r] + 1
<1>1. PICK reason : Emit(r, reason, after)
  BY DEF SamplePrefill, SampleDecode
<1>2. /\ st'[r] # "Pending" /\ gen'[r] = gen[r] + 1
      /\ \A q \in Requests : q # r => st'[q] = st[q] /\ gen'[q] = gen[q]
  BY <1>1 DEF Emit, IndInv, TypeOK
<1>3. /\ \A q \in Requests : q # r =>
           promptDone'[q] = promptDone[q] /\ pos'[q] = pos[q]
      /\ SamplePrefill(r, after) => pos'[r] = PromptLen[r]
      /\ SampleDecode(r, after) => pos'[r] = pos[r] + 1
  BY DEF SamplePrefill, SampleDecode, IndInv, TypeOK
<1>4. PromptLen[r] \in Nat /\ pos[r] \in Nat /\ gen[r] \in Nat
  BY ConfigAssumption DEF IndInv, TypeOK
<1>5. Progressed'
  BY <1>2, <1>3, <1>4 DEF Progressed
<1> QED
  BY <1>2, <1>3, <1>5

\* StoreKV keeps blocks and tokens in step, takes none from anyone else, and
\* leaves a table of exactly n tokens when it had no more.
LEMMA StoreKVExact ==
  ASSUME TypeOK, NEW r \in Requests, NEW n \in Nat, StoreKV(r, n),
         held[r] = BlocksFor(kvLen[r])
  PROVE  /\ held'[r] = BlocksFor(kvLen'[r])
         /\ kvLen'[r] = IF n > kvLen[r] THEN n ELSE kvLen[r]
         /\ \A q \in Requests : q # r => held'[q] = held[q] /\ kvLen'[q] = kvLen[q]
<1>1. /\ held[r] \in Nat /\ kvLen[r] \in Nat
      /\ BlocksFor(n) \in Nat /\ BlocksFor(kvLen[r]) \in Nat
  BY BlocksForType DEF TypeOK
<1>2. /\ held'[r] = IF BlocksFor(n) > held[r] THEN BlocksFor(n) ELSE held[r]
      /\ kvLen'[r] = IF n > kvLen[r] THEN n ELSE kvLen[r]
      /\ \A q \in Requests : q # r => held'[q] = held[q] /\ kvLen'[q] = kvLen[q]
  BY <1>1 DEF StoreKV, TypeOK
<1>3. IF n > kvLen[r] THEN BlocksFor(n) >= BlocksFor(kvLen[r])
                      ELSE BlocksFor(n) <= BlocksFor(kvLen[r])
  BY <1>1, BlocksForMono
<1> QED
  BY <1>1, <1>2, <1>3

\* A step that moves only the loop, and leaves the same sequences ahead.
LEMMA ControlKV ==
  ASSUME KVInv, UNCHANGED <<seqVars, handVars, kvVars>>,
         \A r \in Requests : Ahead(r)' <=> Ahead(r),
         pc' = "dead" <=> pc = "dead"
  PROVE  Progressed' /\ PoolStores'
<1>1. \A r \in Requests : InputPos(r)' = InputPos(r) /\ (Removed(r)' <=> Removed(r))
  BY DEF InputPos, Removed, seqVars, handVars
<1>2. Progressed'
  BY DEF KVInv, Progressed, seqVars
<1>3. PoolStores'
  BY <1>1 DEF KVInv, PoolStores, seqVars, handVars, kvVars
<1> QED
  BY <1>2, <1>3

\* The bookkeeping steps of the loop preserve the invariant: in particular the
\* end of the decode loop hands its sequences, all ahead, to the sampling loop.
LEMMA BookkeepingKV ==
  ASSUME KVInv,
         Collect \/ RunReturns \/ Cleanup \/ LoopSkip \/ LoopEnd \/ Yield
           \/ WaiterWait \/ Unpark
  PROVE  Progressed' /\ PassStarted' /\ PoolStores'
<1> USE DEF KVInv
<1>0. UNCHANGED <<seqVars, handVars, kvVars>>
  BY DEF Collect, RunReturns, Cleanup, LoopSkip, LoopEnd, Yield, WaiterWait, Unpark
<1>1. CASE Collect
  <2>1. pc = "top" /\ pc' \in {"cleanup", "prefill"} /\ batch' \in Batches(Ready)
    BY <1>1 DEF Collect
  <2>2. \A r \in Requests : ~Ahead(r) /\ ~Ahead(r)'
    BY <2>1, AheadNone DEF Ahead
  <2>3. \A i, j \in DOMAIN batch' : batch'[i] = batch'[j] => i = j
    BY <2>1 DEF Batches
  <2>4. PassStarted'
    BY <2>1, <2>3 DEF PassStarted
  <2> QED
    BY <1>0, <2>1, <2>2, <2>4, ControlKV
<1>2. CASE RunReturns \/ Cleanup \/ Yield \/ Unpark
  <2>1. /\ pc \in {"top", "parked", "cleanup", "yield"}
        /\ pc' \in {"stopped", "yield", "top", "parked"}
        /\ batch' = batch
    BY <1>2 DEF RunReturns, Cleanup, Yield, Unpark
  <2>2. \A r \in Requests : ~Ahead(r) /\ ~Ahead(r)'
    BY <2>1, AheadNone DEF Ahead
  <2>3. PassStarted'
    BY <2>1 DEF PassStarted
  <2> QED
    BY <1>0, <2>1, <2>2, <2>3, ControlKV
<1>3. CASE WaiterWait
  <2>1. UNCHANGED <<pc, batch, k, st, promptDone, poolTab, victim>>
    BY <1>0, <1>3 DEF WaiterWait, seqVars, kvVars, handVars
  <2>2. \A r \in Requests : Ahead(r)' <=> Ahead(r)
    BY <2>1, AheadSame
  <2>3. PassStarted'
    BY <2>1 DEF PassStarted, Current, NeedsPrefill, NeedsDecode, Removed
  <2> QED
    BY <1>0, <2>1, <2>2, <2>3, ControlKV
<1>4. CASE LoopSkip
  <2>1. /\ pc \in {"prefill", "decode", "sample"} /\ pc' = pc
        /\ batch' = batch /\ k' = k + 1
        /\ pc # "prefill" => ~NeedsDecode(Current)
        /\ k \in Nat
    BY <1>4 DEF LoopSkip, Selected, IndInv, TypeOK
  <2>2. DOMAIN batch \subseteq Int
    BY DEF IndInv, TypeOK
  <2>3. \A r \in Requests : NeedsDecode(r)' <=> NeedsDecode(r)
    BY <1>0 DEF NeedsDecode, seqVars
  <2>4. ASSUME NEW r \in Requests
        PROVE  Ahead(r)' <=> Ahead(r)
    <3>1. CASE pc = "prefill"
      BY <2>1, <3>1 DEF Ahead
    <3>2. CASE pc \in {"decode", "sample"}
      <4>1. CASE ~NeedsDecode(r)
        BY <2>3, <4>1 DEF Ahead
      <4>2. CASE NeedsDecode(r)
        <5>1. \A j \in DOMAIN batch : batch[j] = r => j # k
          BY <2>1, <3>2, <4>2 DEF Current
        <5>2. \A j \in DOMAIN batch : batch[j] = r => (j < k + 1 <=> j < k)
          BY <2>1, <2>2, <5>1
        <5>3. \A j \in DOMAIN batch : batch[j] = r => (j >= k + 1 <=> j >= k)
          BY <2>1, <2>2, <5>1
        <5> QED
          BY <2>1, <2>3, <5>2, <5>3 DEF Ahead
      <4> QED
        BY <4>1, <4>2
    <3> QED
      BY <2>1, <3>1, <3>2
  <2>5. PassStarted'
    BY <2>1 DEF PassStarted
  <2>6. pc' = "dead" <=> pc = "dead"
    BY <2>1
  <2> QED
    BY <1>0, <2>4, <2>5, <2>6, ControlKV
<1>5. CASE LoopEnd
  <2>1. /\ pc \in {"prefill", "decode", "sample"} /\ k > Len(batch)
        /\ batch' = batch /\ k' = 1
        /\ pc' = CASE pc = "prefill" -> "decode"
                   [] pc = "decode" /\ CacheMode = "paged" -> "sample"
                   [] OTHER -> "yield"
        /\ k \in Nat
    BY <1>5 DEF LoopEnd, IndInv, TypeOK
  <2>2. \A j \in DOMAIN batch : j \in Int /\ 1 <= j /\ j < k
    <3>1. DOMAIN batch = 1..Len(batch) /\ Len(batch) \in Nat
      BY LenProperties DEF IndInv, TypeOK
    <3>2. k > Len(batch) /\ k \in Nat
      BY <2>1
    <3> QED
      BY <3>1, <3>2
  <2>3. \A r \in Requests : NeedsDecode(r)' <=> NeedsDecode(r)
    BY <1>0 DEF NeedsDecode, seqVars
  <2>4. CASE pc = "prefill"
    <3>1. \A r \in Requests : ~Ahead(r) /\ ~Ahead(r)'
      BY <2>1, <2>2, <2>4 DEF Ahead
    <3>2. PassStarted'
      BY <2>1, <2>4 DEF PassStarted
    <3> QED
      BY <1>0, <2>1, <2>4, <3>1, <3>2, ControlKV
  <2>5. CASE pc = "decode" /\ CacheMode = "paged"
    <3>1. pc' = "sample"
      BY <2>1, <2>5
    <3>2. \A r \in Requests : Ahead(r)' <=> Ahead(r)
      <4> SUFFICES ASSUME NEW r \in Requests
                   PROVE  Ahead(r)' <=> Ahead(r)
        OBVIOUS
      <4>1. Ahead(r) <=> NeedsDecode(r) /\ \E j \in DOMAIN batch : batch[j] = r
        BY <2>2, <2>5 DEF Ahead
      <4>2. Ahead(r)' <=> NeedsDecode(r)' /\ \E j \in DOMAIN batch : batch[j] = r
        BY <2>1, <2>2, <3>1 DEF Ahead
      <4> QED
        BY <2>3, <4>1, <4>2
    <3>3. PassStarted'
      BY <2>1, <2>5, <3>1 DEF PassStarted
    <3> QED
      BY <1>0, <2>5, <3>1, <3>2, <3>3, ControlKV
  <2>6. CASE pc = "sample"
    <3>1. pc' = "yield"
      BY <2>1, <2>6
    <3>2. \A r \in Requests : ~Ahead(r) /\ ~Ahead(r)'
      BY <2>1, <2>2, <2>6, <3>1 DEF Ahead
    <3>3. PassStarted'
      BY <2>1, <3>1 DEF PassStarted
    <3> QED
      BY <1>0, <2>6, <3>1, <3>2, <3>3, ControlKV
  <2>7. CASE pc = "decode" /\ CacheMode # "paged"
    <3>1. pc' = "yield"
      BY <2>1, <2>7
    <3>2. Progressed'
      BY <1>0 DEF Progressed, seqVars
    <3>3. PoolStores'
      BY <1>0, <2>7, <3>1 DEF PoolStores, kvVars
    <3>4. PassStarted'
      BY <2>1, <3>1 DEF PassStarted
    <3> QED
      BY <3>2, <3>3, <3>4
  <2> QED
    BY <2>1, <2>4, <2>5, <2>6, <2>7
<1> QED
  BY <1>1, <1>2, <1>3, <1>4, <1>5

\* With the single GPU cache, prefill and decode leave the paged storage alone.
LEMMA GPUPassKV ==
  ASSUME KVInv, RunGPUPrefill \/ DecodeWithGPUKV
  PROVE  Progressed' /\ PassStarted' /\ PoolStores'
<1> USE DEF KVInv
<1>1. CacheMode = "gpu" /\ k <= Len(batch) /\ st[Current] # "Finished"
  BY DEF RunGPUPrefill, DecodeWithGPUKV, InLoop, Selected, NeedsPrefill, NeedsDecode
<1>2. Current \in Requests
  BY <1>1, CurrentType DEF IndInv
<1>3. \/ RunGPUPrefill /\ SamplePrefill(Current, "prefill") /\ NeedsPrefill(Current)
      \/ DecodeWithGPUKV /\ SampleDecode(Current, "decode")
  BY DEF RunGPUPrefill, DecodeWithGPUKV, InLoop, Selected
<1>4. Progressed'
  BY <1>2, <1>3, SampleProgress DEF NeedsPrefill
<1>5. pc' \in {"prefill", "decode"}
  BY <1>1, <1>2, <1>3, SampleSafe DEF IndInv, ClosedWhenFinished
<1>6. batch' = batch /\ UNCHANGED <<poolTab, kvLen, held>>
  BY <1>3 DEF RunGPUPrefill, DecodeWithGPUKV, poolVars
<1>7. PassStarted'
  BY <1>5, <1>6 DEF PassStarted
<1>8. pc # "dead"
  BY <1>3 DEF RunGPUPrefill, DecodeWithGPUKV, InLoop
<1>9. PoolStores'
  BY <1>1, <1>5, <1>6, <1>8 DEF PoolStores
<1> QED
  BY <1>4, <1>7, <1>9

\* A batch holds each sequence once: the one a pass runs for is not behind it.
LEMMA CurrentOnce ==
  ASSUME IndInv, PassStarted, k <= Len(batch)
  PROVE  /\ k \in DOMAIN batch /\ k \in Nat
         /\ \A j \in DOMAIN batch : batch[j] = Current => ~(j < k)
         /\ \A j \in DOMAIN batch : j \in Int /\ (batch[j] = Current => j = k)
<1>1. DOMAIN batch = 1..Len(batch) /\ Len(batch) \in Nat /\ k \in Nat \ {0}
  BY LenProperties DEF IndInv, TypeOK
<1>2. k \in DOMAIN batch
  BY <1>1
<1> QED
  BY <1>1, <1>2 DEF PassStarted, Current

\* The paged passes begin by making sure the pool tracks the sequence.
LEMMA BeginPagedKV ==
  ASSUME KVInv, BeginPaged
  PROVE  Progressed' /\ PassStarted' /\ PoolStores'
<1> USE DEF KVInv
<1>1. /\ pc \in {"prefill", "decode"} /\ Selected(Current) /\ CacheMode = "paged"
      /\ pc' = IF pc = "prefill" THEN "prefillkv" ELSE "decodekv"
      /\ poolTab' = poolTab \cup {Current}
      /\ UNCHANGED <<batch, k, seqVars, handVars, kvTab, kvLen, held>>
  BY DEF BeginPaged, InLoop, EnsureSequence
<1>2. Progressed'
  BY <1>1 DEF Progressed, seqVars
<1>3. PassStarted'
  BY <1>1 DEF PassStarted, Current, Selected, NeedsPrefill, NeedsDecode, seqVars
<1>4. \A r \in Requests : Ahead(r)' <=> Ahead(r)
  BY <1>1 DEF Ahead, NeedsDecode, seqVars
<1>5. \A r \in Requests : InputPos(r)' = InputPos(r) /\ (Removed(r)' <=> Removed(r))
  BY <1>1 DEF InputPos, Removed, seqVars, handVars
<1>6. PoolStores'
  BY <1>1, <1>4, <1>5 DEF PoolStores, seqVars, handVars
<1> QED
  BY <1>2, <1>3, <1>6

\* A paged prefill stores the prompt and sets the position behind it.
LEMMA PrefillKV ==
  ASSUME KVInv, PrefillWithPagedKV
  PROVE  Progressed' /\ PassStarted' /\ PoolStores'
<1> USE DEF KVInv
<1>0. PICK c \in Requests : c = Current
  BY CurrentType DEF PrefillWithPagedKV, IndInv, PassOfBatch
<1>1. /\ pc = "prefillkv" /\ CanStore(c, PromptLen[c]) /\ StoreKV(c, PromptLen[c])
      /\ SamplePrefill(c, "prefill")
      /\ UNCHANGED <<batch, handVars, kvTab, poolTab>>
  BY <1>0 DEF PrefillWithPagedKV
<1>2. /\ CacheMode = "paged"
      /\ st[c] = "Pending" /\ PromptLen[c] > 0 /\ ~promptDone[c]
  BY <1>0, <1>1 DEF PassStarted, NeedsPrefill
<1>3. PromptLen[c] \in Nat
  BY <1>2, ConfigAssumption
<1>4. /\ Progressed'
      /\ \A q \in Requests : q # c =>
           /\ st'[q] = st[q] /\ promptDone'[q] = promptDone[q]
           /\ gen'[q] = gen[q] /\ pos'[q] = pos[q]
      /\ gen'[c] = gen[c] + 1 /\ pos'[c] = PromptLen[c]
  BY <1>1, <1>2, SampleProgress
<1>5. pc' = "prefill"
  BY <1>1, <1>2, SampleSafe DEF IndInv, ClosedWhenFinished
<1>6. PassStarted'
  BY <1>1, <1>5 DEF PassStarted
<1>7. held[c] = BlocksFor(kvLen[c]) /\ c \in poolTab
  BY <1>1, <1>2 DEF PoolStores, CanStore
<1>8. /\ held'[c] = BlocksFor(kvLen'[c])
      /\ kvLen'[c] = IF PromptLen[c] > kvLen[c] THEN PromptLen[c] ELSE kvLen[c]
      /\ \A q \in Requests : q # c => held'[q] = held[q] /\ kvLen'[q] = kvLen[q]
  BY <1>1, <1>2, <1>3, <1>7, StoreKVExact DEF IndInv
<1>9. \A q \in Requests : ~Ahead(q) /\ ~Ahead(q)'
  BY <1>1, <1>5 DEF Ahead
<1>10. \A q \in Requests : Removed(q)' <=> Removed(q)
  BY <1>1 DEF Removed, handVars
<1>11. PoolStores'
  <2>1. \A q \in Requests : /\ held'[q] > 0 \/ kvLen'[q] > 0 => q \in poolTab'
                            /\ held'[q] = BlocksFor(kvLen'[q])
    BY <1>1, <1>7, <1>8 DEF PoolStores
  <2>2. \A q \in Requests : ~Removed(q) => kvLen'[q] = InputPos(q)'
    <3>1. CASE ~Removed(c)
      <4>1. kvLen[c] = 0 /\ gen[c] = 0
        <5>1. kvLen[c] = InputPos(c)
          BY <1>1, <1>2, <1>9, <3>1, ContextOf
        <5> QED
          BY <1>2, <5>1 DEF InputPos, Progressed
      <4>2. kvLen'[c] = InputPos(c)'
        BY <1>2, <1>3, <1>4, <1>8, <4>1 DEF InputPos
      <4>3. \A q \in Requests : q # c /\ ~Removed(q) => kvLen'[q] = InputPos(q)'
        <5>1. \A q \in Requests : q # c => InputPos(q)' = InputPos(q)
          BY <1>4 DEF InputPos
        <5>2. \A q \in Requests : ~Removed(q) => kvLen[q] = InputPos(q)
          BY <1>1, <1>2, <1>9, ContextOf
        <5> QED
          BY <1>8, <5>1, <5>2
      <4> QED
        BY <4>2, <4>3
    <3>2. CASE Removed(c)
      BY <1>1, <1>2, <1>4, <1>8, <1>9, <3>2 DEF PoolStores, InputPos, IndInv, TypeOK
    <3> QED
      BY <3>1, <3>2
  <2>3. \A q \in Requests : ~Removed(q) =>
          (hpc'[q] \notin {"idle", "addkv"} => q \in kvTab')
    BY <1>1, <1>2 DEF PoolStores, handVars
  <2>4. \A q \in Requests : InputPos(q)' \in Nat
    BY <1>3, <1>4 DEF InputPos, IndInv, TypeOK
  <2> QED
    BY <1>9, <1>10, <2>1, <2>2, <2>3, <2>4 DEF PoolStores
<1> QED
  BY <1>4, <1>6, <1>11

\* A paged decode stores one token, which puts its sequence ahead.
LEMMA DecodeKV ==
  ASSUME KVInv, DecodeWithPagedKV
  PROVE  Progressed' /\ PassStarted' /\ PoolStores'
<1> USE DEF KVInv
<1>0. PICK c \in Requests : c = Current
  BY CurrentType DEF DecodeWithPagedKV, IndInv, PassOfBatch
<1>4. PICK n \in Nat : n = InputPos(c) + 1 /\ InputPos(c) \in Nat
  BY DEF InputPos, IndInv, TypeOK
<1>1. /\ pc = "decodekv" /\ CanStore(c, n) /\ StoreKV(c, n)
      /\ pc' = "decode" /\ k' = k + 1
      /\ UNCHANGED <<batch, seqVars, handVars, kvTab, poolTab>>
  BY <1>0, <1>4 DEF DecodeWithPagedKV
<1>2. CacheMode = "paged" /\ NeedsDecode(c) /\ k <= Len(batch)
  BY <1>0, <1>1 DEF IndInv, PassOfBatch, PassStarted
<1>3. /\ k \in DOMAIN batch /\ batch[k] = c /\ k \in Nat
      /\ \A j \in DOMAIN batch : j \in Int /\ (batch[j] = c => j = k)
  BY <1>0, <1>2, CurrentOnce DEF Current, IndInv, TypeOK
<1>5. Progressed' /\ PassStarted'
  BY <1>1 DEF Progressed, PassStarted, seqVars
<1>6. held[c] = BlocksFor(kvLen[c]) /\ c \in poolTab
  BY <1>1, <1>2 DEF PoolStores, CanStore
<1>7. /\ held'[c] = BlocksFor(kvLen'[c])
      /\ kvLen'[c] = IF n > kvLen[c] THEN n ELSE kvLen[c]
      /\ \A q \in Requests : q # c => held'[q] = held[q] /\ kvLen'[q] = kvLen[q]
  BY <1>1, <1>2, <1>4, <1>6, StoreKVExact DEF IndInv
<1>8. /\ ~Ahead(c) /\ Ahead(c)'
      /\ \A q \in Requests : q # c => (Ahead(q)' <=> Ahead(q))
  <2>1. \A q \in Requests : NeedsDecode(q)' <=> NeedsDecode(q)
    BY <1>1 DEF NeedsDecode, seqVars
  <2>2. ~Ahead(c)
    BY <1>1, <1>3 DEF Ahead
  <2>3. k < k' /\ k' = k + 1
    BY <1>1, <1>3
  <2>4. Ahead(c)'
    BY <1>1, <1>2, <1>3, <2>1, <2>3 DEF Ahead
  <2>5. ASSUME NEW q \in Requests, q # c
        PROVE  Ahead(q)' <=> Ahead(q)
    <3>1. \A j \in DOMAIN batch : batch[j] = q => (j < k' <=> j < k)
      BY <1>3, <2>3, <2>5
    <3> QED
      BY <1>1, <2>1, <3>1 DEF Ahead
  <2> QED
    BY <2>2, <2>4, <2>5
<1>9. \A q \in Requests : /\ Removed(q)' <=> Removed(q)
                          /\ InputPos(q)' = InputPos(q)
  BY <1>1 DEF Removed, InputPos, handVars, seqVars
<1>10. PoolStores'
  <2>1. \A q \in Requests : /\ held'[q] > 0 \/ kvLen'[q] > 0 => q \in poolTab'
                            /\ held'[q] = BlocksFor(kvLen'[q])
    BY <1>1, <1>6, <1>7 DEF PoolStores
  <2>2. \A q \in Requests : ~Removed(q) =>
          IF Ahead(q)' THEN kvLen'[q] = InputPos(q)' + 1 ELSE kvLen'[q] = InputPos(q)'
    <3>1. ~Removed(c) => kvLen[c] = InputPos(c)
      BY <1>1, <1>2, <1>8, ContextOf
    <3>2. ~Removed(c) => IF Ahead(c)' THEN kvLen'[c] = InputPos(c)' + 1 ELSE kvLen'[c] = InputPos(c)'
      BY <1>2, <1>4, <1>7, <1>8, <1>9, <3>1
    <3>3. \A q \in Requests : q # c /\ ~Removed(q) =>
            IF Ahead(q)' THEN kvLen'[q] = InputPos(q)' + 1 ELSE kvLen'[q] = InputPos(q)'
      <4>1. \A q \in Requests : ~Removed(q) =>
              IF Ahead(q) THEN kvLen[q] = InputPos(q) + 1 ELSE kvLen[q] = InputPos(q)
        BY <1>1, <1>2, ContextOf
      <4> QED
        BY <1>7, <1>8, <1>9, <4>1
    <3> QED
      BY <3>2, <3>3
  <2>3. \A q \in Requests : ~Removed(q) =>
          (hpc'[q] \notin {"idle", "addkv"} => q \in kvTab')
    BY <1>1, <1>2 DEF PoolStores, handVars
  <2>4. \A q \in Requests : InputPos(q)' \in Nat
    BY <1>9 DEF InputPos, IndInv, TypeOK
  <2> QED
    BY <1>9, <2>1, <2>2, <2>3, <2>4 DEF PoolStores
<1> QED
  BY <1>5, <1>10

\* Sampling after the paged decode: the position catches up with the storage.
LEMMA SampleBatchKV ==
  ASSUME KVInv, SampleBatch
  PROVE  Progressed' /\ PassStarted' /\ PoolStores'
<1> USE DEF KVInv
<1>0. PICK c \in Requests : c = Current
  BY CurrentType DEF SampleBatch, InLoop, IndInv
<1>1. /\ pc = "sample" /\ k <= Len(batch) /\ NeedsDecode(c) /\ CacheMode = "paged"
      /\ SampleDecode(c, "sample") /\ k' = k + 1
      /\ UNCHANGED <<batch, handVars, kvTab, poolTab, kvLen, held>>
  BY <1>0 DEF SampleBatch, InLoop, Selected, PassStarted, kvVars
<1>2. /\ k \in DOMAIN batch /\ batch[k] = c /\ k \in Nat
      /\ \A j \in DOMAIN batch : j \in Int /\ (batch[j] = c => j = k)
  BY <1>0, <1>1, CurrentOnce DEF Current, IndInv, TypeOK
<1>3. /\ Progressed'
      /\ \A q \in Requests : q # c =>
           /\ st'[q] = st[q] /\ promptDone'[q] = promptDone[q]
           /\ gen'[q] = gen[q] /\ pos'[q] = pos[q]
      /\ gen'[c] = gen[c] + 1 /\ pos'[c] = pos[c] + 1
  BY <1>1, SampleProgress
<1>4. pc' = "sample"
  BY <1>1, SampleSafe DEF NeedsDecode, IndInv, ClosedWhenFinished
<1>5. PassStarted'
  BY <1>1, <1>4 DEF PassStarted
<1>6. /\ Ahead(c) /\ ~Ahead(c)'
      /\ \A q \in Requests : q # c => (Ahead(q)' <=> Ahead(q))
  <2>1. Ahead(c)
    BY <1>1, <1>2 DEF Ahead
  <2>2. k' = k + 1 /\ ~(k >= k + 1)
    BY <1>1, <1>2
  <2>3. ~Ahead(c)'
    BY <1>1, <1>2, <1>4, <2>2 DEF Ahead
  <2>4. ASSUME NEW q \in Requests, q # c
        PROVE  Ahead(q)' <=> Ahead(q)
    <3>1. \A j \in DOMAIN batch : batch[j] = q => (j >= k' <=> j >= k)
      BY <1>2, <2>2, <2>4
    <3>2. NeedsDecode(q)' <=> NeedsDecode(q)
      BY <1>3, <2>4 DEF NeedsDecode
    <3> QED
      BY <1>1, <1>4, <3>1, <3>2 DEF Ahead
  <2> QED
    BY <2>1, <2>3, <2>4
<1>7. \A q \in Requests : Removed(q)' <=> Removed(q)
  BY <1>1 DEF Removed, handVars
<1>8. /\ InputPos(c)' = InputPos(c) + 1 /\ InputPos(c)' \in Nat
      /\ \A q \in Requests : q # c => InputPos(q)' = InputPos(q)
  <2>1. gen[c] \in Nat /\ pos[c] \in Nat /\ (gen[c] = 0 => pos[c] = 0)
    BY DEF Progressed, IndInv, TypeOK
  <2>2. InputPos(c)' = InputPos(c) + 1 /\ InputPos(c)' \in Nat
    BY <1>3, <2>1 DEF InputPos
  <2>3. \A q \in Requests : q # c => InputPos(q)' = InputPos(q)
    BY <1>3 DEF InputPos
  <2> QED
    BY <2>2, <2>3
<1>9. PoolStores'
  <2>1. \A q \in Requests : /\ held'[q] > 0 \/ kvLen'[q] > 0 => q \in poolTab'
                            /\ held'[q] = BlocksFor(kvLen'[q])
    BY <1>1 DEF PoolStores
  <2>2. \A q \in Requests : ~Removed(q) =>
          IF Ahead(q) THEN kvLen[q] = InputPos(q) + 1 ELSE kvLen[q] = InputPos(q)
    BY <1>1, ContextOf
  <2>3. \A q \in Requests : ~Removed(q) =>
          IF Ahead(q)' THEN kvLen'[q] = InputPos(q)' + 1 ELSE kvLen'[q] = InputPos(q)'
    BY <1>1, <1>6, <1>8, <2>2
  <2>4. \A q \in Requests : ~Removed(q) =>
          (hpc'[q] \notin {"idle", "addkv"} => q \in kvTab')
    BY <1>1 DEF PoolStores, handVars
  <2>5. \A q \in Requests : InputPos(q)' \in Nat
    BY <1>8 DEF InputPos, IndInv, TypeOK
  <2> QED
    BY <1>7, <2>1, <2>3, <2>4, <2>5 DEF PoolStores
<1> QED
  BY <1>3, <1>5, <1>9

\* A failed pass: a decode fails for want of one block, so it takes none, and
\* a sequence with tokens keeps exactly the blocks it needs.
LEMMA LayerErrorKV ==
  ASSUME KVInv, LayerError
  PROVE  Progressed' /\ PassStarted' /\ PoolStores'
<1> USE DEF KVInv
<1>0. PICK c \in Requests : c = Current
  BY CurrentType DEF LayerError, IndInv, PassOfBatch
<1>1. /\ pc \in {"prefillkv", "decodekv"} /\ pc' = "dead"
      /\ ~CanStore(c, IF pc = "prefillkv" THEN PromptLen[c] ELSE InputPos(c) + 1)
      /\ held' = [held EXCEPT ![c] = IF c \in poolTab THEN @ + freeBlocks ELSE @]
      /\ UNCHANGED <<batch, k, seqVars, handVars, kvTab, poolTab, kvLen>>
  BY <1>0 DEF LayerError, FailStoreKV, PassFails, PassEnd, Prefilling
<1>2. Progressed' /\ PassStarted'
  BY <1>1 DEF Progressed, PassStarted, seqVars
<1>3. \A q \in Requests : /\ Removed(q)' <=> Removed(q)
                          /\ InputPos(q)' = InputPos(q)
  BY <1>1 DEF Removed, InputPos, handVars, seqVars
<1>4. \A q \in Requests : held[q] \in Nat /\ kvLen[q] \in Nat
  BY DEF IndInv, TypeOK
<1>5. freeBlocks \in Nat
  BY DEF IndInv, TypeOK
<1>6. \A q \in Requests : q # c => held'[q] = held[q]
  BY <1>1 DEF IndInv, TypeOK
<1>7. held'[c] = IF c \in poolTab THEN held[c] + freeBlocks ELSE held[c]
  BY <1>1 DEF IndInv, TypeOK
<1>8. ~Removed(c) /\ gen[c] > 0 => held'[c] = held[c]
  <2> SUFFICES ASSUME ~Removed(c), gen[c] > 0, c \in poolTab
               PROVE  freeBlocks = 0
    BY <1>4, <1>5, <1>7
  <2>1. pc = "decodekv" /\ CacheMode = "paged"
    BY <1>0, <1>1 DEF PassStarted, NeedsPrefill, Progressed
  <2>2. ~Ahead(c)
    <3>1. k <= Len(batch)
      BY <2>1 DEF IndInv, PassOfBatch
    <3>2. \A j \in DOMAIN batch : batch[j] = c => ~(j < k)
      BY <1>0, <3>1, CurrentOnce
    <3> QED
      BY <2>1, <3>2 DEF Ahead
  <2>3. kvLen[c] = InputPos(c) /\ held[c] = BlocksFor(kvLen[c])
    BY <2>1, <2>2, ContextOf DEF PoolStores
  <2>4. InputPos(c) \in Nat
    BY DEF InputPos, IndInv, TypeOK
  <2>5. BlocksFor(InputPos(c) + 1) <= held[c] + 1 /\ BlocksFor(InputPos(c) + 1) \in Nat
    BY <2>3, <2>4, BlocksForStep, BlocksForType
  <2>6. BlocksFor(InputPos(c) + 1) - held[c] > freeBlocks
    BY <1>1, <1>4, <1>5, <2>1, <2>5 DEF CanStore
  <2> QED
    BY <1>4, <1>5, <2>5, <2>6
<1>9. PoolStores'
  <2>1. \A q \in Requests : held'[q] > 0 \/ kvLen'[q] > 0 => q \in poolTab'
    BY <1>1, <1>4, <1>6, <1>7 DEF PoolStores
  <2>2. CacheMode = "paged"
    BY <1>1 DEF PassStarted
  <2>3. ASSUME NEW q \in Requests, ~Removed(q)
        PROVE  /\ hpc'[q] \notin {"idle", "addkv"} => q \in kvTab'
               /\ kvLen'[q] >= InputPos(q)'
               /\ gen'[q] > 0 => held'[q] = BlocksFor(kvLen'[q])
    <3>1. /\ hpc[q] \notin {"idle", "addkv"} => q \in kvTab
          /\ kvLen[q] >= InputPos(q)
          /\ gen[q] > 0 => held[q] = BlocksFor(kvLen[q])
      BY <2>2, <2>3 DEF PoolStores
    <3> QED
      BY <1>1, <1>3, <1>6, <1>8, <2>3, <3>1 DEF seqVars, handVars
  <2> QED
    BY <1>1, <1>3, <2>1, <2>3 DEF PoolStores
<1> QED
  BY <1>2, <1>9

\* A pass that fails in the scratch arena has stored nothing or, at the logits,
\* what a pass that succeeds stores.
LEMMA ArenaErrorKV ==
  ASSUME KVInv, PagedArenaError \/ GPUArenaError
  PROVE  Progressed' /\ PassStarted' /\ PoolStores'
<1> USE DEF KVInv
<1>1. /\ pc # "dead" /\ pc' = "dead"
      /\ UNCHANGED <<batch, k, seqVars, handVars, kvTab, poolTab>>
  BY DEF PagedArenaError, GPUArenaError, PassFails, InLoop
<1>2. Progressed' /\ PassStarted'
  BY <1>1 DEF Progressed, PassStarted, seqVars
<1>3. \A q \in Requests : /\ Removed(q)' <=> Removed(q)
                          /\ InputPos(q)' = InputPos(q)
  BY <1>1 DEF Removed, InputPos, handVars, seqVars
<1>4. \A q \in Requests : held[q] \in Nat /\ kvLen[q] \in Nat /\ InputPos(q) \in Nat
  BY DEF InputPos, IndInv, TypeOK
<1>5. /\ \A q \in Requests : held'[q] > 0 \/ kvLen'[q] > 0 => q \in poolTab
      /\ \A q \in Requests : kvLen'[q] >= kvLen[q]
      /\ \A q \in Requests : held'[q] = BlocksFor(kvLen'[q])
  <2>1. CASE UNCHANGED <<kvLen, held>>
    BY <1>1, <1>4, <2>1 DEF PoolStores
  <2>2. CASE ~UNCHANGED <<kvLen, held>>
    <3>1. /\ pc \in {"prefillkv", "decodekv"}
          /\ CanStore(Current, PassEnd) /\ StoreKV(Current, PassEnd)
      BY <2>2 DEF PagedArenaError, GPUArenaError
    <3>2. PICK c \in Requests : c = Current
      BY <3>1, CurrentType DEF IndInv, PassOfBatch
    <3>3. PICK n \in Nat : n = PassEnd
      BY <3>2, PassEndType DEF IndInv
    <3>4. c \in poolTab /\ CanStore(c, n) /\ StoreKV(c, n)
      BY <3>1, <3>2, <3>3 DEF CanStore
    <3>5. held[c] = BlocksFor(kvLen[c])
      BY <1>1 DEF PoolStores
    <3>6. /\ held'[c] = BlocksFor(kvLen'[c])
          /\ kvLen'[c] = IF n > kvLen[c] THEN n ELSE kvLen[c]
          /\ \A q \in Requests : q # c => held'[q] = held[q] /\ kvLen'[q] = kvLen[q]
      BY <3>4, <3>5, StoreKVExact DEF IndInv
    <3> QED
      BY <1>1, <1>4, <3>4, <3>6 DEF PoolStores
  <2> QED
    BY <2>1, <2>2
<1>6. \A q \in Requests : kvLen'[q] \in Nat
  BY NextInd, <1>1 DEF Next, Loop, IndInv, TypeOK
<1>7. ASSUME NEW q \in Requests, CacheMode = "paged", ~Removed(q)
      PROVE  /\ hpc'[q] \notin {"idle", "addkv"} => q \in kvTab'
             /\ kvLen'[q] >= InputPos(q)'
  <2>1. /\ hpc[q] \notin {"idle", "addkv"} => q \in kvTab
        /\ kvLen[q] >= InputPos(q)
    BY <1>7 DEF PoolStores
  <2> QED
    BY <1>1, <1>3, <1>4, <1>5, <1>6, <2>1 DEF seqVars, handVars
<1> QED
  BY <1>1, <1>2, <1>3, <1>5, <1>7 DEF PoolStores

\* Every step preserves the invariant of the KV storage.
LEMMA NextKV == KVInv /\ [Next]_vars => KVInv'
<1> SUFFICES ASSUME KVInv, [Next]_vars PROVE KVInv'
  OBVIOUS
<1>1. IndInv'
  BY NextInd DEF KVInv
<1>2. ASSUME NEW r \in Requests, Submit(r) \/ GiveUp(r) \/ Handler(r)
      PROVE  KVInv'
  BY <1>1, <1>2, HandlerKV, HandlerRegistered DEF KVInv
<1>3. CASE Loop
  <2>1. RegisteredOnce'
    <3>1. CASE Cleanup
      <4>1. /\ \A i \in SeqIDs : sequences'[i] # None => sequences'[i] = sequences[i]
            /\ UNCHANGED <<id, hpc, victim>>
        BY <3>1 DEF Cleanup, handVars
      <4> QED
        BY <4>1 DEF KVInv, RegisteredOnce, Removed
    <3>2. CASE ~Cleanup
      <4>1. UNCHANGED <<sequences, handVars>>
        BY <1>3, <3>2
        DEF Loop, Collect, RunReturns, LoopSkip, LoopEnd, RunGPUPrefill,
            DecodeWithGPUKV, BeginPaged, PrefillWithPagedKV, DecodeWithPagedKV,
            LayerError, PagedArenaError, GPUArenaError, PassFails, SampleBatch,
            Yield, WaiterWait, Unpark
      <4> QED
        BY <4>1, RegisteredSame DEF KVInv
    <3> QED
      BY <3>1, <3>2
  <2>2. Progressed' /\ PassStarted' /\ PoolStores'
    BY <1>3, BookkeepingKV, GPUPassKV, BeginPagedKV, PrefillKV, DecodeKV,
       LayerErrorKV, ArenaErrorKV, SampleBatchKV
    DEF Loop
  <2> QED
    BY <1>1, <2>1, <2>2 DEF KVInv
<1>4. CASE CancelContext \/ UNCHANGED vars
  <2>1. UNCHANGED <<sequences, pc, batch, k, seqVars, handVars, kvVars>>
    BY <1>4 DEF CancelContext, vars, runVars
  <2>2. \A r \in Requests : Ahead(r)' <=> Ahead(r)
    BY <2>1, AheadSame DEF seqVars
  <2>3. Progressed' /\ PoolStores'
    BY <2>1, <2>2, ControlKV
  <2>4. PassStarted'
    BY <2>1 DEF KVInv, PassStarted, Current, NeedsPrefill, NeedsDecode, Removed,
                seqVars, handVars, kvVars
  <2>5. RegisteredOnce'
    BY <2>1, RegisteredSame DEF KVInv
  <2> QED
    BY <1>1, <2>3, <2>4, <2>5 DEF KVInv
<1> QED
  BY <1>2, <1>3, <1>4 DEF Next
-----------------------------------------------------------------------------
(* The theorems.                                                           *)

\* In every reachable state the storage of every sequence matches its progress.
THEOREM KVInvariance == Spec => []KVInv
  BY InitKV, NextKV, PTL DEF Spec

\* A paged decode of a registered sequence attends to its whole context and to
\* nothing else, whatever handlers, ID collisions and removals interleave with
\* the pass.
THEOREM CompleteContext == Spec => []ContextComplete
<1>1. KVInv => ContextComplete
  <2> SUFFICES ASSUME KVInv, pc = "decodekv", Registered(Current)
               PROVE  kvLen[Current] = InputPos(Current)
    BY DEF ContextComplete
  <2>1. k <= Len(batch) /\ Current \in Requests
    BY CurrentType DEF KVInv, IndInv, PassOfBatch
  <2>2. CacheMode = "paged"
    BY DEF KVInv, PassStarted
  <2>3. ~Removed(Current)
    <3>1. Current # None
      BY <2>1, RequestsAssumption
    <3> QED
      BY <3>1 DEF Registered, KVInv, RegisteredOnce
  <2>4. ~Ahead(Current)
    <3>1. \A j \in DOMAIN batch : batch[j] = Current => ~(j < k)
      BY <2>1, CurrentOnce DEF KVInv
    <3> QED
      BY <3>1 DEF Ahead
  <2> QED
    BY <2>1, <2>2, <2>3, <2>4, ContextOf DEF KVInv
<1> QED
  BY <1>1, KVInvariance, PTL

\* A sequence that is still registered has its KV table and, once it has
\* generated, exactly the pool blocks its stored tokens need, even after a
\* pass has failed.
THEOREM StorageKept == Spec => []RegisteredKeepsKV
<1>1. KVInv => RegisteredKeepsKV
  <2> SUFFICES ASSUME KVInv, NEW r \in Requests, CacheMode = "paged", Registered(r)
               PROVE  /\ r \in kvTab
                      /\ gen[r] > 0 => r \in poolTab /\ held[r] = BlocksFor(kvLen[r])
    BY DEF RegisteredKeepsKV
  <2>1. ~Removed(r) /\ hpc[r] \notin {"idle", "addkv"}
    BY RequestsAssumption DEF Registered, KVInv, RegisteredOnce
  <2>2. r \in kvTab /\ kvLen[r] >= InputPos(r)
        /\ (gen[r] > 0 => held[r] = BlocksFor(kvLen[r]))
    BY <2>1 DEF KVInv, PoolStores
  <2>3. gen[r] > 0 => InputPos(r) > 0
    BY DEF KVInv, Progressed, InputPos, IndInv, TypeOK
  <2>4. gen[r] > 0 => kvLen[r] > 0
    BY <2>2, <2>3 DEF KVInv, IndInv, TypeOK, InputPos
  <2> QED
    BY <2>2, <2>4 DEF KVInv, PoolStores
<1> QED
  BY <1>1, KVInvariance, PTL

\* Run returns an error from a forward pass, and from nowhere else.
LEMMA OnlyPassFails ==
  ASSUME KVInv, [Next]_vars, pc # "dead", pc' = "dead"
  PROVE  LayerError \/ PagedArenaError \/ GPUArenaError
<1>1. ASSUME NEW r \in Requests, Submit(r) \/ GiveUp(r) \/ Handler(r)
      PROVE  FALSE
  BY <1>1
  DEF Submit, GiveUp, Handler, AddSequenceKV, AddSequenceInsert, WakeUp, Receive,
      EndOfStream, RemoveSequence, RemoveSequenceKV, runVars
<1>2. ~(CancelContext \/ UNCHANGED vars)
  BY DEF CancelContext, vars, runVars
<1>3. ~(RunGPUPrefill \/ DecodeWithGPUKV \/ PrefillWithPagedKV \/ SampleBatch)
  BY DEF RunGPUPrefill, DecodeWithGPUKV, PrefillWithPagedKV, SampleBatch,
         SamplePrefill, SampleDecode, Emit
<1>4. ~(Collect \/ RunReturns \/ Cleanup \/ LoopSkip \/ LoopEnd \/ BeginPaged
        \/ DecodeWithPagedKV \/ Yield \/ WaiterWait \/ Unpark)
  BY DEF Collect, RunReturns, Cleanup, LoopSkip, LoopEnd, BeginPaged,
         DecodeWithPagedKV, Yield, WaiterWait, Unpark
<1> QED
  BY <1>1, <1>2, <1>3, <1>4 DEF Next, Loop

\* The scheduler dies of an error only with the pool exhausted, in a pass that
\* asks for more than the scratch arena, or because a handler removed the
\* sequence it was running.
THEOREM WhyRunDies == Spec => FatalCause
<1> DEFINE Cause == \/ freeBlocks' = 0
                    \/ ~LogitsFit
                    \/ Current \notin poolTab /\ \E q \in Requests : victim[q] = Current
<1>1. ASSUME KVInv, [Next]_vars, pc # "dead", pc' = "dead"
      PROVE  Cause
  <2>1. LayerError \/ PagedArenaError \/ GPUArenaError
    BY <1>1, OnlyPassFails
  <2>2. CASE LayerError
    <3>1. Current \notin poolTab => Removed(Current)
      BY <1>1, <2>2 DEF LayerError, KVInv, PassStarted
    <3>2. Current \in poolTab => freeBlocks' = 0
      BY <2>2 DEF LayerError, FailStoreKV
    <3> QED
      BY <3>1, <3>2 DEF Removed
  <2>3. CASE PagedArenaError \/ GPUArenaError
    BY <2>3 DEF PagedArenaError, GPUArenaError
  <2> QED
    BY <2>1, <2>2, <2>3
<1>2. KVInv /\ [Next]_vars => [pc # "dead" /\ pc' = "dead" => Cause]_vars
  BY <1>1
<1> QED
  BY <1>2, KVInvariance, PTL DEF Spec, FatalCause
-----------------------------------------------------------------------------
(* Blocks are neither lost nor duplicated.                                 *)

\* The blocks in one table.
TableBlocks(h, r) == {r} \X (1..h[r])

\* There are as many as the pool has counted.
LEMMA TableCount ==
  ASSUME NEW h \in [Requests -> Nat], NEW r \in Requests
  PROVE  IsFiniteSet(TableBlocks(h, r)) /\ Cardinality(TableBlocks(h, r)) = h[r]
<1>1. h[r] \in Nat
  OBVIOUS
<1>2. IsFiniteSet(1..h[r]) /\ Cardinality(1..h[r]) = h[r]
  BY <1>1, FS_Interval
<1>3. IsFiniteSet({r}) /\ Cardinality({r}) = 1
  BY FS_Singleton
<1>4. /\ IsFiniteSet({r} \X (1..h[r]))
      /\ Cardinality({r} \X (1..h[r])) = Cardinality({r}) * Cardinality(1..h[r])
  BY <1>2, <1>3, FS_Product
<1> QED
  BY <1>1, <1>2, <1>3, <1>4 DEF TableBlocks

\* How the count of all held blocks moves when one table changes.
LEMMA HeldUpdate ==
  ASSUME IsFiniteSet(HeldBlocks), held \in [Requests -> Nat],
         NEW r \in Requests, NEW n \in Nat, held' = [held EXCEPT ![r] = n]
  PROVE  /\ IsFiniteSet(HeldBlocks')
         /\ Cardinality(HeldBlocks) \in Nat
         /\ Cardinality(HeldBlocks') = Cardinality(HeldBlocks) - held[r] + n
<1> DEFINE Rest == UNION {TableBlocks(held, q) : q \in Requests \ {r}}
<1>0. held' \in [Requests -> Nat] /\ held'[r] = n /\ held[r] \in Nat
  OBVIOUS
<1>1. HeldBlocks = Rest \cup TableBlocks(held, r)
  BY DEF HeldBlocks, TableBlocks
<1>2. HeldBlocks' = Rest \cup TableBlocks(held', r)
  <2>1. \A q \in Requests \ {r} : held'[q] = held[q]
    OBVIOUS
  <2> QED
    BY <2>1 DEF HeldBlocks, TableBlocks
<1>3. /\ Rest \cap TableBlocks(held, r) = {}
      /\ Rest \cap TableBlocks(held', r) = {}
  BY DEF TableBlocks
<1> HIDE DEF Rest
<1>4. IsFiniteSet(Rest) /\ Cardinality(Rest) \in Nat /\ Cardinality({}) = 0
  BY <1>1, FS_Subset, FS_CardinalityType, FS_EmptySet
<1>5. /\ IsFiniteSet(TableBlocks(held, r)) /\ Cardinality(TableBlocks(held, r)) = held[r]
      /\ IsFiniteSet(TableBlocks(held', r)) /\ Cardinality(TableBlocks(held', r)) = n
  BY <1>0, TableCount
<1>6. Cardinality(HeldBlocks) = Cardinality(Rest) + held[r]
  <2>1. Cardinality(Rest \cup TableBlocks(held, r)) =
          Cardinality(Rest) + Cardinality(TableBlocks(held, r))
            - Cardinality(Rest \cap TableBlocks(held, r))
    BY <1>4, <1>5, FS_Union
  <2>2. Cardinality(Rest \cap TableBlocks(held, r)) = 0
    BY <1>3, <1>4, Zenon
  <2>3. Cardinality(HeldBlocks) = Cardinality(Rest \cup TableBlocks(held, r))
    BY <1>1, Zenon
  <2> QED
    BY <1>0, <1>4, <1>5, <2>1, <2>2, <2>3
<1>7. IsFiniteSet(HeldBlocks') /\ Cardinality(HeldBlocks') = Cardinality(Rest) + n
  <2>1. /\ IsFiniteSet(Rest \cup TableBlocks(held', r))
        /\ Cardinality(Rest \cup TableBlocks(held', r)) =
             Cardinality(Rest) + Cardinality(TableBlocks(held', r))
               - Cardinality(Rest \cap TableBlocks(held', r))
    BY <1>4, <1>5, FS_Union
  <2>2. Cardinality(Rest \cap TableBlocks(held', r)) = 0
    BY <1>3, <1>4, Zenon
  <2>3. /\ Cardinality(HeldBlocks') = Cardinality(Rest \cup TableBlocks(held', r))
        /\ IsFiniteSet(HeldBlocks')
    BY <1>2, <2>1, Zenon
  <2> QED
    BY <1>0, <1>4, <1>5, <2>1, <2>2, <2>3
<1> QED
  BY <1>0, <1>4, <1>6, <1>7

\* Every block is in the free list or in one table, through failed passes and
\* removals too.
THEOREM BlockConservation == Spec => []BlocksConserved
<1> DEFINE Conserved == /\ IsFiniteSet(HeldBlocks)
                        /\ freeBlocks + Cardinality(HeldBlocks) = MaxBlocks
<1>1. Init => Conserved
  <2> SUFFICES ASSUME Init PROVE Conserved
    OBVIOUS
  <2>1. HeldBlocks = {}
    BY DEF Init, HeldBlocks
  <2> QED
    BY <2>1, FS_EmptySet, ConfigAssumption DEF Init
<1>2. ASSUME KVInv, Conserved, [Next]_vars PROVE Conserved'
  <2>0. /\ held \in [Requests -> Nat] /\ freeBlocks \in Nat
        /\ Cardinality(HeldBlocks) \in Nat
    BY <1>2, FS_CardinalityType DEF KVInv, IndInv, TypeOK
  <2>1. ASSUME NEW r \in Requests, NEW n \in Nat, held' = [held EXCEPT ![r] = n],
               freeBlocks' = freeBlocks + held[r] - n
        PROVE  Conserved'
    <3>1. /\ IsFiniteSet(HeldBlocks')
          /\ Cardinality(HeldBlocks') = Cardinality(HeldBlocks) - held[r] + n
      BY <1>2, <2>0, <2>1, HeldUpdate
    <3>2. held[r] \in Nat
      BY <2>0
    <3>3. freeBlocks' + Cardinality(HeldBlocks') = MaxBlocks
      BY <1>2, <2>0, <2>1, <3>1, <3>2
    <3> QED
      BY <3>1, <3>3
  <2>2. ASSUME UNCHANGED <<held, freeBlocks>>
        PROVE  Conserved'
    BY <1>2, <2>2 DEF HeldBlocks
  <2>3. ASSUME NEW r \in Requests, RemoveSequenceKV(r)
        PROVE  Conserved'
    <3>1. PICK v \in Requests : v = victim[r]
      BY <1>2, <2>3 DEF RemoveSequenceKV, KVInv, IndInv, HandlersKnown
    <3>2. held' = [held EXCEPT ![v] = 0] /\ freeBlocks' = freeBlocks + held[v] - 0
      BY <2>0, <2>3, <3>1 DEF RemoveSequenceKV, PoolDelete
    <3> QED
      BY <2>1, <3>2
  <2>4. ASSUME NEW c \in Requests, NEW n \in Nat, StoreKV(c, n)
        PROVE  Conserved'
    <3>1. held[c] \in Nat /\ BlocksFor(n) \in Nat
      BY <2>0, BlocksForType
    <3>2. PICK need \in Nat :
            /\ held' = [held EXCEPT ![c] = @ + need]
            /\ freeBlocks' = freeBlocks - need
      <4> DEFINE d == IF BlocksFor(n) > held[c] THEN BlocksFor(n) - held[c] ELSE 0
      <4>1. d \in Nat
        BY <3>1
      <4>2. held' = [held EXCEPT ![c] = @ + d] /\ freeBlocks' = freeBlocks - d
        BY <2>4 DEF StoreKV
      <4> HIDE DEF d
      <4> QED
        BY <4>1, <4>2
    <3>3. PICK m \in Nat : m = held[c] + need
      BY <3>1
    <3>4. held' = [held EXCEPT ![c] = m] /\ freeBlocks' = freeBlocks + held[c] - m
      BY <2>0, <3>1, <3>2, <3>3
    <3> QED
      BY <2>1, <3>4
  <2>5. ASSUME NEW c \in Requests, FailStoreKV(c)
        PROVE  Conserved'
    <3>1. PICK m \in Nat : m = IF c \in poolTab THEN held[c] + freeBlocks ELSE held[c]
      BY <2>0
    <3>2. held' = [held EXCEPT ![c] = m] /\ freeBlocks' = freeBlocks + held[c] - m
      BY <2>0, <2>5, <3>1 DEF FailStoreKV
    <3> QED
      BY <2>1, <3>2
  <2>6. CASE PrefillWithPagedKV \/ DecodeWithPagedKV \/ LayerError \/ PagedArenaError
    <3>1. Current \in Requests
      BY <1>2, <2>6, CurrentType
      DEF PrefillWithPagedKV, DecodeWithPagedKV, LayerError, PagedArenaError,
          KVInv, IndInv, PassOfBatch
    <3>2. InputPos(Current) + 1 \in Nat /\ PromptLen[Current] \in Nat
      <4>1. PromptLen \in [Requests -> Nat]
        BY ConfigAssumption
      <4>2. pos \in [Requests -> Nat]
        BY <1>2 DEF KVInv, IndInv, TypeOK
      <4> QED
        BY <3>1, <4>1, <4>2 DEF InputPos
    <3>3. PassEnd \in Nat
      BY <1>2, <3>1, PassEndType DEF KVInv, IndInv
    <3>4. CASE PagedArenaError
      <4>1. StoreKV(Current, PassEnd) \/ UNCHANGED <<held, freeBlocks>>
        BY <3>4 DEF PagedArenaError
      <4> QED
        BY <2>2, <2>4, <3>1, <3>3, <4>1
    <3> QED
      BY <2>4, <2>5, <2>6, <3>1, <3>2, <3>4
      DEF PrefillWithPagedKV, DecodeWithPagedKV, LayerError
  <2>7. ASSUME NEW r \in Requests, Submit(r) \/ GiveUp(r) \/ Handler(r),
               ~RemoveSequenceKV(r)
        PROVE  UNCHANGED <<held, freeBlocks>>
    BY <2>7 DEF Submit, GiveUp, Handler, AddSequenceKV, AddSequenceInsert, WakeUp,
                Receive, EndOfStream, RemoveSequence, kvVars
  <2>8. ASSUME Loop, ~(PrefillWithPagedKV \/ DecodeWithPagedKV \/ LayerError
                         \/ PagedArenaError)
        PROVE  UNCHANGED <<held, freeBlocks>>
    BY <2>8 DEF Loop, Collect, RunReturns, Cleanup, LoopSkip, LoopEnd, RunGPUPrefill,
                DecodeWithGPUKV, BeginPaged, GPUArenaError, SampleBatch, Yield, WaiterWait, Unpark,
                kvVars, poolVars
  <2>9. ASSUME CancelContext \/ UNCHANGED vars
        PROVE  UNCHANGED <<held, freeBlocks>>
    BY <2>9 DEF CancelContext, vars, kvVars
  <2> HIDE DEF Conserved
  <2> QED
    BY <1>2, <2>2, <2>3, <2>6, <2>7, <2>8, <2>9 DEF Next
<1>3. KVInv /\ Conserved => BlocksConserved
  BY DEF KVInv, PoolStores, BlocksConserved
<1>4. KVInv /\ Conserved /\ [Next]_vars => Conserved'
  BY <1>2
<1> QED
  BY <1>1, <1>3, <1>4, KVInvariance, PTL DEF Spec

-----------------------------------------------------------------------------
(* What a client receives: every token as long as the channel can hold     *)
(* them, and never more than its limit allows.                             *)

\* A token is sampled for an open sequence: its first one, or one whose meaning
\* a decode step decides.
Samples(r, reason) ==
  /\ ~closed[r] /\ UNCHANGED recv
  /\ gen[r] = 0 \/ reason \in DecodeReasons(r)
  /\ \E after : Emit(r, reason, after)

\* As far as the streams are concerned, a step samples a token, hands one to
\* a client, or does nothing.
LEMMA StreamSteps ==
  ASSUME KVInv, [Next]_vars
  PROVE  \/ UNCHANGED <<gen, chan, closed, recv>>
         \/ \E r \in Requests : Receive(r)
         \/ \E r \in Requests : \E reason : Samples(r, reason)
<1> USE DEF KVInv
<1>1. ASSUME NEW after, k <= Len(batch), UNCHANGED recv,
             \/ st[Current] = "Pending" /\ SamplePrefill(Current, after)
             \/ st[Current] # "Finished" /\ SampleDecode(Current, after)
      PROVE  \E r \in Requests : \E reason : Samples(r, reason)
  <2>1. Current \in Requests
    BY <1>1, CurrentType DEF IndInv
  <2>2. ~closed[Current]
    BY <1>1, <2>1 DEF IndInv, ClosedWhenFinished
  <2>3. CASE st[Current] = "Pending" /\ SamplePrefill(Current, after)
    <3>1. gen[Current] = 0
      BY <2>1, <2>3 DEF Progressed
    <3> QED
      BY <1>1, <2>1, <2>2, <2>3, <3>1 DEF SamplePrefill, Samples
  <2>4. CASE SampleDecode(Current, after)
    BY <1>1, <2>1, <2>2, <2>4 DEF SampleDecode, Samples
  <2> QED
    BY <1>1, <2>3, <2>4
<1>2. CASE RunGPUPrefill
  BY <1>1, <1>2 DEF RunGPUPrefill, InLoop, Selected, NeedsPrefill, handVars
<1>3. CASE DecodeWithGPUKV
  BY <1>1, <1>3 DEF DecodeWithGPUKV, InLoop, Selected, NeedsDecode, handVars
<1>4. CASE PrefillWithPagedKV
  BY <1>1, <1>4 DEF PrefillWithPagedKV, IndInv, PassOfBatch, handVars
<1>5. CASE SampleBatch
  BY <1>1, <1>5 DEF SampleBatch, InLoop, Selected, NeedsDecode, handVars
<1> QED
  BY <1>2, <1>3, <1>4, <1>5, StutterRefines

\* Receiving leaves what is delivered as it is, for every request.
LEMMA ReceiveDelivered ==
  ASSUME TypeOK, NEW r \in Requests, Receive(r)
  PROVE  /\ \A q \in Requests : Delivered(q)' = Delivered(q)
         /\ UNCHANGED <<gen, closed>>
<1>1. chan[r] \in Seq(Nat) /\ recv[r] \in Seq(Nat) /\ chan[r] # <<>>
  BY DEF TypeOK, Receive
<1>2. Delivered(r)' = Delivered(r)
  <2>1. recv'[r] = Append(recv[r], Head(chan[r])) /\ chan'[r] = Tail(chan[r])
    BY DEF Receive, TypeOK
  <2> QED
    BY <1>1, <2>1, ReceiveKeeps DEF Delivered
<1>3. \A q \in Requests : q # r => Delivered(q)' = Delivered(q)
  BY DEF Receive, Delivered, TypeOK
<1> QED
  BY <1>2, <1>3 DEF Receive

\* A sampled token that does not end the sequence is delivered last, unless
\* the channel is full; a token that ends it is not delivered.
LEMMA SampleDelivered ==
  ASSUME TypeOK, NEW r \in Requests, NEW reason, Samples(r, reason)
  PROVE  /\ gen'[r] = gen[r] + 1
         /\ closed'[r] <=> reason # "none"
         /\ Delivered(r)' = IF reason = "none" /\ Len(chan[r]) < ChanCap
                              THEN Append(Delivered(r), gen[r] + 1)
                              ELSE Delivered(r)
         /\ \A q \in Requests : q # r =>
              /\ gen'[q] = gen[q] /\ closed'[q] = closed[q]
              /\ Delivered(q)' = Delivered(q)
<1>1. PICK after : Emit(r, reason, after)
  BY DEF Samples
<1>2. recv' = recv /\ ~closed[r]
  BY DEF Samples
<1>3. /\ gen'[r] = gen[r] + 1
      /\ closed'[r] <=> reason # "none"
      /\ \A q \in Requests : q # r => gen'[q] = gen[q] /\ closed'[q] = closed[q]
  BY <1>1, <1>2 DEF Emit, TypeOK
<1>4. /\ chan'[r] = IF reason = "none" /\ Len(chan[r]) < ChanCap
                      THEN Append(chan[r], gen[r] + 1) ELSE chan[r]
      /\ \A q \in Requests : q # r => chan'[q] = chan[q]
  BY <1>1 DEF Emit, PushToken, TypeOK
<1>5. recv[r] \o Append(chan[r], gen[r] + 1) = Append(recv[r] \o chan[r], gen[r] + 1)
  <2>1. recv[r] \in Seq(Nat) /\ chan[r] \in Seq(Nat) /\ gen[r] + 1 \in Nat
    BY DEF TypeOK
  <2> QED
    BY <2>1, PushExtends
<1>6. /\ \A q \in Requests : q # r => Delivered(q)' = Delivered(q)
      /\ Delivered(r)' = IF reason = "none" /\ Len(chan[r]) < ChanCap
                           THEN Append(Delivered(r), gen[r] + 1) ELSE Delivered(r)
  BY <1>2, <1>4, <1>5 DEF Delivered
<1> QED
  BY <1>3, <1>6

\* What is delivered is a sequence, as long as its two parts together.
LEMMA DeliveredLen ==
  ASSUME TypeOK, NEW r \in Requests
  PROVE  /\ Delivered(r) \in Seq(Nat) /\ Len(Delivered(r)) \in Nat
         /\ Len(chan[r]) \in Nat /\ Len(chan[r]) <= Len(Delivered(r))
<1>1. recv[r] \in Seq(Nat) /\ chan[r] \in Seq(Nat)
  BY DEF TypeOK
<1>2. Delivered(r) \in Seq(Nat) /\ Len(Delivered(r)) = Len(recv[r]) + Len(chan[r])
  BY <1>1, ConcatProperties DEF Delivered
<1>3. Len(recv[r]) \in Nat /\ Len(chan[r]) \in Nat
  BY <1>1, LenProperties
<1>4. PICK a \in Nat, b \in Nat : a = Len(recv[r]) /\ b = Len(chan[r])
  BY <1>3
<1>5. a + b \in Nat /\ b <= a + b
  OBVIOUS
<1>6. Len(Delivered(r)) = a + b
  BY <1>2, <1>4
<1> QED
  BY <1>2, <1>4, <1>5, <1>6, Zenon
-----------------------------------------------------------------------------
(* The token budget.                                                       *)

\* The budget of one request, with what an open sequence may still spend.
WithinBudget(r) ==
  IF closed[r]
    THEN Len(Delivered(r)) < gen[r] /\ (gen[r] <= SeqLimit(r) \/ gen[r] = 2)
    ELSE Len(Delivered(r)) <= gen[r] /\ (gen[r] < SeqLimit(r) \/ gen[r] <= 1)

\* A client gets fewer tokens than its limit, or the one token that prefill
\* does not test against it, and the sequence makes at most one past it.
THEOREM Budget == Spec => []TokenBudget
<1> DEFINE Inv == \A r \in Requests : SeqLimit(r) > 0 => WithinBudget(r)
<1>0. \A r \in Requests : SeqLimit(r) \in Nat
  BY ConfigAssumption DEF SeqLimit
<1>1. Init => Inv
  <2> SUFFICES ASSUME Init, NEW r \in Requests PROVE WithinBudget(r)
    OBVIOUS
  <2>1. Delivered(r) = <<>> /\ gen[r] = 0 /\ closed[r] = FALSE
    BY DEF Init, Delivered
  <2> QED
    BY <2>1 DEF WithinBudget
<1>2. ASSUME KVInv, Inv, [Next]_vars PROVE Inv'
  <2>0. TypeOK
    BY <1>2 DEF KVInv, IndInv
  <2>1. CASE UNCHANGED <<gen, chan, closed, recv>>
    BY <1>2, <2>1 DEF WithinBudget, Delivered
  <2>2. ASSUME NEW r \in Requests, Receive(r) PROVE Inv'
    BY <1>2, <2>0, <2>2, ReceiveDelivered DEF WithinBudget
  <2>3. ASSUME NEW r \in Requests, NEW reason, Samples(r, reason) PROVE Inv'
    <3> DEFINE L == SeqLimit(r)
               d == Len(Delivered(r))
    <3>1. /\ gen'[r] = gen[r] + 1
          /\ closed'[r] <=> reason # "none"
          /\ Delivered(r)' = IF reason = "none" /\ Len(chan[r]) < ChanCap
                               THEN Append(Delivered(r), gen[r] + 1)
                               ELSE Delivered(r)
          /\ \A q \in Requests : q # r =>
               /\ gen'[q] = gen[q] /\ closed'[q] = closed[q]
               /\ Delivered(q)' = Delivered(q)
      BY <2>0, <2>3, SampleDelivered
    <3>2. d \in Nat /\ L \in Nat /\ gen[r] \in Nat /\ Delivered(r) \in Seq(Nat)
      BY <1>0, <2>0, DeliveredLen DEF TypeOK
    <3>3. Len(Append(Delivered(r), gen[r] + 1)) = d + 1
      BY <3>2, AppendProperties
    <3>4. /\ reason # "none" => Len(Delivered(r)') = d
          /\ Len(Delivered(r)') <= d + 1
      BY <3>1, <3>2, <3>3
    <3>5. ASSUME L > 0 PROVE WithinBudget(r)'
      <4>1. d <= gen[r] /\ (gen[r] < L \/ gen[r] <= 1)
        BY <1>2, <2>3, <3>5 DEF Samples, WithinBudget
      <4>2. reason = "none" => gen[r] = 0 \/ gen[r] + 1 < L
        BY <2>3, <3>2, <3>5 DEF Samples, DecodeReasons, ReachedMaxTokens
      <4>3. CASE reason = "none"
        BY <3>1, <3>2, <3>4, <4>1, <4>2, <4>3 DEF WithinBudget
      <4>4. CASE reason # "none"
        BY <3>1, <3>2, <3>4, <3>5, <4>1, <4>4 DEF WithinBudget
      <4> QED
        BY <4>3, <4>4
    <3>6. \A q \in Requests : q # r /\ SeqLimit(q) > 0 => WithinBudget(q)'
      BY <1>2, <3>1 DEF WithinBudget
    <3> QED
      BY <3>5, <3>6
  <2> QED
    BY <1>2, <2>1, <2>2, <2>3, StreamSteps
<1>3. KVInv /\ Inv => TokenBudget
  <2> SUFFICES ASSUME KVInv, Inv, NEW r \in Requests, SeqLimit(r) > 0
               PROVE  /\ gen[r] <= SeqLimit(r) \/ gen[r] = 2
                      /\ Len(Delivered(r)) < SeqLimit(r) \/ Len(Delivered(r)) = 1
    BY DEF TokenBudget
  <2>1. SeqLimit(r) \in Nat /\ gen[r] \in Nat /\ Len(Delivered(r)) \in Nat
    BY <1>0, DeliveredLen DEF KVInv, IndInv, TypeOK
  <2>2. PICK d \in Nat : d = Len(Delivered(r))
    BY <2>1
  <2>3. IF closed[r] THEN d < gen[r] /\ (gen[r] <= SeqLimit(r) \/ gen[r] = 2)
                     ELSE d <= gen[r] /\ (gen[r] < SeqLimit(r) \/ gen[r] <= 1)
    BY <2>2 DEF WithinBudget
  <2>4. (gen[r] <= SeqLimit(r) \/ gen[r] = 2) /\ (d < SeqLimit(r) \/ d = 1)
    BY <2>1, <2>3
  <2> QED
    BY <2>2, <2>4
<1>4. KVInv /\ Inv /\ [Next]_vars => Inv'
  BY <1>2
<1> QED
  BY <1>1, <1>3, <1>4, KVInvariance, PTL DEF Spec
-----------------------------------------------------------------------------
(* Faithful streams.                                                       *)

\* The first n token numbers.
FirstTokens(n) == [i \in 1..n |-> i]

\* The next token number goes behind the first n.
LEMMA FirstTokensAppend ==
  ASSUME NEW n \in Nat
  PROVE  /\ FirstTokens(n) \in Seq(Nat) /\ Len(FirstTokens(n)) = n
         /\ Append(FirstTokens(n), n + 1) = FirstTokens(n + 1)
<1>1. FirstTokens(n) \in Seq(Nat) /\ Len(FirstTokens(n)) = n
  BY DEF FirstTokens
<1>2. Append(FirstTokens(n), n + 1) = FirstTokens(n + 1)
  BY <1>1 DEF FirstTokens
<1> QED
  BY <1>1, <1>2

\* As long as the channel could hold all its tokens, a client gets every token
\* but the final one, once and in order, however slowly it reads.
THEOREM FaithfulStream == Spec => []StreamFaithful
<1> DEFINE Made(r) == IF closed[r] THEN gen[r] - 1 ELSE gen[r]
           Inv == \A r \in Requests :
                    /\ closed[r] => gen[r] > 0
                    /\ gen[r] <= ChanCap => Delivered(r) = FirstTokens(Made(r))
<1>1. Init => Inv
  <2> SUFFICES ASSUME Init, NEW r \in Requests
               PROVE  ~closed[r] /\ Delivered(r) = FirstTokens(gen[r])
    OBVIOUS
  <2>1. Delivered(r) = <<>> /\ gen[r] = 0 /\ closed[r] = FALSE
    BY DEF Init, Delivered
  <2> QED
    BY <2>1 DEF FirstTokens
<1>2. ASSUME KVInv, Inv, [Next]_vars PROVE Inv'
  <2>0. TypeOK
    BY <1>2 DEF KVInv, IndInv
  <2>1. CASE UNCHANGED <<gen, chan, closed, recv>>
    BY <1>2, <2>1 DEF Delivered
  <2>2. ASSUME NEW r \in Requests, Receive(r) PROVE Inv'
    BY <1>2, <2>0, <2>2, ReceiveDelivered
  <2>3. ASSUME NEW r \in Requests, NEW reason, Samples(r, reason) PROVE Inv'
    <3>1. /\ gen'[r] = gen[r] + 1
          /\ closed'[r] <=> reason # "none"
          /\ Delivered(r)' = IF reason = "none" /\ Len(chan[r]) < ChanCap
                               THEN Append(Delivered(r), gen[r] + 1)
                               ELSE Delivered(r)
          /\ \A q \in Requests : q # r =>
               /\ gen'[q] = gen[q] /\ closed'[q] = closed[q]
               /\ Delivered(q)' = Delivered(q)
      BY <2>0, <2>3, SampleDelivered
    <3>2. gen[r] \in Nat /\ ChanCap \in Nat /\ ~closed[r]
      BY <2>0, <2>3, ConfigAssumption DEF TypeOK, Samples
    <3>3. ASSUME gen'[r] <= ChanCap
          PROVE  Delivered(r)' = FirstTokens(IF closed'[r] THEN gen'[r] - 1 ELSE gen'[r])
      <4>1. gen[r] < ChanCap /\ Delivered(r) = FirstTokens(gen[r])
        BY <1>2, <3>1, <3>2, <3>3
      <4>2. Len(chan[r]) < ChanCap
        <5>1. Len(Delivered(r)) = gen[r]
          BY <3>2, <4>1, FirstTokensAppend
        <5>2. Len(chan[r]) \in Nat /\ Len(chan[r]) <= gen[r]
          BY <2>0, <5>1, DeliveredLen
        <5> QED
          BY <3>2, <4>1, <5>2
      <4>3. Append(Delivered(r), gen[r] + 1) = FirstTokens(gen[r] + 1)
        BY <3>2, <4>1, FirstTokensAppend
      <4>4. CASE reason = "none"
        BY <3>1, <4>2, <4>3, <4>4
      <4>5. CASE reason # "none"
        <5>1. gen'[r] - 1 = gen[r]
          BY <3>1, <3>2
        <5> QED
          BY <3>1, <4>1, <4>5, <5>1
      <4> QED
        BY <4>4, <4>5
    <3>4. \A q \in Requests : q # r =>
            /\ closed'[q] => gen'[q] > 0
            /\ gen'[q] <= ChanCap =>
                 Delivered(q)' = FirstTokens(IF closed'[q] THEN gen'[q] - 1 ELSE gen'[q])
      BY <1>2, <3>1
    <3>5. gen'[r] > 0
      BY <3>1, <3>2
    <3> QED
      BY <3>3, <3>4, <3>5
  <2> HIDE DEF Inv
  <2> QED
    BY <1>2, <2>1, <2>2, <2>3, StreamSteps
<1>3. Inv => StreamFaithful
  BY DEF StreamFaithful, FirstTokens
<1>4. KVInv /\ Inv /\ [Next]_vars => Inv'
  BY <1>2
<1> QED
  BY <1>1, <1>3, <1>4, KVInvariance, PTL DEF Spec
-----------------------------------------------------------------------------
(* When Run survives.                                                      *)

\* The most tokens a request with a limit ever stores: its prompt, or BOS for
\* an empty one, and every token fed back to the model.  The token prefill
\* samples is fed back whatever the limit.
TokensStored(r) ==
  IF PromptLen[r] = 0
    THEN SeqLimit(r)
    ELSE PromptLen[r] + (IF SeqLimit(r) > 1 THEN SeqLimit(r) - 1 ELSE 1)

\* The blocks that takes, for all requests ever served.
RequiredBlocks ==
  UNION {{r} \X (1..BlocksFor(TokensStored(r))) : r \in Requests}

\* The scratch arena holds every pass the requests ask for.
ArenaHolds ==
  \A r \in Requests :
    /\ PromptLen[r] > 0 => Fits(TRUE, PromptLen[r], PromptLen[r])
    /\ \A end \in 1..TokensStored(r) : Fits(FALSE, 1, end)

\* What the paged storage asks of its workload: no client leaves early, no two
\* handlers share a clock, every request has a limit, the arena holds their
\* passes, and the pool has blocks for all requests together.  Blocks for the
\* requests in flight would not do: a sequence that the clean-up of an idle step
\* takes out of the map before its handler does keeps its blocks for ever.
Provisioned ==
  /\ \A r \in Requests : r \in Cancellable => Kind[r] = "stream"
  /\ \A q, r \in Requests : Kind[q] = "grpc" /\ Kind[r] = "grpc" => q = r
  /\ \A r \in Requests : SeqLimit(r) > 0
  /\ ArenaHolds
  /\ Cardinality(RequiredBlocks) <= MaxBlocks

\* A handler uses the ID it drew, removes no sequence but its own, and only
\* once the channel is closed.
OwnID(r) ==
  /\ id[r] \in NextSeqID(r) \cup {None}
  /\ hpc[r] \in {"remove", "free", "done"} => closed[r]
  /\ victim[r] \in {r, None}

\* The position follows the number of generated tokens, and a sequence that is
\* not finished is below its limit, or has the one token of prefill.
Spent(r) ==
  /\ st[r] = "Pending" => (promptDone[r] <=> PromptLen[r] = 0)
  /\ gen[r] > 0 =>
       pos[r] = gen[r] - 1 + (IF PromptLen[r] = 0 THEN 1 ELSE PromptLen[r])
  /\ st[r] # "Finished" =>
       gen[r] < SeqLimit(r) \/ (gen[r] = 1 /\ PromptLen[r] > 0)

\* The strengthening of RunSurvives.
SurvivalInv ==
  /\ pc # "dead"
  /\ \A r \in Requests : OwnID(r) /\ Spent(r) /\ kvLen[r] <= TokensStored(r)

\* The bounds on a sequence are numbers.
LEMMA StoredType ==
  ASSUME NEW r \in Requests, SeqLimit(r) > 0
  PROVE  SeqLimit(r) \in Nat /\ PromptLen[r] \in Nat /\ TokensStored(r) \in Nat
<1>1. SeqLimit(r) \in Nat /\ PromptLen[r] \in Nat
  BY ConfigAssumption DEF SeqLimit
<1> QED
  BY <1>1 DEF TokensStored

\* The initial state satisfies the invariant.
LEMMA InitSurvival ==
  ASSUME Provisioned, Init
  PROVE  SurvivalInv
<1>1. pc # "dead"
  BY DEF Init
<1>2. ASSUME NEW r \in Requests
      PROVE  OwnID(r) /\ Spent(r) /\ kvLen[r] <= TokensStored(r)
  <2>1. SeqLimit(r) \in Nat /\ SeqLimit(r) > 0 /\ TokensStored(r) \in Nat
    BY StoredType DEF Provisioned
  <2>2. OwnID(r)
    BY DEF Init, OwnID
  <2>3. Spent(r)
    <3>1. promptDone[r] <=> PromptLen[r] = 0
      BY Zenon DEF Init
    <3>2. gen[r] = 0 /\ gen[r] < SeqLimit(r)
      BY <2>1 DEF Init
    <3> QED
      BY <3>1, <3>2 DEF Spent
  <2>4. kvLen[r] <= TokensStored(r)
    BY <2>1 DEF Init
  <2> QED
    BY <2>2, <2>3, <2>4
<1> QED
  BY <1>1, <1>2 DEF SurvivalInv

\* A channel stays closed.
LEMMA ClosedStays ==
  ASSUME KVInv, [Next]_vars, NEW r \in Requests, closed[r]
  PROVE  closed'[r]
<1>1. CASE UNCHANGED closed
  BY <1>1
<1>2. CASE \E q \in Requests : Receive(q)
  BY <1>2 DEF Receive
<1>3. ASSUME NEW q \in Requests, NEW reason, Samples(q, reason)
      PROVE  closed'[r]
  BY <1>3 DEF Samples, Emit, KVInv, IndInv, TypeOK
<1> QED
  BY <1>1, <1>2, <1>3, StreamSteps

\* No two requests use the same ID.
LEMMA IDsDiffer ==
  ASSUME Provisioned, NEW q \in Requests, NEW r \in Requests,
         OwnID(q), OwnID(r), id[q] = id[r], id[r] \in SeqIDs
  PROVE  q = r
<1>1. id[q] \in NextSeqID(q) /\ id[r] \in NextSeqID(r)
  BY RequestsAssumption DEF OwnID, SeqIDs
<1>2. CASE Kind[q] = "grpc" /\ Kind[r] = "grpc"
  BY <1>2 DEF Provisioned
<1>3. CASE Kind[q] # "grpc" \/ Kind[r] # "grpc"
  BY <1>1, <1>3, RequestsAssumption DEF NextSeqID
<1> QED
  BY <1>2, <1>3

\* With IDs of their own, a handler step keeps them, and a sequence is removed
\* by its own handler, after the end of its stream.
LEMMA HandlerOwnID ==
  ASSUME Provisioned, KVInv, NEW r \in Requests,
         \A q \in Requests : OwnID(q), Submit(r) \/ GiveUp(r) \/ Handler(r)
  PROVE  OwnID(r)'
<1> USE DEF KVInv
<1>0. /\ sequences \in [SeqIDs -> Requests \cup {None}]
      /\ id \in [Requests -> SeqIDs \cup {None}]
      /\ victim \in [Requests -> Requests \cup {None}]
      /\ DOMAIN hpc = Requests
      /\ None \notin Requests
  BY RequestsAssumption DEF IndInv, TypeOK
<1>1. closed' = closed
  BY DEF Submit, GiveUp, Handler, AddSequenceKV, AddSequenceInsert, WakeUp, Receive,
         EndOfStream, RemoveSequence, RemoveSequenceKV, seqVars
<1>2. CASE Submit(r)
  <2>1. id'[r] \in NextSeqID(r) /\ hpc'[r] = "addkv" /\ victim' = victim
    BY <1>0, <1>2 DEF Submit, Goto
  <2> QED
    BY <2>1 DEF OwnID, NextSeqID
<1>3. CASE GiveUp(r)
  BY <1>3 DEF GiveUp, Provisioned
<1>4. CASE AddSequenceKV(r) \/ AddSequenceInsert(r) \/ WakeUp(r) \/ Receive(r)
  <2>1. /\ hpc'[r] \notin {"remove", "free", "done"}
        /\ id' = id /\ victim' = victim
    BY <1>0, <1>4 DEF AddSequenceKV, AddSequenceInsert, WakeUp, Receive, Goto
  <2> QED
    BY <2>1 DEF OwnID, NextSeqID
<1>5. CASE EndOfStream(r)
  <2>1. closed[r] /\ id' = id /\ victim' = victim
    BY <1>5 DEF EndOfStream
  <2> QED
    BY <1>1, <2>1 DEF OwnID, NextSeqID
<1>6. CASE RemoveSequence(r)
  <2>1. id[r] \in SeqIDs
    BY <1>6 DEF IndInv, HandlersKnown, RemoveSequence
  <2>2. /\ hpc[r] = "remove" /\ id' = id
        /\ victim'[r] = sequences[id[r]]
    BY <1>0, <1>6 DEF RemoveSequence
  <2>3. ASSUME sequences[id[r]] # None
        PROVE  sequences[id[r]] = r
    <3>1. PICK q \in Requests : q = sequences[id[r]]
      BY <1>0, <2>1, <2>3
    <3>2. id[q] = id[r]
      BY <2>1, <2>3, <3>1 DEF RegisteredOnce
    <3> QED
      BY <2>1, <3>1, <3>2, IDsDiffer
  <2> QED
    BY <1>1, <2>2, <2>3 DEF OwnID, NextSeqID
<1>7. CASE RemoveSequenceKV(r)
  <2>1. hpc[r] = "free" /\ id' = id /\ victim' = victim
    BY <1>7 DEF RemoveSequenceKV
  <2> QED
    BY <1>1, <2>1 DEF OwnID, NextSeqID
<1> QED
  BY <1>2, <1>3, <1>4, <1>5, <1>6, <1>7 DEF Handler

\* Only an empty prompt is decoded before anything was generated.
LEMMA DecodeFromBOS ==
  ASSUME KVInv, NEW r \in Requests, Spent(r), NeedsDecode(r), gen[r] = 0
  PROVE  PromptLen[r] = 0 /\ pos[r] = 0
<1>1. st[r] = "Pending" /\ pos[r] = 0
  BY DEF KVInv, IndInv, TypeOK, Progressed
<1>2. promptDone[r]
  BY <1>1, Zenon DEF NeedsDecode
<1>3. promptDone[r] <=> PromptLen[r] = 0
  BY <1>1, Zenon DEF Spent
<1> QED
  BY <1>1, <1>2, <1>3

\* Sampling spends one token: it leaves the sequence finished, or within its
\* limit, or with the one token of prefill.
LEMMA SampleSpent ==
  ASSUME Provisioned, KVInv, NEW r \in Requests, NEW after, Spent(r),
         \/ SamplePrefill(r, after) /\ NeedsPrefill(r)
         \/ SampleDecode(r, after) /\ NeedsDecode(r)
  PROVE  Spent(r)'
<1> USE DEF KVInv
<1>0. PICK g \in Nat, p \in Nat, m \in Nat, s \in Nat :
        g = gen[r] /\ p = pos[r] /\ m = PromptLen[r] /\ s = SeqLimit(r) /\ s > 0
  BY StoredType, ConfigAssumption DEF Provisioned, IndInv, TypeOK
<1>1. SeqLimit(r)' = SeqLimit(r)
  BY DEF SeqLimit
<1>2. PICK reason : /\ Emit(r, reason, after)
                    /\ SampleDecode(r, after) => reason \in DecodeReasons(r)
  BY DEF SamplePrefill, SampleDecode
<1>3. /\ gen'[r] = g + 1
      /\ st'[r] = IF reason = "none" THEN "Decoding" ELSE "Finished"
  BY <1>0, <1>2 DEF Emit, IndInv, TypeOK
<1>4. CASE SamplePrefill(r, after) /\ NeedsPrefill(r)
  <2>1. g = 0 /\ m > 0
    BY <1>0, <1>4 DEF NeedsPrefill, Progressed
  <2>2. pos'[r] = m
    BY <1>0, <1>4 DEF SamplePrefill, IndInv, TypeOK
  <2> QED
    BY <1>0, <1>3, <2>1, <2>2 DEF Spent
<1>5. CASE SampleDecode(r, after) /\ NeedsDecode(r)
  <2>1. pos'[r] = p + 1
    BY <1>0, <1>5 DEF SampleDecode, IndInv, TypeOK
  <2>2. g = 0 => m = 0 /\ p = 0
    BY <1>0, <1>5, DecodeFromBOS
  <2>3. g > 0 => p = g - 1 + (IF m = 0 THEN 1 ELSE m)
    BY <1>0 DEF Spent
  <2>4. reason = "none" => g + 1 < s
    BY <1>0, <1>2, <1>5 DEF DecodeReasons, ReachedMaxTokens
  <2>5. p + 1 = (g + 1) - 1 + (IF m = 0 THEN 1 ELSE m)
    BY <1>0, <2>2, <2>3
  <2> QED
    BY <1>0, <1>1, <1>3, <2>1, <2>4, <2>5 DEF Spent
<1> QED
  BY <1>4, <1>5

\* A sequence whose pass is about to store a token never needs more storage
\* than its prompt and its limit say.
LEMMA NextTokenFits ==
  ASSUME Provisioned, KVInv, NEW r \in Requests, Spent(r), NeedsDecode(r)
  PROVE  InputPos(r) + 1 \in Nat /\ InputPos(r) + 1 <= TokensStored(r)
<1> USE DEF KVInv
<1>0. PICK g \in Nat, p \in Nat, m \in Nat, s \in Nat :
        g = gen[r] /\ p = pos[r] /\ m = PromptLen[r] /\ s = SeqLimit(r) /\ s > 0
  BY StoredType, ConfigAssumption DEF Provisioned, IndInv, TypeOK
<1>1. g = 0 => m = 0
  BY <1>0, DecodeFromBOS
<1>2. g > 0 => p = g - 1 + (IF m = 0 THEN 1 ELSE m)
  BY <1>0 DEF Spent
<1>3. g < s \/ (g = 1 /\ m > 0)
  BY <1>0 DEF NeedsDecode, Spent
<1>4. InputPos(r) = IF g = 0 THEN 0 ELSE p
  BY <1>0 DEF InputPos
<1>5. TokensStored(r) = IF m = 0 THEN s ELSE m + (IF s > 1 THEN s - 1 ELSE 1)
  BY <1>0 DEF TokensStored
<1> QED
  BY <1>0, <1>1, <1>2, <1>3, <1>4, <1>5

\* The required blocks are finitely many.
LEMMA RequiredFinite ==
  ASSUME Provisioned
  PROVE  IsFiniteSet(RequiredBlocks)
<1> DEFINE Table(r) == {r} \X (1..BlocksFor(TokensStored(r)))
           Tables == {Table(r) : r \in Requests}
           f == [r \in Requests |-> Table(r)]
<1>1. f \in Surjection(Requests, Tables)
  BY DEF Surjection
<1>2. IsFiniteSet(Tables)
  <2> HIDE DEF f, Tables
  <2> QED
    BY <1>1, FS_Surjection, RequestsAssumption
<1>3. ASSUME NEW r \in Requests PROVE IsFiniteSet(Table(r))
  <2>1. PICK n \in Nat : n = BlocksFor(TokensStored(r))
    <3>1. TokensStored(r) \in Nat
      BY StoredType DEF Provisioned
    <3> QED
      BY <3>1, BlocksForType
  <2>2. IsFiniteSet(1..n)
    BY FS_Interval
  <2>3. IsFiniteSet({r})
    BY FS_Singleton
  <2>4. IsFiniteSet({r} \X (1..n))
    BY <2>2, <2>3, FS_Product
  <2> QED
    BY <2>1, <2>4
<1>4. \A T \in Tables : IsFiniteSet(T)
  BY <1>3
<1>5. RequiredBlocks = UNION Tables
  BY DEF RequiredBlocks
<1> HIDE DEF Tables
<1> QED
  BY <1>2, <1>4, <1>5, FS_UNION

\* The pool has room for every token a request may still store.
LEMMA RoomLeft ==
  ASSUME Provisioned, KVInv, BlocksConserved, SurvivalInv,
         NEW c \in Requests, NEW n \in Nat, n <= TokensStored(c), c \in poolTab
  PROVE  CanStore(c, n)
<1> DEFINE Extra == {c} \X (held[c] + 1..BlocksFor(n))
<1>0. /\ held \in [Requests -> Nat] /\ kvLen \in [Requests -> Nat]
      /\ freeBlocks \in Nat /\ BlocksFor(n) \in Nat
  BY BlocksForType DEF KVInv, IndInv, TypeOK
<1>1. \A r \in Requests :
        /\ TokensStored(r) \in Nat /\ BlocksFor(TokensStored(r)) \in Nat
        /\ held[r] <= BlocksFor(TokensStored(r))
  <2> SUFFICES ASSUME NEW r \in Requests
               PROVE  /\ TokensStored(r) \in Nat /\ BlocksFor(TokensStored(r)) \in Nat
                      /\ held[r] <= BlocksFor(TokensStored(r))
    OBVIOUS
  <2>1. PICK t \in Nat : t = TokensStored(r)
    BY StoredType DEF Provisioned
  <2>2. held[r] = BlocksFor(kvLen[r]) /\ kvLen[r] <= t /\ kvLen[r] \in Nat
    BY <1>0, <2>1 DEF KVInv, PoolStores, SurvivalInv
  <2>3. BlocksFor(kvLen[r]) <= BlocksFor(t) /\ BlocksFor(t) \in Nat
    BY <2>2, BlocksForMono, BlocksForType
  <2> QED
    BY <2>1, <2>2, <2>3
<1>2. BlocksFor(n) <= BlocksFor(TokensStored(c))
  BY <1>1, BlocksForMono
<1>3. HeldBlocks \cup Extra \subseteq RequiredBlocks
  <2>1. HeldBlocks \subseteq RequiredBlocks
    <3> SUFFICES ASSUME NEW r \in Requests, NEW i \in 1..held[r]
                 PROVE  i \in 1..BlocksFor(TokensStored(r))
      BY DEF HeldBlocks, RequiredBlocks
    <3> QED
      BY <1>0, <1>1
  <2>2. held[c] + 1..BlocksFor(n) \subseteq 1..BlocksFor(TokensStored(c))
    BY <1>0, <1>1, <1>2
  <2>3. Extra \subseteq RequiredBlocks
    BY <2>2 DEF RequiredBlocks
  <2> QED
    BY <2>1, <2>3
<1>4. /\ IsFiniteSet(HeldBlocks) /\ Cardinality(HeldBlocks) \in Nat
      /\ Cardinality(HeldBlocks \cup Extra) <= Cardinality(RequiredBlocks)
  <2> HIDE DEF Extra
  <2> QED
    BY <1>3, RequiredFinite, FS_Subset, FS_CardinalityType
<1>5. SUFFICES ASSUME BlocksFor(n) > held[c]
               PROVE  BlocksFor(n) - held[c] <= freeBlocks
  BY <1>0 DEF CanStore
<1>6. PICK d \in Nat : d = BlocksFor(n) - held[c]
  BY <1>0, <1>5
<1>7. IsFiniteSet(Extra) /\ Cardinality(Extra) = d
  <2>1. PICK a \in Int, b \in Int : /\ a = held[c] + 1 /\ b = BlocksFor(n)
                                    /\ a <= b /\ b - a + 1 = d
    <3>1. held[c] \in Nat
      BY <1>0
    <3>2. held[c] + 1 <= BlocksFor(n) /\ BlocksFor(n) - (held[c] + 1) + 1 = d
      BY <1>0, <1>5, <1>6, <3>1
    <3> QED
      BY <1>0, <3>1, <3>2
  <2>2. IsFiniteSet(a..b) /\ Cardinality(a..b) = d
    <3>1. IsFiniteSet(a..b) /\ Cardinality(a..b) = IF a > b THEN 0 ELSE b - a + 1
      BY FS_Interval
    <3> QED
      BY <2>1, <3>1
  <2>3. IsFiniteSet({c}) /\ Cardinality({c}) = 1
    BY FS_Singleton
  <2>4. IsFiniteSet({c} \X (a..b)) /\ Cardinality({c} \X (a..b)) = 1 * d
    BY <2>2, <2>3, FS_Product
  <2> QED
    BY <2>1, <2>4
<1>8. HeldBlocks \cap Extra = {}
  <2> SUFFICES ASSUME NEW i \in 1..held[c]
               PROVE  i \notin held[c] + 1..BlocksFor(n)
    BY DEF HeldBlocks
  <2> QED
    BY <1>0
<1>9. Cardinality(HeldBlocks \cup Extra) = Cardinality(HeldBlocks) + d
  <2> HIDE DEF Extra
  <2>1. Cardinality(HeldBlocks \cup Extra) =
          Cardinality(HeldBlocks) + Cardinality(Extra) - Cardinality(HeldBlocks \cap Extra)
    BY <1>4, <1>7, FS_Union
  <2>2. Cardinality(HeldBlocks \cap Extra) = 0
    BY <1>8, FS_EmptySet, Zenon
  <2> QED
    BY <1>4, <1>7, <2>1, <2>2
<1>10. freeBlocks + Cardinality(HeldBlocks) = MaxBlocks
  BY DEF BlocksConserved
<1>11. Cardinality(RequiredBlocks) \in Nat /\ Cardinality(RequiredBlocks) <= MaxBlocks
  BY RequiredFinite, FS_CardinalityType DEF Provisioned
<1> QED
  BY <1>0, <1>4, <1>6, <1>9, <1>10, <1>11, ConfigAssumption

\* The sequence of a running pass has not been removed: it is not finished.
LEMMA CurrentKept ==
  ASSUME KVInv, SurvivalInv, pc \in {"prefillkv", "decodekv"}
  PROVE  Current \in Requests /\ Current \in poolTab
<1> USE DEF KVInv
<1>1. PICK c \in Requests : c = Current
  BY CurrentType DEF IndInv, PassOfBatch
<1>2. st[c] # "Finished" /\ (c \in poolTab \/ Removed(c))
  BY <1>1 DEF PassStarted, NeedsPrefill, NeedsDecode
<1>3. ~closed[c]
  BY <1>2 DEF IndInv, ClosedWhenFinished
<1>4. ASSUME NEW q \in Requests, victim[q] = c
      PROVE  FALSE
  <2>1. q = c
    BY <1>4, RequestsAssumption DEF SurvivalInv, OwnID
  <2>2. hpc[c] \in {"free", "done"}
    BY <1>4, <2>1, RequestsAssumption DEF RegisteredOnce
  <2> QED
    BY <1>3, <2>2 DEF SurvivalInv, OwnID
<1> QED
  BY <1>1, <1>2, <1>4 DEF Removed

\* What a running pass is about to store fits the request and the pool.
LEMMA PassFits ==
  ASSUME Provisioned, KVInv, BlocksConserved, SurvivalInv,
         pc \in {"prefillkv", "decodekv"}, NEW c \in Requests, c = Current,
         NEW n, n = IF pc = "prefillkv" THEN PromptLen[c] ELSE InputPos(c) + 1
  PROVE  n \in Nat /\ n <= TokensStored(c) /\ CanStore(c, n)
<1>1. n \in Nat /\ n <= TokensStored(c)
  <2>1. CASE pc = "prefillkv"
    <3>1. PICK m \in Nat, s \in Nat : m = PromptLen[c] /\ s = SeqLimit(c) /\ s > 0
      BY StoredType DEF Provisioned
    <3>2. m > 0
      BY <2>1, <3>1 DEF KVInv, PassStarted, NeedsPrefill
    <3> QED
      BY <2>1, <3>1, <3>2 DEF TokensStored
  <2>2. CASE pc = "decodekv"
    <3>1. NeedsDecode(c) /\ Spent(c)
      BY <2>2 DEF KVInv, PassStarted, SurvivalInv
    <3> QED
      BY <2>2, <3>1, NextTokenFits
  <2> QED
    BY <2>1, <2>2
<1>2. c \in poolTab
  BY CurrentKept
<1> QED
  BY <1>1, <1>2, RoomLeft

\* Nor does the running pass ask too much of the arena or of the pool.
LEMMA PagedFits ==
  ASSUME Provisioned, KVInv, BlocksConserved, SurvivalInv, pc \in {"prefillkv", "decodekv"}
  PROVE  LogitsFit /\ CanStore(Current, PassEnd)
<1>1. PICK c \in Requests : c = Current
  BY CurrentKept
<1>2. PICK n : n = IF pc = "prefillkv" THEN PromptLen[c] ELSE InputPos(c) + 1
  OBVIOUS
<1>3. n = PassEnd
  BY <1>1, <1>2 DEF PassEnd, Prefilling
<1>4. n \in Nat /\ n <= TokensStored(c) /\ CanStore(c, n)
  BY <1>1, <1>2, PassFits
<1>5. LogitsFit
  <2>1. CASE pc = "prefillkv"
    <3>1. PassTokens = PromptLen[c] /\ PassEnd = PromptLen[c] /\ Prefilling
      BY <1>1, <2>1 DEF PassTokens, PassEnd, Prefilling
    <3>2. PromptLen[c] > 0
      BY <1>1, <2>1 DEF KVInv, PassStarted, NeedsPrefill
    <3>3. Fits(TRUE, PromptLen[c], PromptLen[c])
      BY <3>2 DEF Provisioned, ArenaHolds
    <3> QED
      BY <3>1, <3>3 DEF LogitsFit
  <2>2. CASE pc = "decodekv"
    <3>1. PassTokens = 1 /\ PassEnd = n /\ Prefilling = FALSE
      BY <1>3, <2>2 DEF PassTokens, Prefilling
    <3>2. n >= 1
      BY <1>1, <1>2, <1>4, <2>2 DEF InputPos, KVInv, IndInv, TypeOK
    <3>3. TokensStored(c) \in Nat
      BY StoredType DEF Provisioned
    <3>4. n \in 1..TokensStored(c)
      BY <1>4, <3>2, <3>3
    <3>5. Fits(FALSE, 1, n)
      BY <3>4 DEF Provisioned, ArenaHolds
    <3> QED
      BY <3>1, <3>5 DEF LogitsFit
  <2> QED
    BY <2>1, <2>2
<1> QED
  BY <1>1, <1>3, <1>4, <1>5

\* A step that counts tokens or positions samples a token for a sequence of
\* its phase.
LEMMA SamplingSteps ==
  ASSUME KVInv, [Next]_vars
  PROVE  \/ UNCHANGED <<st, promptDone, pos, gen>>
         \/ \E r \in Requests, after \in {"prefill", "decode", "sample"} :
              \/ SamplePrefill(r, after) /\ NeedsPrefill(r)
              \/ SampleDecode(r, after) /\ NeedsDecode(r)
<1> USE DEF KVInv
<1>1. CASE RunGPUPrefill \/ DecodeWithGPUKV \/ SampleBatch
  <2>1. Current \in Requests
    BY <1>1, CurrentType DEF RunGPUPrefill, DecodeWithGPUKV, SampleBatch, InLoop, IndInv
  <2> QED
    BY <1>1, <2>1 DEF RunGPUPrefill, DecodeWithGPUKV, SampleBatch, InLoop, Selected
<1>2. CASE PrefillWithPagedKV
  <2>1. Current \in Requests
    BY <1>2, CurrentType DEF PrefillWithPagedKV, IndInv, PassOfBatch
  <2> QED
    BY <1>2, <2>1 DEF PrefillWithPagedKV, PassStarted
<1>3. ASSUME NEW r \in Requests, Submit(r) \/ GiveUp(r) \/ Handler(r)
      PROVE  UNCHANGED <<st, promptDone, pos, gen>>
  BY <1>3 DEF Submit, GiveUp, Handler, AddSequenceKV, AddSequenceInsert, WakeUp, Receive,
              EndOfStream, RemoveSequence, RemoveSequenceKV, seqVars
<1>4. ASSUME Collect \/ RunReturns \/ Cleanup \/ LoopSkip \/ LoopEnd \/ BeginPaged
               \/ DecodeWithPagedKV \/ LayerError \/ PagedArenaError \/ GPUArenaError
               \/ Yield \/ WaiterWait \/ Unpark \/ CancelContext \/ UNCHANGED vars
      PROVE  UNCHANGED <<st, promptDone, pos, gen>>
  BY <1>4 DEF Collect, RunReturns, Cleanup, LoopSkip, LoopEnd, BeginPaged,
              DecodeWithPagedKV, LayerError, PagedArenaError, GPUArenaError, PassFails,
              Yield, WaiterWait, Unpark, CancelContext, vars, seqVars
<1> QED
  BY <1>1, <1>2, <1>3, <1>4 DEF Next, Loop

\* Every step preserves the invariant.
LEMMA NextSurvival ==
  ASSUME CacheMode = "paged", Provisioned, KVInv, BlocksConserved, SurvivalInv, [Next]_vars
  PROVE  SurvivalInv'
<1>1. pc' # "dead"
  <2> SUFFICES ASSUME pc' = "dead" PROVE FALSE
    OBVIOUS
  <2>1. LayerError \/ PagedArenaError
    BY OnlyPassFails DEF SurvivalInv, GPUArenaError
  <2>2. LogitsFit /\ CanStore(Current, PassEnd)
    BY <2>1, PagedFits DEF LayerError, PagedArenaError
  <2> QED
    BY <2>1, <2>2 DEF LayerError, PagedArenaError
<1>2. ASSUME NEW q \in Requests
      PROVE  OwnID(q)'
  <2>1. CASE UNCHANGED <<id, hpc[q], victim[q]>>
    BY <2>1, ClosedStays DEF SurvivalInv, OwnID, NextSeqID
  <2>2. ASSUME NEW r \in Requests, Submit(r) \/ GiveUp(r) \/ Handler(r)
        PROVE  OwnID(q)'
    <3>1. CASE q = r
      BY <2>2, <3>1, HandlerOwnID DEF SurvivalInv
    <3>2. CASE q # r
      <4>1. id'[q] = id[q] /\ hpc'[q] = hpc[q] /\ victim'[q] = victim[q]
        BY <2>2, <3>2
        DEF Submit, GiveUp, Handler, AddSequenceKV, AddSequenceInsert, WakeUp, Receive,
            EndOfStream, RemoveSequence, RemoveSequenceKV, Goto, KVInv, IndInv, TypeOK
      <4> QED
        BY <4>1, ClosedStays DEF SurvivalInv, OwnID, NextSeqID
    <3> QED
      BY <3>1, <3>2
  <2>3. ASSUME Loop \/ CancelContext \/ UNCHANGED vars
        PROVE  UNCHANGED <<id, hpc[q], victim[q]>>
    BY <2>3
    DEF Loop, Collect, RunReturns, Cleanup, LoopSkip, LoopEnd, RunGPUPrefill,
        DecodeWithGPUKV, BeginPaged, PrefillWithPagedKV, DecodeWithPagedKV,
        LayerError, PagedArenaError, GPUArenaError, PassFails, SampleBatch, Yield,
        WaiterWait, Unpark, CancelContext, vars, handVars
  <2> QED
    BY <2>1, <2>2, <2>3 DEF Next
<1>3. ASSUME NEW q \in Requests
      PROVE  Spent(q)'
  <2>0. Spent(q) /\ SeqLimit(q)' = SeqLimit(q)
    BY DEF SurvivalInv, SeqLimit
  <2>1. CASE /\ st'[q] = st[q] /\ promptDone'[q] = promptDone[q]
             /\ gen'[q] = gen[q] /\ pos'[q] = pos[q]
    BY <2>0, <2>1 DEF Spent
  <2>2. ASSUME NEW r \in Requests, NEW after,
               \/ SamplePrefill(r, after) /\ NeedsPrefill(r)
               \/ SampleDecode(r, after) /\ NeedsDecode(r)
        PROVE  Spent(q)'
    <3>1. CASE q = r
      BY <2>0, <2>2, <3>1, SampleSpent
    <3>2. CASE q # r
      <4>1. \/ SamplePrefill(r, after) /\ st[r] = "Pending" /\ PromptLen[r] > 0
            \/ SampleDecode(r, after)
        BY <2>2 DEF NeedsPrefill
      <4> QED
        BY <2>1, <3>2, <4>1, SampleProgress DEF KVInv
    <3> QED
      BY <3>1, <3>2
  <2> QED
    BY <2>1, <2>2, SamplingSteps
<1>4. ASSUME NEW q \in Requests
      PROVE  kvLen'[q] <= TokensStored(q)
  <2>0. /\ kvLen \in [Requests -> Nat] /\ kvLen[q] <= TokensStored(q)
        /\ TokensStored(q) \in Nat
    BY StoredType DEF KVInv, IndInv, TypeOK, SurvivalInv, Provisioned
  <2>1. CASE kvLen' = kvLen
    BY <2>0, <2>1
  <2>2. ASSUME NEW r \in Requests, RemoveSequenceKV(r)
        PROVE  kvLen'[q] <= TokensStored(q)
    <3>1. kvLen'[q] \in {0, kvLen[q]}
      BY <2>0, <2>2 DEF RemoveSequenceKV, PoolDelete
    <3> QED
      BY <2>0, <3>1
  <2>6. CASE PagedArenaError
    BY <2>6, PagedFits DEF PagedArenaError
  <2>3. CASE PrefillWithPagedKV \/ DecodeWithPagedKV
    <3>0. pc \in {"prefillkv", "decodekv"}
      BY <2>3 DEF PrefillWithPagedKV, DecodeWithPagedKV
    <3>1. PICK c \in Requests : c = Current
      BY <3>0, CurrentKept
    <3>2. PICK n : n = IF pc = "prefillkv" THEN PromptLen[c] ELSE InputPos(c) + 1
      OBVIOUS
    <3>3. n \in Nat /\ n <= TokensStored(c)
      BY <3>0, <3>1, <3>2, PassFits
    <3>4. StoreKV(c, n)
      BY <2>3, <3>1, <3>2 DEF PrefillWithPagedKV, DecodeWithPagedKV
    <3>5. kvLen'[q] \in {kvLen[q], IF q = c THEN n ELSE kvLen[q]}
      BY <2>0, <3>4 DEF StoreKV
    <3> QED
      BY <2>0, <3>3, <3>5
  <2>4. ASSUME NEW r \in Requests, Submit(r) \/ GiveUp(r) \/ Handler(r),
               ~RemoveSequenceKV(r)
        PROVE  kvLen' = kvLen
    BY <2>4 DEF Submit, GiveUp, Handler, AddSequenceKV, AddSequenceInsert, WakeUp,
                Receive, EndOfStream, RemoveSequence, kvVars
  <2>5. ASSUME Loop \/ CancelContext \/ UNCHANGED vars,
               ~(PrefillWithPagedKV \/ DecodeWithPagedKV \/ PagedArenaError)
        PROVE  kvLen' = kvLen
    BY <2>5 DEF Loop, Collect, RunReturns, Cleanup, LoopSkip, LoopEnd, RunGPUPrefill,
                DecodeWithGPUKV, BeginPaged, LayerError, GPUArenaError, FailStoreKV, SampleBatch,
                Yield, WaiterWait, Unpark, CancelContext, vars, kvVars, poolVars
  <2> QED
    BY <2>1, <2>2, <2>3, <2>4, <2>5, <2>6 DEF Next
<1> QED
  <2>1. \A q \in Requests : TokensStored(q)' = TokensStored(q)
    BY DEF TokensStored, SeqLimit
  <2> QED
    BY <1>1, <1>2, <1>3, <1>4, <2>1 DEF SurvivalInv

\* Products grow with their factors.
LEMMA ProductMono ==
  ASSUME NEW a \in Nat, NEW b \in Nat, NEW c \in Nat, a <= b
  PROVE  a * c \in Nat /\ b * c \in Nat /\ a * c <= b * c
<1>1. PICK d \in Nat : b = a + d
  <2>1. b - a \in Nat /\ b = a + (b - a)
    OBVIOUS
  <2> QED
    BY <2>1
<1>2. a * c \in Nat /\ d * c \in Nat
  OBVIOUS
<1>3. (a + d) * c = a * c + d * c
  OBVIOUS
<1> QED
  BY <1>1, <1>2, <1>3

\* The scratch of the layers grows with the tokens of the pass.
LEMMA ScratchMono ==
  ASSUME NEW a \in Nat, NEW b \in Nat, a <= b
  PROVE  /\ ScratchBytes(a) \in Nat /\ ScratchBytes(b) \in Nat
         /\ ScratchBytes(a) <= ScratchBytes(b)
<1>1. PICK v1 \in Nat, v2 \in Nat : v1 = a * Vocab /\ v2 = b * Vocab /\ v1 <= v2
  BY ProductMono, ConfigAssumption
<1>2. PICK i1 \in Nat, i2 \in Nat : i1 = a * Inter /\ i2 = b * Inter /\ i1 <= i2
  BY ProductMono, ConfigAssumption
<1>3. PICK s1 \in Nat, s2 \in Nat : s1 = a * a /\ s2 = b * b /\ s1 <= s2
  <2>1. PICK m \in Nat : a * b = m
    BY ProductMono
  <2>2. a * a \in Nat /\ a * a <= b * a
    BY ProductMono
  <2>3. b * b \in Nat /\ a * b <= b * b
    BY ProductMono
  <2>4. b * a = m
    BY <2>1
  <2> QED
    BY <2>1, <2>2, <2>3, <2>4
<1>4. /\ ScratchBytes(a) = IF v1 > i1 + s1 THEN v1 ELSE i1 + s1
      /\ ScratchBytes(b) = IF v2 > i2 + s2 THEN v2 ELSE i2 + s2
  BY <1>1, <1>2, <1>3 DEF ScratchBytes
<1> QED
  BY <1>1, <1>2, <1>3, <1>4

\* The arena has room for every pass over the single cache of no more tokens
\* than it was made for.
LEMMA GPUPassFits ==
  ASSUME CacheMode = "gpu", NEW n \in Nat, n <= ArenaTokens, NEW prefill, NEW end
  PROVE  Fits(prefill, n, end)
<1>1. PICK N \in Nat : N = ArenaTokens
  BY ConfigAssumption
<1>2. PICK h1 \in Nat, h2 \in Nat : h1 = n * Hidden /\ h2 = N * Hidden /\ h1 <= h2
  BY <1>1, ProductMono, ConfigAssumption
<1>3. PICK s1 \in Nat, s2 \in Nat : s1 = ScratchBytes(n) /\ s2 = ScratchBytes(N) /\ s1 <= s2
  BY <1>1, ScratchMono
<1>4. PICK v \in Nat : v = Vocab
  BY ConfigAssumption
<1>5. PassBytes(prefill, n, end) = n + h1 + s1
  <2>1. (IF CacheMode = "gpu" THEN 0 ELSE IF prefill THEN n * n ELSE end * KVWords) = 0
    OBVIOUS
  <2>2. PassBytes(prefill, n, end) = n + h1 + s1 + 0
    BY <1>2, <1>3, <2>1 DEF PassBytes
  <2> QED
    BY <2>2
<1>6. PICK t \in Nat : t = N + h2 + s2 + v
  OBVIOUS
<1>7. TotalArenaBytes(ArenaTokens) = t + t \div 10
  BY <1>1, <1>2, <1>3, <1>4, <1>6 DEF TotalArenaBytes
<1>8. t + t \div 10 >= t
  OBVIOUS
<1>9. n + h1 + s1 + v <= t
  BY <1>1, <1>2, <1>3, <1>4, <1>6
<1> QED
  BY <1>4, <1>5, <1>6, <1>7, <1>8, <1>9 DEF Fits

\* Run never returns an error when storage and arena are provisioned for the
\* workload (runDecodeStep, runBatchedPrefill, StoreKV, Arena.Alloc), and never
\* with the single GPU cache when no prompt is longer than the arena was made
\* for: that cache refuses nobody.
THEOREM Survival ==
  ASSUME CacheMode = "paged" => Provisioned,
         CacheMode = "gpu" => ArenaTokens > 0 /\ \A r \in Requests : PromptLen[r] <= ArenaTokens
  PROVE  Spec => []RunSurvives
<1>1. CASE CacheMode = "paged"
  <2>1. Provisioned
    BY <1>1
  <2>2. Init => SurvivalInv
    BY <2>1, InitSurvival
  <2>3. KVInv /\ BlocksConserved /\ SurvivalInv /\ [Next]_vars => SurvivalInv'
    BY <1>1, <2>1, NextSurvival
  <2>4. SurvivalInv => RunSurvives
    BY DEF SurvivalInv, RunSurvives
  <2> QED
    BY <2>2, <2>3, <2>4, KVInvariance, BlockConservation, PTL DEF Spec
<1>2. CASE CacheMode # "paged"
  <2>1. Init => RunSurvives
    BY DEF Init, RunSurvives
  <2>2. ASSUME KVInv, RunSurvives, [Next]_vars, pc' = "dead"
        PROVE  FALSE
    <3>1. GPUArenaError
      BY <1>2, <2>2, OnlyPassFails
      DEF RunSurvives, LayerError, PagedArenaError, KVInv, PassStarted
    <3>2. CacheMode = "gpu" /\ Current \in Requests
      BY <2>2, <3>1, CurrentType DEF GPUArenaError, InLoop, KVInv, IndInv
    <3>3. PassTokens \in Nat /\ PassTokens <= ArenaTokens
      BY <3>2, ConfigAssumption DEF PassTokens
    <3>4. LogitsFit
      BY <3>2, <3>3, GPUPassFits DEF LogitsFit
    <3> QED
      BY <3>1, <3>4 DEF GPUArenaError
  <2>3. KVInv /\ RunSurvives /\ [Next]_vars => RunSurvives'
    BY <2>2 DEF RunSurvives
  <2> QED
    BY <2>1, <2>3, KVInvariance, PTL DEF Spec
<1> QED
  BY <1>1, <1>2
-----------------------------------------------------------------------------
(* Whose context the single GPU cache holds.                               *)

\* What the single cache asks of its workload: one client at a time and no
\* empty prompt, which would skip the prefill that resets the cache.
OneAtATime ==
  /\ MaxClients <= 1
  /\ \A r \in Requests : PromptLen[r] > 0

\* The step is running a batch that r is a member of.
InBatch(r) ==
  pc \in {"prefill", "decode"} /\ \E j \in DOMAIN batch : batch[j] = r

\* The cache holds the whole context of r and nothing else.
OwnsCache(r) == gpuKV = [i \in 1..InputPos(r) |-> r]

\* The course of a request: its sequence is pending until it is published, is
\* in the map only while its handler waits for it, and owns the cache from its
\* prefill until it is finished or has left both map and batch.
Serial(r) ==
  /\ hpc[r] \in {"idle", "addkv", "insert"} => st[r] = "Pending" /\ ~InBatch(r)
  /\ Registered(r) => hpc[r] \in {"wake", "recv", "remove"}
  /\ st[r] = "Pending" => ~promptDone[r]
  /\ st[r] = "Decoding" /\ (Registered(r) \/ InBatch(r)) => OwnsCache(r)

\* The strengthening of OwnContext: besides, one request is active, and a
\* running batch holds nobody else than the sequence that decodes, which may
\* have been removed and followed by another, pending one.
SerialInv ==
  /\ \A q, r \in Requests : q \in Active /\ r \in Active => q = r
  /\ \A q, r \in Requests :
       InBatch(q) /\ (InBatch(r) \/ (Registered(r) /\ st[r] = "Decoding")) => q = r
  /\ \A r \in Requests : Serial(r)

\* The initial state satisfies the invariant.
LEMMA InitSerial ==
  ASSUME OneAtATime, Init
  PROVE  SerialInv
<1>1. \A r \in Requests : hpc[r] = "idle" /\ st[r] = "Pending" /\ ~InBatch(r)
  BY DEF Init, InBatch
<1>2. \A r \in Requests : ~Registered(r)
  BY RequestsAssumption DEF Init, Registered
<1>3. ASSUME NEW r \in Requests PROVE ~promptDone[r]
  <2>1. promptDone[r] <=> PromptLen[r] = 0
    BY Zenon DEF Init
  <2>2. PromptLen[r] # 0
    BY ConfigAssumption DEF OneAtATime
  <2> QED
    BY <2>1, <2>2
<1>4. \A r \in Requests : Serial(r)
  BY <1>1, <1>2, <1>3 DEF Serial
<1> QED
  BY <1>1, <1>4 DEF SerialInv, Active

\* A request arrives only when no other is active.
LEMMA SubmitAlone ==
  ASSUME OneAtATime, NEW r \in Requests, Submit(r)
  PROVE  Active = {}
<1>1. IsFiniteSet(Active)
  <2>1. Active \subseteq Requests
    BY DEF Active
  <2> QED
    BY <2>1, RequestsAssumption, FS_Subset
<1>2. Cardinality(Active) \in Nat
  BY <1>1, FS_CardinalityType
<1>3. Cardinality(Active) < MaxClients /\ MaxClients \in Nat /\ MaxClients <= 1
  BY ConfigAssumption DEF Submit, OneAtATime
<1>4. Cardinality(Active) = 0
  BY <1>2, <1>3
<1> QED
  BY <1>1, <1>4, FS_EmptySet

\* How a handler step moves its own request, and that it moves no other.
LEMMA HandlerMoves ==
  ASSUME KVInv, NEW r \in Requests, Submit(r) \/ GiveUp(r) \/ Handler(r)
  PROVE  /\ UNCHANGED <<pc, batch, st, promptDone, pos, gen, gpuKV>>
         /\ \A q \in Requests : q # r => hpc'[q] = hpc[q]
         /\ \/ Submit(r) /\ hpc[r] = "idle" /\ hpc'[r] = "addkv"
            \/ hpc[r] = "addkv" /\ hpc'[r] = "insert"
            \/ AddSequenceInsert(r) /\ hpc[r] = "insert" /\ hpc'[r] = "wake"
            \/ hpc[r] \in {"wake", "recv"} /\ hpc'[r] \in {"recv", "remove"}
            \/ RemoveSequence(r) /\ hpc[r] = "remove" /\ hpc'[r] \in {"free", "done"}
            \/ hpc[r] = "free" /\ hpc'[r] = "done"
         /\ ~(AddSequenceInsert(r) \/ RemoveSequence(r)) => UNCHANGED sequences
<1>0. DOMAIN hpc = Requests
  BY DEF KVInv, IndInv, TypeOK
<1>1. UNCHANGED <<pc, batch, st, promptDone, pos, gen, gpuKV>>
  BY DEF Submit, GiveUp, Handler, AddSequenceKV, AddSequenceInsert, WakeUp, Receive,
         EndOfStream, RemoveSequence, RemoveSequenceKV, runVars, seqVars, kvVars
<1>2. \A q \in Requests : q # r => hpc'[q] = hpc[q]
  BY <1>0 DEF Submit, GiveUp, Handler, AddSequenceKV, AddSequenceInsert, WakeUp, Receive,
         EndOfStream, RemoveSequence, RemoveSequenceKV, Goto
<1>3. \/ Submit(r) /\ hpc[r] = "idle" /\ hpc'[r] = "addkv"
      \/ hpc[r] = "addkv" /\ hpc'[r] = "insert"
      \/ AddSequenceInsert(r) /\ hpc[r] = "insert" /\ hpc'[r] = "wake"
      \/ hpc[r] \in {"wake", "recv"} /\ hpc'[r] \in {"recv", "remove"}
      \/ RemoveSequence(r) /\ hpc[r] = "remove" /\ hpc'[r] \in {"free", "done"}
      \/ hpc[r] = "free" /\ hpc'[r] = "done"
  BY <1>0 DEF Submit, GiveUp, Handler, AddSequenceKV, AddSequenceInsert, WakeUp, Receive,
         EndOfStream, RemoveSequence, RemoveSequenceKV, Goto
<1>4. ~(AddSequenceInsert(r) \/ RemoveSequence(r)) => UNCHANGED sequences
  BY DEF Submit, GiveUp, Handler, AddSequenceKV, WakeUp, Receive,
         EndOfStream, RemoveSequenceKV
<1> QED
  BY <1>1, <1>2, <1>3, <1>4

\* Only an insertion registers a sequence, and a removal takes out the one its
\* handler registered.
LEMMA HandlerRegisters ==
  ASSUME KVInv, NEW r \in Requests, Submit(r) \/ GiveUp(r) \/ Handler(r)
  PROVE  /\ \A q \in Requests : Registered(q)' =>
              Registered(q) \/ (q = r /\ AddSequenceInsert(r))
         /\ RemoveSequence(r) => ~Registered(r)'
<1> USE DEF KVInv
<1>0. /\ sequences \in [SeqIDs -> Requests \cup {None}]
      /\ None \notin Requests
  BY RequestsAssumption DEF IndInv, TypeOK
<1>1. CASE UNCHANGED sequences /\ ~RemoveSequence(r)
  BY <1>1 DEF Registered
<1>2. CASE AddSequenceInsert(r)
  <2>1. sequences' = [sequences EXCEPT ![id[r]] = r] /\ hpc[r] # "remove"
    BY <1>2 DEF AddSequenceInsert
  <2>2. \A i \in SeqIDs : sequences'[i] = sequences[i] \/ sequences'[i] = r
    BY <1>0, <2>1
  <2> QED
    BY <1>2, <2>1, <2>2 DEF Registered, RemoveSequence
<1>3. CASE RemoveSequence(r)
  <2>1. id[r] \in SeqIDs
    BY <1>3 DEF IndInv, HandlersKnown, RemoveSequence
  <2>2. \A i \in SeqIDs : sequences'[i] = IF i = id[r] THEN None ELSE sequences[i]
    BY <1>0, <1>3, <2>1 DEF RemoveSequence
  <2>3. \A q \in Requests : Registered(q)' => Registered(q)
    BY <1>0, <2>2 DEF Registered
  <2>4. ASSUME NEW i \in SeqIDs, sequences[i] = r
        PROVE  i = id[r]
    BY <1>0, <2>4 DEF RegisteredOnce
  <2>5. ~Registered(r)'
    BY <1>0, <2>2, <2>4 DEF Registered
  <2> QED
    BY <2>3, <2>5
<1> QED
  BY <1>1, <1>2, <1>3, HandlerMoves

\* A handler step preserves the invariant.
LEMMA HandlerSerial ==
  ASSUME OneAtATime, KVInv, SerialInv, NEW r \in Requests,
         Submit(r) \/ GiveUp(r) \/ Handler(r)
  PROVE  SerialInv'
<1>1. /\ UNCHANGED <<pc, batch, st, promptDone, pos, gen, gpuKV>>
      /\ \A q \in Requests : q # r => hpc'[q] = hpc[q]
  BY HandlerMoves
<1>2. \A q \in Requests : /\ InBatch(q)' <=> InBatch(q)
                          /\ OwnsCache(q)' <=> OwnsCache(q)
  BY <1>1 DEF InBatch, OwnsCache, InputPos
<1>3. \A q \in Requests : Registered(q)' =>
        Registered(q) \/ (q = r /\ AddSequenceInsert(r))
  BY HandlerRegisters
<1>4. AddSequenceInsert(r) => hpc[r] = "insert"
  BY DEF AddSequenceInsert
<1>5. AddSequenceInsert(r) => st[r] = "Pending"
  BY <1>4 DEF SerialInv, Serial
<1>6. ASSUME NEW q \in Requests, NEW p \in Requests, q \in Active', p \in Active'
      PROVE  q = p
  <2>1. CASE Submit(r)
    <3>1. Active = {}
      BY <2>1, SubmitAlone
    <3>2. \A s \in Requests : s # r => hpc'[s] \in {"idle", "done"}
      BY <1>1, <3>1 DEF Active
    <3> QED
      BY <1>6, <3>2 DEF Active
  <2>2. CASE ~Submit(r)
    <3>1. hpc[r] \notin {"idle", "done"}
      BY <2>2, HandlerMoves
    <3>2. \A s \in Requests : s \in Active' => s \in Active
      BY <1>1, <3>1 DEF Active
    <3> QED
      BY <1>6, <3>2 DEF SerialInv
  <2> QED
    BY <2>1, <2>2
<1>7. ASSUME NEW q \in Requests, NEW p \in Requests, InBatch(q)',
             InBatch(p)' \/ (Registered(p)' /\ st'[p] = "Decoding")
      PROVE  q = p
  BY <1>1, <1>2, <1>3, <1>5, <1>7 DEF SerialInv
<1>8. ASSUME NEW q \in Requests
      PROVE  Serial(q)'
  <2>0. Serial(q)
    BY DEF SerialInv
  <2>1. hpc'[q] \in {"idle", "addkv", "insert"} => st'[q] = "Pending" /\ ~InBatch(q)'
    <3>1. hpc'[q] \in {"idle", "addkv", "insert"} => hpc[q] \in {"idle", "addkv", "insert"}
      BY <1>1, HandlerMoves
    <3> QED
      BY <1>1, <1>2, <2>0, <3>1 DEF Serial
  <2>2. Registered(q)' => hpc'[q] \in {"wake", "recv", "remove"}
    <3>1. CASE q # r
      BY <1>1, <1>3, <2>0, <3>1 DEF Serial
    <3>2. CASE q = r
      <4>1. AddSequenceInsert(r) => hpc'[r] = "wake"
        BY <1>4, HandlerMoves
      <4>2. Registered(r) => hpc[r] \in {"wake", "recv", "remove"}
        BY <2>0, <3>2 DEF Serial
      <4>3. hpc[r] = "remove" => ~Registered(r)'
        BY HandlerMoves, HandlerRegisters
      <4>4. hpc[r] \in {"wake", "recv"} => hpc'[r] \in {"wake", "recv", "remove"}
        BY HandlerMoves
      <4> QED
        BY <1>3, <3>2, <4>1, <4>2, <4>3, <4>4
    <3> QED
      BY <3>1, <3>2
  <2>3. st'[q] = "Pending" => ~promptDone'[q]
    BY <1>1, <2>0 DEF Serial
  <2>4. st'[q] = "Decoding" /\ (Registered(q)' \/ InBatch(q)') => OwnsCache(q)'
    BY <1>1, <1>2, <1>3, <1>5, <2>0 DEF Serial
  <2> QED
    BY <2>1, <2>2, <2>3, <2>4 DEF Serial
<1> QED
  BY <1>6, <1>7, <1>8 DEF SerialInv

\* Nothing is registered but what was: the map loses entries or keeps them.
LEMMA LoopRegisters ==
  ASSUME KVInv, Loop \/ CancelContext \/ UNCHANGED vars
  PROVE  \A r \in Requests : Registered(r)' => Registered(r)
<1>1. CASE Cleanup
  <2>1. \A i \in SeqIDs : sequences'[i] \in {None, sequences[i]}
    BY <1>1 DEF Cleanup
  <2> QED
    BY <2>1, RequestsAssumption DEF Registered
<1>2. CASE ~Cleanup
  <2>1. UNCHANGED sequences
    BY <1>2
    DEF Loop, Collect, RunReturns, LoopSkip, LoopEnd, RunGPUPrefill, DecodeWithGPUKV,
        BeginPaged, PrefillWithPagedKV, DecodeWithPagedKV, LayerError, PagedArenaError,
        GPUArenaError, PassFails, SampleBatch, Yield, WaiterWait, Unpark, CancelContext, vars
  <2> QED
    BY <2>1 DEF Registered
<1> QED
  BY <1>1, <1>2

\* A step of the loop that neither samples nor forms a batch.
LEMMA QuietSerial ==
  ASSUME SerialInv, UNCHANGED <<seqVars, handVars, gpuKV>>,
         \A r \in Requests : Registered(r)' => Registered(r),
         \A r \in Requests : InBatch(r)' => InBatch(r)
  PROVE  SerialInv'
<1>1. \A r \in Requests : OwnsCache(r)' <=> OwnsCache(r)
  BY DEF OwnsCache, InputPos, seqVars
<1>2. UNCHANGED <<st, promptDone, hpc>>
  BY DEF seqVars, handVars
<1>3. \A r \in Requests : Serial(r)'
  BY <1>1, <1>2 DEF SerialInv, Serial
<1> QED
  BY <1>2, <1>3 DEF SerialInv, Active

\* A batch is formed of registered sequences, of which there is one at most.
LEMMA CollectSerial ==
  ASSUME KVInv, SerialInv, Collect
  PROVE  SerialInv'
<1>1. UNCHANGED <<sequences, seqVars, handVars, gpuKV>>
  BY DEF Collect, kvVars
<1>2. \A r \in Requests : /\ OwnsCache(r)' <=> OwnsCache(r)
                          /\ Registered(r)' <=> Registered(r)
  BY <1>1 DEF OwnsCache, InputPos, Registered, seqVars
<1>3. \A r \in Requests : InBatch(r)' => Registered(r)
  <2>1. PICK b \in Batches(Ready) : batch' = b
    BY DEF Collect
  <2>2. \A j \in DOMAIN b : b[j] \in Ready
    BY <2>1 DEF Batches
  <2> QED
    BY <2>1, <2>2 DEF InBatch, Ready
<1>4. \A q, r \in Requests : Registered(q) /\ Registered(r) => q = r
  BY DEF SerialInv, Serial, Active
<1>5. UNCHANGED <<st, promptDone, hpc>>
  BY <1>1 DEF seqVars, handVars
<1>6. \A r \in Requests : Serial(r)'
  BY <1>2, <1>3, <1>5 DEF SerialInv, Serial
<1> QED
  BY <1>2, <1>3, <1>4, <1>5, <1>6 DEF SerialInv, Active

\* The bookkeeping steps of the loop preserve the invariant.
LEMMA BookkeepingSerial ==
  ASSUME CacheMode = "gpu", KVInv, SerialInv,
         \/ Collect \/ RunReturns \/ Cleanup \/ LoopSkip \/ LoopEnd \/ Yield
         \/ WaiterWait \/ Unpark \/ CancelContext \/ UNCHANGED vars
  PROVE  SerialInv'
<1>1. CASE Collect
  BY <1>1, CollectSerial
<1>2. CASE ~Collect
  <2>1. UNCHANGED <<seqVars, handVars, gpuKV>>
    BY <1>2 DEF RunReturns, Cleanup, LoopSkip, LoopEnd, Yield, WaiterWait, Unpark,
                CancelContext, vars, kvVars
  <2>2. \A r \in Requests : Registered(r)' => Registered(r)
    BY LoopRegisters DEF Loop
  <2>3. batch' = batch /\ (pc' \in {"prefill", "decode"} => pc \in {"prefill", "decode"})
    BY <1>2 DEF RunReturns, Cleanup, LoopSkip, LoopEnd, Yield, WaiterWait, Unpark,
                CancelContext, vars, runVars
  <2>4. \A r \in Requests : InBatch(r)' => InBatch(r)
    BY <2>3 DEF InBatch
  <2> QED
    BY <2>1, <2>2, <2>4, QuietSerial
<1> QED
  BY <1>1, <1>2

\* A pass over the single cache runs for the one member of the batch, and
\* leaves it the owner of the cache.
LEMMA PassSerial ==
  ASSUME OneAtATime, KVInv, SerialInv, RunGPUPrefill \/ DecodeWithGPUKV
  PROVE  SerialInv'
<1> USE DEF KVInv
<1>0. PICK c \in Requests : c = Current
  BY CurrentType DEF RunGPUPrefill, DecodeWithGPUKV, InLoop, IndInv
<1>1. InBatch(c)
  <2>1. k \in DOMAIN batch /\ pc \in {"prefill", "decode"}
    BY CurrentOnce DEF RunGPUPrefill, DecodeWithGPUKV, InLoop
  <2> QED
    BY <1>0, <2>1 DEF InBatch, Current
<1>2. PICK after \in {"prefill", "decode"} :
        \/ /\ SamplePrefill(c, after) /\ NeedsPrefill(c)
           /\ gpuKV' = [i \in 1..PromptLen[c] |-> c]
        \/ /\ SampleDecode(c, after) /\ NeedsDecode(c)
           /\ gpuKV' = Append(gpuKV, c)
  BY <1>0 DEF RunGPUPrefill, DecodeWithGPUKV, InLoop, Selected
<1>3. /\ \A q \in Requests : q # c =>
           /\ st'[q] = st[q] /\ promptDone'[q] = promptDone[q]
           /\ gen'[q] = gen[q] /\ pos'[q] = pos[q]
      /\ gen'[c] = gen[c] + 1
      /\ SamplePrefill(c, after) => pos'[c] = PromptLen[c]
      /\ SampleDecode(c, after) => pos'[c] = pos[c] + 1
  BY <1>2, SampleProgress DEF NeedsPrefill
<1>4. /\ batch' = batch /\ UNCHANGED <<sequences, hpc>>
      /\ pc' \in {"prefill", "decode"}
  <2>1. st[c] # "Finished"
    BY <1>2 DEF NeedsPrefill, NeedsDecode
  <2>2. pc' = after
    BY <1>2, <2>1, SampleSafe DEF IndInv, ClosedWhenFinished
  <2> QED
    BY <2>2 DEF RunGPUPrefill, DecodeWithGPUKV, handVars
<1>5. /\ \A q \in Requests : Registered(q)' <=> Registered(q)
      /\ \A q \in Requests : InBatch(q)' <=> InBatch(q)
      /\ Active' = Active
  <2>1. pc \in {"prefill", "decode"}
    BY <1>1 DEF InBatch
  <2> QED
    BY <1>4, <2>1 DEF Registered, InBatch, Active
<1>6. \A q \in Requests : InBatch(q) => q = c
  BY <1>1 DEF SerialInv
<1>7. \A q \in Requests : st[q] = "Decoding" /\ Registered(q) => q = c
  BY <1>1 DEF SerialInv
<1>8. st'[c] # "Pending"
  BY <1>2 DEF SamplePrefill, SampleDecode, Emit, IndInv, TypeOK
<1>9. OwnsCache(c)'
  <2>0. /\ gen[c] \in Nat /\ pos[c] \in Nat /\ gen'[c] # 0
        /\ InputPos(c)' = pos'[c]
    <3>1. gen[c] \in Nat /\ pos[c] \in Nat
      BY DEF IndInv, TypeOK
    <3> QED
      BY <1>3, <3>1 DEF InputPos
  <2>1. CASE SamplePrefill(c, after) /\ gpuKV' = [i \in 1..PromptLen[c] |-> c]
    BY <1>3, <2>0, <2>1 DEF OwnsCache
  <2>2. CASE SampleDecode(c, after) /\ NeedsDecode(c) /\ gpuKV' = Append(gpuKV, c)
    <3>1. st[c] = "Decoding"
      <4>1. st[c] = "Pending" => ~promptDone[c]
        BY Zenon DEF SerialInv, Serial
      <4> QED
        BY <2>2, <4>1, Zenon DEF NeedsDecode
    <3>2. gen[c] > 0
      BY <2>0, <3>1 DEF Progressed
    <3>3. gpuKV = [i \in 1..pos[c] |-> c]
      BY <1>1, <2>0, <3>1, <3>2 DEF SerialInv, Serial, OwnsCache, InputPos
    <3>4. PICK n \in Nat : n = pos[c]
      BY <2>0
    <3>5. Append([i \in 1..n |-> c], c) = [i \in 1..n + 1 |-> c]
      OBVIOUS
    <3>6. InputPos(c)' = n + 1
      BY <1>3, <2>0, <2>2, <3>4
    <3> QED
      BY <2>2, <3>3, <3>4, <3>5, <3>6 DEF OwnsCache
  <2> QED
    BY <1>2, <2>1, <2>2
<1>10. ASSUME NEW q \in Requests PROVE Serial(q)'
  <2>1. CASE q = c
    <3>1. hpc[c] \notin {"idle", "addkv", "insert"}
      BY <1>1 DEF SerialInv, Serial
    <3> QED
      BY <1>4, <1>5, <1>8, <1>9, <2>1, <3>1 DEF Serial, SerialInv
  <2>2. CASE q # c
    <3>1. ~InBatch(q) /\ ~(st[q] = "Decoding" /\ Registered(q))
      BY <1>6, <1>7, <2>2
    <3>2. Serial(q)
      BY DEF SerialInv
    <3> QED
      BY <1>3, <1>4, <1>5, <2>2, <3>1, <3>2 DEF Serial
  <2> QED
    BY <2>1, <2>2
<1>11. \A q, r \in Requests : q \in Active' /\ r \in Active' => q = r
  BY <1>5 DEF SerialInv
<1>12. ASSUME NEW q \in Requests, NEW r \in Requests, InBatch(q)',
              InBatch(r)' \/ (Registered(r)' /\ st'[r] = "Decoding")
       PROVE  q = r
  <2>1. q = c
    BY <1>5, <1>6, <1>12
  <2>2. r = c
    BY <1>3, <1>5, <1>6, <1>7, <1>12
  <2> QED
    BY <2>1, <2>2
<1> QED
  BY <1>10, <1>11, <1>12 DEF SerialInv

\* Every step with the single cache preserves the invariant, until Run returns
\* an error.
LEMMA NextSerial ==
  ASSUME OneAtATime, CacheMode = "gpu", KVInv, pc = "dead" \/ SerialInv, [Next]_vars
  PROVE  pc' = "dead" \/ SerialInv'
<1>1. ASSUME NEW r \in Requests, Submit(r) \/ GiveUp(r) \/ Handler(r), SerialInv
      PROVE  SerialInv'
  BY <1>1, HandlerSerial
<1>2. ~(BeginPaged \/ PrefillWithPagedKV \/ DecodeWithPagedKV \/ LayerError
        \/ PagedArenaError \/ SampleBatch)
  BY DEF BeginPaged, PrefillWithPagedKV, DecodeWithPagedKV, LayerError, PagedArenaError,
         SampleBatch, InLoop, KVInv, PassStarted
<1>3. GPUArenaError => pc' = "dead"
  BY DEF GPUArenaError, PassFails
<1>4. CASE SerialInv
  BY <1>1, <1>2, <1>3, <1>4, BookkeepingSerial, PassSerial DEF Next, Loop
<1>5. CASE pc = "dead"
  <2>1. ASSUME NEW r \in Requests, Submit(r) \/ GiveUp(r) \/ Handler(r)
        PROVE  pc' = pc
    BY <2>1 DEF Submit, GiveUp, Handler, AddSequenceKV, AddSequenceInsert, WakeUp,
                Receive, EndOfStream, RemoveSequence, RemoveSequenceKV, runVars
  <2>2. ASSUME Loop \/ CancelContext \/ UNCHANGED vars
        PROVE  pc' = "dead"
    BY <1>2, <1>5, <2>2
    DEF Loop, Collect, RunReturns, Cleanup, LoopSkip, LoopEnd, RunGPUPrefill,
        DecodeWithGPUKV, GPUArenaError, PassFails, InLoop, Yield, WaiterWait, Unpark,
        CancelContext, vars, runVars
  <2> QED
    BY <1>5, <2>1, <2>2 DEF Next
<1> QED
  BY <1>4, <1>5

\* A GPU decode sees its own context and nothing else when clients come one at
\* a time with prompts (runGPUPrefill, GPUKVCache.Reset), whatever they give up
\* on and whatever IDs they draw; the paged cache has no such decode.
THEOREM SingleCache ==
  ASSUME CacheMode = "gpu" => OneAtATime
  PROVE  Spec => OwnContext
<1> DEFINE Sees == \A r \in Requests :
                     pos'[r] = pos[r] + 1 /\ pc = "decode" =>
                       gpuKV = [i \in 1..InputPos(r) |-> r]
<1>1. ASSUME KVInv, Next, NEW r \in Requests, pos'[r] = pos[r] + 1, pc = "decode"
      PROVE  DecodeWithGPUKV /\ r = Current /\ CacheMode = "gpu"
  <2>1. pos[r] \in Nat
    BY <1>1 DEF KVInv, IndInv, TypeOK
  <2>2. pos' # pos
    BY <1>1, <2>1
  <2>3. ASSUME NEW q \in Requests, Submit(q) \/ GiveUp(q) \/ Handler(q)
        PROVE  FALSE
    BY <1>1, <2>2, <2>3, HandlerMoves
  <2>4. DecodeWithGPUKV
    BY <1>1, <2>2, <2>3
    DEF Next, Loop, Collect, RunReturns, Cleanup, LoopSkip, LoopEnd, RunGPUPrefill,
        BeginPaged, PrefillWithPagedKV, DecodeWithPagedKV, LayerError, PagedArenaError,
        GPUArenaError, PassFails, SampleBatch, InLoop, Yield, WaiterWait, Unpark,
        CancelContext, seqVars
  <2>5. Current \in Requests
    BY <1>1, <2>4, CurrentType DEF DecodeWithGPUKV, InLoop, KVInv, IndInv
  <2>6. pos' = [pos EXCEPT ![Current] = @ + 1]
    BY <2>4 DEF DecodeWithGPUKV, SampleDecode
  <2>7. r = Current
    <3>1. pos \in [Requests -> Nat]
      BY <1>1 DEF KVInv, IndInv, TypeOK
    <3>2. PICK c \in Requests : c = Current
      BY <2>5
    <3>3. pos'[r] = IF r = c THEN pos[c] + 1 ELSE pos[r]
      BY <2>6, <3>1, <3>2
    <3> QED
      BY <1>1, <2>1, <3>2, <3>3
  <2> QED
    BY <2>4, <2>7 DEF DecodeWithGPUKV
<1>2. CASE CacheMode = "gpu"
  <2>0. OneAtATime
    BY <1>2
  <2>1. Init => SerialInv
    BY <2>0, InitSerial
  <2>2. KVInv /\ (pc = "dead" \/ SerialInv) /\ [Next]_vars => (pc = "dead" \/ SerialInv)'
    BY <1>2, <2>0, NextSerial
  <2>3. ASSUME KVInv, pc = "dead" \/ SerialInv, Next PROVE Sees
    <3> SUFFICES ASSUME NEW r \in Requests, pos'[r] = pos[r] + 1, pc = "decode"
                 PROVE  gpuKV = [i \in 1..InputPos(r) |-> r]
      OBVIOUS
    <3>1. DecodeWithGPUKV /\ r = Current
      BY <1>1, <2>3
    <3>2. InBatch(r) /\ NeedsDecode(r)
      <4>1. k \in DOMAIN batch
        BY <2>3, <3>1, CurrentOnce DEF DecodeWithGPUKV, InLoop, KVInv
      <4> QED
        BY <3>1, <4>1 DEF DecodeWithGPUKV, InLoop, Selected, InBatch, Current
    <3>3. st[r] = "Decoding"
      <4>1. st[r] = "Pending" => ~promptDone[r]
        BY <2>3, Zenon DEF SerialInv, Serial
      <4> QED
        BY <3>2, <4>1, Zenon DEF NeedsDecode
    <3> QED
      BY <2>3, <3>2, <3>3 DEF SerialInv, Serial, OwnsCache
  <2>4. KVInv /\ (pc = "dead" \/ SerialInv) /\ [Next]_vars => [Sees]_vars
    BY <2>3
  <2> QED
    BY <2>1, <2>2, <2>4, KVInvariance, PTL DEF Spec, OwnContext
<1>3. CASE CacheMode # "gpu"
  <2>1. ASSUME KVInv, Next PROVE Sees
    BY <1>1, <1>3, <2>1
  <2>2. KVInv /\ [Next]_vars => [Sees]_vars
    BY <2>1
  <2> QED
    BY <2>2, KVInvariance, PTL DEF Spec, OwnContext
<1> QED
  BY <1>2, <1>3
=============================================================================
