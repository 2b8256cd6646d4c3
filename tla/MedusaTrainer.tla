---------------------------- MODULE MedusaTrainer ----------------------------
(***************************************************************************)
(* Online training of the Medusa heads (inference/medusa) beside decoding: *)
(* the goroutine of MedusaScheduler.Run decodes and collects samples, the  *)
(* trainer's own goroutine trains on them, and the main goroutine of the   *)
(* serve or generate command warms the heads up, saves them and at last    *)
(* cancels the context.  They share the GPU (gpuMu), the heads, the ring   *)
(* buffer of samples and the trainer's phase.                              *)
(*                                                                         *)
(* The gradient arithmetic is left out: a training step yields some loss.  *)
(* The k-th (hidden state, token) pair that decoding hands to              *)
(* collectTrainingSample is the number k.                                  *)
(***************************************************************************)
EXTENDS Integers, Sequences, FiniteSetsExt

CONSTANTS
  Configs,        \* records [cmd, cache, gpu, loaded] the commands may run with
  NumHeads,       \* OnlineConfig.NumHeads
  Capacity,       \* OnlineConfig.BufferCapacity
  WarmupSamples,  \* OnlineConfig.WarmupSamples
  BatchSize,      \* OnlineConfig.BatchSize
  MinSteps,       \* minStepsForHot, 10 in the code
  MaxPairs,       \* bound: pairs collected
  MaxSteps,       \* bound: training steps counted
  None            \* no owner of the mutex

ASSUME ConfigAssumption ==
  Configs \subseteq [cmd : {"serve", "generate"}, cache : {"gpu", "paged"},
                     gpu : BOOLEAN, loaded : BOOLEAN]

ASSUME SizeAssumption ==
  /\ NumHeads \in Nat \ {0} /\ Capacity \in Nat \ {0} /\ WarmupSamples \in Nat \ {0}
  /\ BatchSize \in Nat \ {0} /\ MinSteps \in Nat /\ MaxPairs \in Nat
  /\ MaxSteps \in Nat /\ MinSteps <= MaxSteps
  /\ None \notin {"run", "train", "main"}

VARIABLES
  conf,       \* how the command was started
  cancelled,  \* the context is done
  closed,     \* main has returned: Backend.Close released the device
  failed,     \* Run ended because a step failed
  active,     \* the warm-up (or only) sequence is registered and not finished
  removed,    \* main removed that sequence before it finished
  phase,      \* GPUOnlineTrainer.phase: 0 Cold, 1 Warming, 2 Hot
  steps,      \* metrics.TrainingSteps
  loss,       \* metrics.CurrentLoss: "zero", "low" (below 10.2), "high"
  isRunning, stopCh, doneCh,  \* the trainer's flag, and its channels closed or not
  freed,      \* gpuHeads.Free has run
  gpuMu,      \* who holds gpuMu
  ring,       \* RingBuffer [slots, head, count]
  pairs,      \* pairs collected so far
  recent,     \* recentTokens and recentHiddens
  run,        \* where Run is
  promote,    \* AddSample saw a Cold phase and enough samples
  train,      \* where trainingLoop is
  batch,      \* the samples it trains on
  main        \* where the command is

trainerVars == <<phase, steps, loss, isRunning, stopCh, doneCh, freed>>
sampleVars  == <<ring, pairs, recent, promote>>
seqVars     == <<active, removed>>
endVars     == <<cancelled, closed, failed>>
vars == <<conf, endVars, seqVars, trainerVars, gpuMu, sampleVars, run, train, batch, main>>

Cold == 0
Warming == 1
Hot == 2

-----------------------------------------------------------------------------
(* RingBuffer.                                                             *)

\* A sample pairs the oldest hidden state of a window with the window's tokens.
SampleAt(n) == [hidden |-> n, future |-> [i \in 1..NumHeads |-> n + i - 1]]

NoSample == [hidden |-> 0, future |-> <<>>]

NewRingBuffer == [slots |-> [i \in 0..Capacity - 1 |-> NoSample], head |-> 0, count |-> 0]

Add(r, s) ==
  [slots |-> [r.slots EXCEPT ![r.head] = s],
   head  |-> (r.head + 1) % Capacity,
   count |-> IF r.count < Capacity THEN r.count + 1 ELSE r.count]

\* Mutant: the logical index counts from the start of the array.
PhysicalIdx_FromZero(r, i) == i

PhysicalIdx(r, i) == (r.head - r.count + i + Capacity) % Capacity

GetAll(r) == [i \in 1..r.count |-> r.slots[PhysicalIdx(r, i - 1)]]

\* The batches Sample may return: distinct logical indices, as many as asked
\* for or as there are.
SampleBatches(r) ==
  LET n == IF BatchSize > r.count THEN r.count ELSE BatchSize
  IN  {{r.slots[PhysicalIdx(r, i)] : i \in I} : I \in kSubset(n, 0..r.count - 1)}

-----------------------------------------------------------------------------
\* Loaded heads start Hot; without a GPU only loaded heads are supported.
Init ==
  /\ conf \in {c \in Configs : c.gpu \/ c.loaded}
  /\ cancelled = FALSE /\ closed = FALSE /\ failed = FALSE
  /\ active = FALSE /\ removed = FALSE
  /\ phase = IF conf.loaded THEN Hot ELSE Cold
  /\ steps = 0 /\ loss = "zero"
  /\ isRunning = FALSE /\ stopCh = FALSE /\ doneCh = FALSE /\ freed = FALSE
  /\ gpuMu = None
  /\ ring = NewRingBuffer /\ pairs = 0 /\ recent = <<>> /\ promote = FALSE
  /\ run = "start" /\ train = "none" /\ batch = {} /\ main = "start"

\* GPULock and GPUUnlock are no-ops of the CPU trainer.
GPULock(who) == IF conf.gpu THEN gpuMu = None /\ gpuMu' = who ELSE UNCHANGED gpuMu
GPUUnlock == gpuMu' = None

-----------------------------------------------------------------------------
(* MedusaScheduler.Run.                                                    *)

\* Start: isRunning.Swap and the training goroutine.
RunStart ==
  /\ run = "start" /\ run' = "loop"
  /\ isRunning' = TRUE /\ train' = "select"
  /\ UNCHANGED <<conf, endVars, seqVars, phase, steps, loss, stopCh, doneCh, freed,
                 gpuMu, sampleVars, batch, main>>

\* A step with a non-empty batch locks the GPU for all of it.
RunLock ==
  /\ run = "loop" /\ ~cancelled /\ active
  /\ pairs < MaxPairs
  /\ GPULock("run")
  /\ run' = "step"
  /\ UNCHANGED <<conf, endVars, seqVars, trainerVars, sampleVars, train, batch, main>>

\* Mutant: the window is not moved on.
Slide_Never(w) == w

Slide(w) == IF Len(w) >= NumHeads THEN Tail(w) ELSE w

\* Decode (with the heads when they are Hot) and collectTrainingSample.  The
\* sequence may finish with this token.
RunDecode ==
  /\ run = "step" /\ ~(removed /\ conf.cache = "paged")
  /\ LET w == Append(recent, pairs + 1)
         added == Len(w) >= NumHeads
         r == Add(ring, [hidden |-> w[1], future |-> SubSeq(w, 1, NumHeads)])
     IN  /\ pairs' = pairs + 1
         /\ recent' = Slide(w)
         /\ ring' = IF added THEN r ELSE ring
         /\ promote' = (added /\ phase = Cold /\ r.count >= WarmupSamples)
  /\ active' \in {active, FALSE}
  /\ run' = "collected"
  /\ UNCHANGED <<conf, endVars, removed, trainerVars, gpuMu, train, batch, main>>

\* Mutant: AddSample does not ask whether the phase is Cold.
Promotes_AnyPhase == ring.count >= WarmupSamples

\* AddSample found the phase Cold and the buffer full enough.
Promotes == promote

\* The store of the new phase, and the end of the step.
RunUnlock ==
  /\ run = "collected"
  /\ phase' = IF Promotes THEN Warming ELSE phase
  /\ promote' = FALSE
  /\ GPUUnlock
  /\ run' = "loop"
  /\ UNCHANGED <<conf, endVars, seqVars, steps, loss, isRunning, stopCh, doneCh, freed,
                 ring, pairs, recent, train, batch, main>>

\* The forward pass fails: its sequence was deleted from the paged pool.
RunFails ==
  /\ run = "step" /\ removed /\ conf.cache = "paged"
  /\ failed' = TRUE
  /\ GPUUnlock
  /\ run' = "stop"
  /\ UNCHANGED <<conf, cancelled, closed, seqVars, trainerVars, sampleVars, train, batch, main>>

RunCancelled ==
  /\ run = "loop" /\ cancelled
  /\ run' = "stop"
  /\ UNCHANGED <<conf, endVars, seqVars, trainerVars, gpuMu, sampleVars, train, batch, main>>

\* The deferred Stop: close(stopCh), ...
StopSignal ==
  /\ run = "stop" /\ isRunning
  /\ stopCh' = TRUE
  /\ run' = "wait"
  /\ UNCHANGED <<conf, endVars, seqVars, phase, steps, loss, isRunning, doneCh, freed,
                 gpuMu, sampleVars, train, batch, main>>

\* ... wait for doneCh, then free the heads.
StopWait ==
  /\ run = "wait" /\ doneCh
  /\ isRunning' = FALSE
  /\ freed' = conf.gpu
  /\ run' = "done"
  /\ UNCHANGED <<conf, endVars, seqVars, phase, steps, loss, stopCh, doneCh,
                 gpuMu, sampleVars, train, batch, main>>

RunStep == RunStart \/ RunLock \/ RunDecode \/ RunUnlock \/ RunFails
             \/ RunCancelled \/ StopSignal \/ StopWait

-----------------------------------------------------------------------------
(* trainingLoop.                                                           *)

\* Mutant: the loop returns without the deferred close(doneCh).
LoopExit_NoClose ==
  /\ train = "select" /\ (cancelled \/ stopCh)
  /\ train' = "done"
  /\ UNCHANGED <<conf, endVars, seqVars, trainerVars, gpuMu, sampleVars, run, batch, main>>

LoopExit ==
  /\ train = "select" /\ (cancelled \/ stopCh)
  /\ train' = "done" /\ doneCh' = TRUE
  /\ UNCHANGED <<conf, endVars, seqVars, phase, steps, loss, isRunning, stopCh, freed,
                 gpuMu, sampleVars, run, batch, main>>

\* A training tick: trainStep samples a batch; an empty buffer ends it.
TrainTick ==
  /\ train = "select" /\ phase >= Warming /\ ring.count > 0
  /\ steps < MaxSteps
  /\ \E b \in SampleBatches(ring) : batch' = b
  /\ train' = "try"
  /\ UNCHANGED <<conf, endVars, seqVars, trainerVars, gpuMu, sampleVars, run, main>>

\* Mutant: the trainer goes on without the lock.
TryLock_Ignored == TRUE

\* TryLock succeeds; the CPU trainer does not lock.
TryLock == conf.gpu => gpuMu = None

TrainBegin ==
  /\ train = "try" /\ TryLock
  /\ gpuMu' = IF conf.gpu THEN "train" ELSE gpuMu
  /\ train' = "gpu"
  /\ UNCHANGED <<conf, endVars, seqVars, trainerVars, sampleVars, run, batch, main>>

\* Inference is using the GPU: skip this tick.
TrainSkip ==
  /\ train = "try" /\ ~TryLock
  /\ train' = "select" /\ batch' = {}
  /\ UNCHANGED <<conf, endVars, seqVars, trainerVars, gpuMu, sampleVars, run, main>>

\* TrainStep of all heads on the batch, Unlock.
TrainHeads ==
  /\ train = "gpu"
  /\ gpuMu' = IF conf.gpu THEN None ELSE gpuMu
  /\ train' = "record"
  /\ UNCHANGED <<conf, endVars, seqVars, trainerVars, sampleVars, run, batch, main>>

\* The loss, then the step count.
TrainRecord ==
  /\ train = "record"
  /\ \E l \in {"zero", "low", "high"} : loss' = l
  /\ steps' = steps + 1
  /\ train' = "select" /\ batch' = {}
  /\ UNCHANGED <<conf, endVars, seqVars, phase, isRunning, stopCh, doneCh, freed,
                 gpuMu, sampleVars, run, main>>

\* The evaluation tick's test for the Hot phase.  The CPU trainer asks head
\* 0's accuracy instead, which may be anything.
ReadyForHot ==
  /\ phase = Warming
  /\ conf.gpu => steps >= MinSteps /\ loss = "low"

EvalTick ==
  /\ train = "select" /\ ReadyForHot
  /\ phase' = Hot
  /\ UNCHANGED <<conf, endVars, seqVars, steps, loss, isRunning, stopCh, doneCh, freed,
                 gpuMu, sampleVars, run, train, batch, main>>

TrainerStep == LoopExit \/ TrainTick \/ TrainBegin \/ TrainSkip \/ TrainHeads
                 \/ TrainRecord \/ EvalTick

-----------------------------------------------------------------------------
(* runServe and runGenerate.  Loaded heads are not warmed up, nor saved.   *)

\* The first sequence: a warm-up prompt of serve, the prompt of generate.
MainBegin ==
  /\ main = "start" /\ run # "start"
  /\ active' = TRUE
  /\ main' = "stream"
  /\ UNCHANGED <<conf, endVars, removed, trainerVars, gpuMu, sampleVars, run, train, batch>>

AfterStream == IF conf.loaded THEN "serve" ELSE "save"

\* The stream ended; nobody removes the sequence of generate, but it is not
\* ready any more.
MainStreamed ==
  /\ main = "stream" /\ ~active
  /\ main' = AfterStream
  /\ UNCHANGED <<conf, endVars, seqVars, trainerVars, gpuMu, sampleVars, run, train, batch>>

\* The warm-up has its tokens and removes the sequence in the middle of it.
\* The step under way goes on with it.
MainEnough ==
  /\ main = "stream" /\ active /\ conf.cmd = "serve"
  /\ active' = FALSE /\ removed' = TRUE
  /\ main' = AfterStream
  /\ UNCHANGED <<conf, endVars, trainerVars, gpuMu, sampleVars, run, train, batch>>

\* SaveHeads: GPULock, read the weights back, GPUUnlock.
MainSaveLock ==
  /\ main = "save" /\ GPULock("main")
  /\ main' = "saving"
  /\ UNCHANGED <<conf, endVars, seqVars, trainerVars, sampleVars, run, train, batch>>

MainSaved ==
  /\ main = "saving" /\ GPUUnlock
  /\ main' = "serve"
  /\ UNCHANGED <<conf, endVars, seqVars, trainerVars, sampleVars, run, train, batch>>

\* Requests of the running server.
MainRequest ==
  /\ main = "serve" /\ conf.cmd = "serve" /\ ~active /\ ~removed
  /\ active' = TRUE
  /\ UNCHANGED <<conf, endVars, removed, trainerVars, gpuMu, sampleVars, run, train, batch, main>>

\* The signal handler, or the end of generate.
MainCancel ==
  /\ main = "serve" /\ ~cancelled
  /\ cancelled' = TRUE
  /\ main' = "return"
  /\ UNCHANGED <<conf, closed, failed, seqVars, trainerVars, gpuMu, sampleVars, run, train, batch>>

\* The deferred gpuBackend.Close; nobody waits for the other goroutines.
MainReturn ==
  /\ main = "return" /\ closed' = TRUE
  /\ main' = "done"
  /\ UNCHANGED <<conf, cancelled, failed, seqVars, trainerVars, gpuMu, sampleVars, run, train, batch>>

MainStep == MainBegin \/ MainStreamed \/ MainEnough \/ MainSaveLock \/ MainSaved
              \/ MainRequest \/ MainCancel \/ MainReturn

-----------------------------------------------------------------------------
Next == RunStep \/ TrainerStep \/ MainStep

\* Goroutines that can run do.  A blocking Lock is strong: Go's mutex hands
\* itself to a starving waiter.  The ticker and the context are in one select,
\* which chooses at random among the ready cases.
Fairness ==
  /\ WF_vars(RunStep) /\ SF_vars(RunLock)
  /\ WF_vars(TrainerStep) /\ SF_vars(LoopExit)
  /\ SF_vars(MainSaveLock) /\ WF_vars(MainSaved)

Spec == Init /\ [][Next]_vars /\ Fairness

-----------------------------------------------------------------------------
Sample == [hidden : 1..MaxPairs, future : Seq(1..MaxPairs + NumHeads)]

TypeOK ==
  /\ conf \in Configs
  /\ cancelled \in BOOLEAN /\ closed \in BOOLEAN /\ failed \in BOOLEAN
  /\ active \in BOOLEAN /\ removed \in BOOLEAN
  /\ phase \in Cold..Hot /\ steps \in 0..MaxSteps /\ loss \in {"zero", "low", "high"}
  /\ isRunning \in BOOLEAN /\ stopCh \in BOOLEAN /\ doneCh \in BOOLEAN /\ freed \in BOOLEAN
  /\ gpuMu \in {None, "run", "train", "main"}
  /\ ring.slots \in [0..Capacity - 1 -> Sample \cup {NoSample}]
  /\ ring.head \in 0..Capacity - 1 /\ ring.count \in 0..Capacity
  /\ pairs \in 0..MaxPairs /\ promote \in BOOLEAN
  /\ recent \in Seq(1..MaxPairs) /\ Len(recent) < NumHeads
  /\ run \in {"start", "loop", "step", "collected", "stop", "wait", "done"}
  /\ train \in {"none", "select", "try", "gpu", "record", "done"}
  /\ batch \subseteq Sample
  /\ main \in {"start", "stream", "save", "saving", "serve", "return", "done"}

\* The ring buffer holds the newest samples, oldest first, however often it
\* has wrapped around, and each sample pairs a hidden state with the NumHeads
\* tokens that were collected from it on; a batch that training still works
\* on is made of such samples too (collectTrainingSample, AddSample, Sample).
RingIsSuffix ==
  LET total == IF pairs < NumHeads THEN 0 ELSE pairs - NumHeads + 1
      n     == IF total < Capacity THEN total ELSE Capacity
  IN  /\ GetAll(ring) = [i \in 1..n |-> SampleAt(total - n + i)]
      /\ \A s \in batch : s = SampleAt(s.hidden)

\* The goroutines that encode Metal commands or touch the heads' buffers.
OnGPU == (IF run \in {"step", "collected"} THEN {"run"} ELSE {})
           \cup (IF train = "gpu" THEN {"train"} ELSE {})
           \cup (IF main = "saving" THEN {"main"} ELSE {})

\* Decoding, training and saving never use the GPU at the same time, each
\* holds gpuMu while it does, and unless Run has died of an error nobody uses
\* heads that Stop has freed: cancellation comes after the heads were saved,
\* and Stop waits for the training goroutine.
GPUSafe ==
  conf.gpu =>
    /\ \A g \in OnGPU : gpuMu = g
    /\ ~failed /\ freed => OnGPU = {}

\* AddSample stores a phase it chose from an older read, while the training
\* goroutine stores phases of its own; still the phase never moves back.
PhaseForward == [][phase' >= phase]_vars

\* SaveHeads gets the GPU however busy decoding and training are, and after
\* the context is cancelled Run and the training goroutine both end: Stop
\* cannot wait for a trainer that waits for the GPU.
Progress ==
  /\ main = "save" ~> main = "serve"
  /\ cancelled ~> run = "done" /\ train = "done"

=============================================================================
