------------------------- MODULE MedusaTrainerProofs -------------------------
(***************************************************************************)
(* For every size of the buffers, number of heads, warm-up threshold and   *)
(* set of configurations: the goroutines that decode, train and save share *)
(* the GPU safely, the trainer's phase only moves forward, and the ring    *)
(* buffer holds the newest samples in order.                               *)
(***************************************************************************)
EXTENDS MedusaTrainer, TLAPS

\* What control needs of the types.
Kinds ==
  /\ conf \in Configs
  /\ cancelled \in BOOLEAN /\ failed \in BOOLEAN
  /\ doneCh \in BOOLEAN /\ freed \in BOOLEAN
  /\ phase \in {Cold, Warming, Hot}
  /\ promote \in BOOLEAN

\* AddSample's read of the phase is still true when it stores the new one:
\* only AddSample itself leaves Cold.
PromoteFromCold == promote => phase = Cold

\* Whoever is on the GPU holds the mutex.
Exclusive == conf.gpu => \A g \in OnGPU : gpuMu = g

\* Run stops only after a failure or after main, which has then saved the
\* heads, has cancelled the context; and the heads are freed only once the
\* training goroutine has closed doneCh, its last act.
OrderlyStop ==
  /\ run \in {"stop", "wait", "done"} /\ ~failed => cancelled
  /\ cancelled => main \in {"return", "done"}
  /\ freed => run = "done" /\ doneCh
  /\ doneCh => train = "done"
  /\ run = "start" => train = "none"

\* The inductive invariant.
SafeInv == Kinds /\ PromoteFromCold /\ Exclusive /\ OrderlyStop

\* The invariant holds when the command starts.
LEMMA SafeInit == Init => SafeInv
  <1> SUFFICES ASSUME Init PROVE SafeInv
    OBVIOUS
  <1>1. conf.loaded \in BOOLEAN
    BY ConfigAssumption DEF Init
  <1>2. Kinds /\ PromoteFromCold
    BY <1>1 DEF Init, Kinds, PromoteFromCold, Cold, Warming, Hot
  <1>3. Exclusive /\ OrderlyStop
    BY DEF Init, Exclusive, OrderlyStop, OnGPU
  <1> QED BY <1>2, <1>3 DEF SafeInv

\* Every step of MedusaScheduler.Run and of Stop keeps it.
LEMMA SafeRun == SafeInv /\ RunStep => SafeInv'
  <1> SUFFICES ASSUME SafeInv, RunStep PROVE SafeInv'
    OBVIOUS
  <1> USE DEF SafeInv, endVars, seqVars, trainerVars, sampleVars
  <1>0. conf.gpu \in BOOLEAN /\ None \notin {"run", "train", "main"}
    BY ConfigAssumption, SizeAssumption DEF Kinds
  <1>1. CASE RunStart
    BY <1>0, <1>1 DEF RunStart, Kinds, PromoteFromCold, Exclusive, OrderlyStop, OnGPU
  <1>2. CASE RunLock
    BY <1>0, <1>2 DEF RunLock, GPULock, Kinds, PromoteFromCold, Exclusive, OrderlyStop, OnGPU
  <1>3. CASE RunDecode
    <2>1. promote' \in BOOLEAN /\ PromoteFromCold'
      BY <1>3 DEF RunDecode, PromoteFromCold, Kinds
    <2>2. Kinds' /\ Exclusive' /\ OrderlyStop'
      BY <1>3, <2>1 DEF RunDecode, Kinds, Exclusive, OrderlyStop, OnGPU
    <2> QED BY <2>1, <2>2
  <1>4. CASE RunUnlock
    BY <1>0, <1>4 DEF RunUnlock, GPUUnlock, Promotes, Kinds, PromoteFromCold, Exclusive,
                      OrderlyStop, OnGPU, Cold, Warming, Hot
  <1>5. CASE RunFails
    BY <1>0, <1>5 DEF RunFails, GPUUnlock, Kinds, PromoteFromCold, Exclusive, OrderlyStop, OnGPU
  <1>6. CASE RunCancelled
    BY <1>0, <1>6 DEF RunCancelled, Kinds, PromoteFromCold, Exclusive, OrderlyStop, OnGPU
  <1>7. CASE StopSignal
    BY <1>0, <1>7 DEF StopSignal, Kinds, PromoteFromCold, Exclusive, OrderlyStop, OnGPU
  <1>8. CASE StopWait
    BY <1>0, <1>8 DEF StopWait, Kinds, PromoteFromCold, Exclusive, OrderlyStop, OnGPU
  <1> QED BY <1>1, <1>2, <1>3, <1>4, <1>5, <1>6, <1>7, <1>8 DEF RunStep

\* Every step of trainingLoop keeps it.
LEMMA SafeTrainer == SafeInv /\ TrainerStep => SafeInv'
  <1> SUFFICES ASSUME SafeInv, TrainerStep PROVE SafeInv'
    OBVIOUS
  <1> USE DEF SafeInv, endVars, seqVars, trainerVars, sampleVars
  <1>0. conf.gpu \in BOOLEAN /\ None \notin {"run", "train", "main"}
    BY ConfigAssumption, SizeAssumption DEF Kinds
  <1>1. CASE LoopExit
    BY <1>0, <1>1 DEF LoopExit, Kinds, PromoteFromCold, Exclusive, OrderlyStop, OnGPU
  <1>2. CASE TrainTick
    BY <1>0, <1>2 DEF TrainTick, Kinds, PromoteFromCold, Exclusive, OrderlyStop, OnGPU
  <1>3. CASE TrainBegin
    BY <1>0, <1>3 DEF TrainBegin, TryLock, Kinds, PromoteFromCold, Exclusive, OrderlyStop, OnGPU
  <1>4. CASE TrainSkip
    BY <1>0, <1>4 DEF TrainSkip, Kinds, PromoteFromCold, Exclusive, OrderlyStop, OnGPU
  <1>5. CASE TrainHeads
    BY <1>0, <1>5 DEF TrainHeads, Kinds, PromoteFromCold, Exclusive, OrderlyStop, OnGPU
  <1>6. CASE TrainRecord
    BY <1>0, <1>6 DEF TrainRecord, Kinds, PromoteFromCold, Exclusive, OrderlyStop, OnGPU
  <1>7. CASE EvalTick
    BY <1>0, <1>7 DEF EvalTick, ReadyForHot, Kinds, PromoteFromCold, Exclusive, OrderlyStop,
                      OnGPU, Cold, Warming, Hot
  <1> QED BY <1>1, <1>2, <1>3, <1>4, <1>5, <1>6, <1>7 DEF TrainerStep

\* Every step of the serve or generate command keeps it.
LEMMA SafeMain == SafeInv /\ MainStep => SafeInv'
  <1> SUFFICES ASSUME SafeInv, MainStep PROVE SafeInv'
    OBVIOUS
  <1> USE DEF SafeInv, endVars, seqVars, trainerVars, sampleVars
  <1>0. conf.gpu \in BOOLEAN /\ None \notin {"run", "train", "main"}
    BY ConfigAssumption, SizeAssumption DEF Kinds
  <1>1. CASE MainBegin
    BY <1>0, <1>1 DEF MainBegin, Kinds, PromoteFromCold, Exclusive, OrderlyStop, OnGPU
  <1>2. CASE MainStreamed
    BY <1>0, <1>2 DEF MainStreamed, AfterStream, Kinds, PromoteFromCold, Exclusive, OrderlyStop, OnGPU
  <1>3. CASE MainEnough
    BY <1>0, <1>3 DEF MainEnough, AfterStream, Kinds, PromoteFromCold, Exclusive, OrderlyStop, OnGPU
  <1>4. CASE MainSaveLock
    BY <1>0, <1>4 DEF MainSaveLock, GPULock, Kinds, PromoteFromCold, Exclusive, OrderlyStop, OnGPU
  <1>5. CASE MainSaved
    BY <1>0, <1>5 DEF MainSaved, GPUUnlock, Kinds, PromoteFromCold, Exclusive, OrderlyStop, OnGPU
  <1>6. CASE MainRequest
    BY <1>0, <1>6 DEF MainRequest, Kinds, PromoteFromCold, Exclusive, OrderlyStop, OnGPU
  <1>7. CASE MainCancel
    BY <1>0, <1>7 DEF MainCancel, Kinds, PromoteFromCold, Exclusive, OrderlyStop, OnGPU
  <1>8. CASE MainReturn
    BY <1>0, <1>8 DEF MainReturn, Kinds, PromoteFromCold, Exclusive, OrderlyStop, OnGPU
  <1> QED BY <1>1, <1>2, <1>3, <1>4, <1>5, <1>6, <1>7, <1>8 DEF MainStep

\* Every step of the three goroutines keeps it.
LEMMA SafeNext == SafeInv /\ [Next]_vars => SafeInv'
  <1> SUFFICES ASSUME SafeInv, [Next]_vars PROVE SafeInv'
    OBVIOUS
  <1>1. CASE Next
    BY <1>1, SafeRun, SafeTrainer, SafeMain DEF Next
  <1>2. CASE UNCHANGED vars
    BY <1>2 DEF vars, endVars, trainerVars, sampleVars, SafeInv, Kinds, PromoteFromCold,
                Exclusive, OrderlyStop, OnGPU
  <1> QED BY <1>1, <1>2

\* The inductive invariant holds in every reachable state.
THEOREM SafeInvariance == Spec => []SafeInv
  BY SafeInit, SafeNext, PTL DEF Spec

\* GPUSafe, for every configuration: decoding, training and saving exclude
\* each other on the GPU, and unless Run died of an error nobody uses heads
\* that Stop has freed.
THEOREM GPUSafety == Spec => []GPUSafe
  <1>1. SafeInv => GPUSafe
    BY DEF SafeInv, Exclusive, OrderlyStop, GPUSafe, OnGPU
  <1> QED BY <1>1, SafeInvariance, PTL

\* PhaseForward: although AddSample stores a phase chosen from an earlier
\* read while the training goroutine promotes the heads, no step moves the
\* phase back.
THEOREM PhasesAdvance == Spec => PhaseForward
  <1>1. SafeInv /\ [Next]_vars => [phase' >= phase]_vars
    <2> SUFFICES ASSUME SafeInv, Next PROVE phase' >= phase
      OBVIOUS
    <2> USE DEF SafeInv, Kinds, Cold, Warming, Hot, trainerVars
    <2>1. CASE RunUnlock
      BY <2>1 DEF RunUnlock, Promotes, PromoteFromCold
    <2>2. CASE EvalTick
      BY <2>2 DEF EvalTick, ReadyForHot
    <2>3. CASE ~RunUnlock /\ ~EvalTick
      <3>1. phase' = phase
        BY <2>3 DEF Next, RunStep, TrainerStep, MainStep, RunStart, RunLock, RunDecode, RunFails,
             RunCancelled, StopSignal, StopWait, LoopExit, TrainTick, TrainBegin, TrainSkip,
             TrainHeads, TrainRecord, MainBegin, MainStreamed, MainEnough, MainSaveLock,
             MainSaved, MainRequest, MainCancel, MainReturn
      <3> QED BY <3>1
    <2> QED BY <2>1, <2>2, <2>3
  <1> QED BY <1>1, SafeInvariance, PTL DEF Spec, PhaseForward

-----------------------------------------------------------------------------
(* The types and the ring buffer, for every capacity, number of heads,     *)
(* batch size and number of collected pairs: the buffer that               *)
(* collectTrainingSample fills holds the newest samples in order, however  *)
(* often it wraps, and training only sees such samples.                    *)

\* The window of pairs still waiting for their future tokens: the newest
\* pairs, at most NumHeads - 1 of them.
WindowLen == IF pairs < NumHeads THEN pairs ELSE NumHeads - 1

Window == recent = [i \in 1..WindowLen |-> pairs - WindowLen + i]

\* The samples ever added, and how many of them the ring still has.
Total == IF pairs < NumHeads THEN 0 ELSE pairs - NumHeads + 1
Stored == IF Total < Capacity THEN Total ELSE Capacity

\* The slot of logical index i, without the remainder.
SlotOf(h, n, i) == IF h - n + i < 0 THEN h - n + i + Capacity ELSE h - n + i

\* With head h and count n the slots hold the last n of t samples, oldest first.
Ordered(slots, h, n, t) ==
  \A i \in 0..n - 1 : slots[SlotOf(h, n, i)] = SampleAt(t - n + i + 1)

\* The ring holds the newest samples in order.
RingOrder ==
  /\ ring = [slots |-> ring.slots, head |-> ring.head, count |-> ring.count]
  /\ ring.slots \in [0..Capacity - 1 -> Sample \cup {NoSample}]
  /\ ring.head \in 0..Capacity - 1
  /\ ring.count = Stored
  /\ Ordered(ring.slots, ring.head, Stored, Total)

\* The bounds are respected: a step that will count was let through below them.
Bounded ==
  /\ run = "step" => pairs < MaxPairs
  /\ train \in {"try", "gpu", "record"} => steps < MaxSteps

\* The rest of the types.
Flags ==
  /\ closed \in BOOLEAN /\ active \in BOOLEAN /\ removed \in BOOLEAN
  /\ isRunning \in BOOLEAN /\ stopCh \in BOOLEAN

\* The owner of the mutex, counters and places in the code.
Simple ==
  /\ steps \in 0..MaxSteps /\ loss \in {"zero", "low", "high"}
  /\ gpuMu \in {None, "run", "train", "main"}
  /\ pairs \in 0..MaxPairs
  /\ run \in {"start", "loop", "step", "collected", "stop", "wait", "done"}
  /\ train \in {"none", "select", "try", "gpu", "record", "done"}
  /\ main \in {"start", "stream", "save", "saving", "serve", "return", "done"}

\* A batch under training was cut from the ring when it was sampled.
BatchSound == \A s \in batch : s \in Sample /\ s = SampleAt(s.hidden)

\* The inductive invariant.
RingInv == Flags /\ Simple /\ Bounded /\ Window /\ RingOrder /\ BatchSound

-----------------------------------------------------------------------------
(* The ring's arithmetic.                                                  *)

\* A remainder of a number below twice the capacity.
LEMMA SmallRemainder ==
  ASSUME NEW C \in Nat \ {0}, NEW x \in 0..2 * C - 1
  PROVE  x % C = IF x < C THEN x ELSE x - C
<1>1. ASSUME NEW q \in Int, NEW r \in 0..C - 1
      PROVE  (q * C + r) % C = r
  OBVIOUS
<1>2. CASE x < C
  <2>1. x \in 0..C - 1 /\ 0 * C + x = x
    BY <1>2
  <2> QED
    BY <1>1, <1>2, <2>1
<1>3. CASE x >= C
  <2>1. x - C \in 0..C - 1 /\ 1 * C + (x - C) = x
    BY <1>3
  <2>2. (1 * C + (x - C)) % C = x - C
    BY <1>1, <2>1
  <2> QED
    BY <1>3, <2>1, <2>2
<1> QED
  BY <1>2, <1>3

\* physicalIdx is SlotOf for a logical index of the ring.
LEMMA PhysicalIdxIs ==
  ASSUME NEW r, r.head \in 0..Capacity - 1, r.count \in 0..Capacity,
         NEW i \in 0..r.count - 1
  PROVE  /\ PhysicalIdx(r, i) = SlotOf(r.head, r.count, i)
         /\ PhysicalIdx(r, i) \in 0..Capacity - 1
<1>1. PICK h \in 0..Capacity - 1, n \in 0..Capacity : h = r.head /\ n = r.count
  OBVIOUS
<1>2. Capacity \in Nat \ {0}
  BY SizeAssumption
<1>3. PICK x \in 0..2 * Capacity - 1 : x = h - n + i + Capacity
  BY <1>1, <1>2
<1>4. x % Capacity = IF x < Capacity THEN x ELSE x - Capacity
  BY <1>2, <1>3, SmallRemainder
<1>5. PhysicalIdx(r, i) = (h - n + i + Capacity) % Capacity
  BY <1>1 DEF PhysicalIdx
<1>6. SlotOf(r.head, r.count, i) = SlotOf(h, n, i)
  BY <1>1
<1>7. i \in 0..n - 1 /\ h - n + i \in Int
  BY <1>1, <1>2
<1>8. x % Capacity = SlotOf(h, n, i) /\ SlotOf(h, n, i) \in 0..Capacity - 1
  BY <1>2, <1>3, <1>4, <1>7 DEF SlotOf
<1> QED
  BY <1>3, <1>5, <1>6, <1>8

\* A sample made of collected pairs is a sample.
LEMMA SampleAtType ==
  ASSUME NEW n \in 1..MaxPairs
  PROVE  SampleAt(n) \in Sample /\ SampleAt(n).hidden = n
<1>1. [i \in 1..NumHeads |-> n + i - 1] \in Seq(1..MaxPairs + NumHeads)
  BY SizeAssumption
<1> QED
  BY <1>1 DEF SampleAt, Sample

\* The ring's view by logical index.
LEMMA RingRead ==
  ASSUME RingOrder, pairs \in 0..MaxPairs, NEW i \in 0..ring.count - 1
  PROVE  ring.slots[PhysicalIdx(ring, i)] = SampleAt(Total - Stored + i + 1)
<1>1. Total \in 0..MaxPairs /\ Stored \in 0..Capacity /\ Stored <= Total
  BY SizeAssumption DEF Total, Stored
<1>2. ring.head \in 0..Capacity - 1 /\ ring.count \in 0..Capacity /\ i \in 0..Stored - 1
  BY <1>1 DEF RingOrder
<1>3. PhysicalIdx(ring, i) = SlotOf(ring.head, ring.count, i)
  BY <1>2, PhysicalIdxIs
<1> QED
  BY <1>2, <1>3 DEF RingOrder, Ordered

\* Add keeps the order: the new sample is the newest, and it overwrites the
\* oldest one exactly when the ring is full.
LEMMA AddKeeps ==
  ASSUME NEW h \in 0..Capacity - 1, NEW t \in Nat, NEW S,
         NEW slots \in [0..Capacity - 1 -> S], NEW n \in 0..Capacity,
         n = IF t < Capacity THEN t ELSE Capacity,
         Ordered(slots, h, n, t),
         NEW m \in 0..Capacity, m = IF n < Capacity THEN n + 1 ELSE n,
         NEW k \in 0..Capacity - 1, k = (h + 1) % Capacity
  PROVE  Ordered([slots EXCEPT ![h] = SampleAt(t + 1)], k, m, t + 1)
<1> SUFFICES ASSUME NEW i \in 0..m - 1
             PROVE  [slots EXCEPT ![h] = SampleAt(t + 1)][SlotOf(k, m, i)]
                      = SampleAt((t + 1) - m + i + 1)
  BY DEF Ordered
<1>0. \A j \in 0..n - 1 : slots[SlotOf(h, n, j)] = SampleAt(t - n + j + 1)
  BY DEF Ordered
<1>1. Capacity \in Nat \ {0}
  BY SizeAssumption
<1>2. k = IF h + 1 < Capacity THEN h + 1 ELSE 0
  <2>1. PICK x \in 0..2 * Capacity - 1 : x = h + 1
    BY <1>1
  <2>2. x % Capacity = IF x < Capacity THEN x ELSE x - Capacity
    BY <1>1, SmallRemainder
  <2> QED
    BY <1>1, <2>1, <2>2
<1>3. SlotOf(k, m, i) \in 0..Capacity - 1
  BY <1>1, SMTT(30) DEF SlotOf
<1>4. CASE i = m - 1
  <2>1. SlotOf(k, m, i) = h
    BY <1>1, <1>2, <1>4 DEF SlotOf
  <2>2. (t + 1) - m + i + 1 = t + 1
    BY <1>1, <1>4
  <2> QED
    BY <2>1, <2>2
<1>5. CASE i # m - 1 /\ n < Capacity
  <2>1. m = n + 1 /\ i \in 0..n - 1
    BY <1>1, <1>5
  <2>2. SlotOf(k, m, i) = SlotOf(h, n, i) /\ SlotOf(k, m, i) # h
    <3>1. CASE h + 1 < Capacity
      BY <1>1, <1>2, <1>5, <2>1, <3>1 DEF SlotOf
    <3>2. CASE h + 1 = Capacity
      BY <1>1, <1>2, <1>5, <2>1, <3>2 DEF SlotOf
    <3> QED
      BY <1>1, <3>1, <3>2
  <2>3. (t + 1) - m + i + 1 = t - n + i + 1
    BY <1>1, <2>1
  <2> QED
    BY <1>0, <1>3, <2>1, <2>2, <2>3
<1>6. CASE i # m - 1 /\ n = Capacity
  <2>1. m = n /\ i + 1 \in 0..n - 1
    BY <1>1, <1>6
  <2>2. SlotOf(k, m, i) = SlotOf(h, n, i + 1) /\ SlotOf(k, m, i) # h
    BY <1>1, <1>2, <1>6, <2>1, SMTT(30) DEF SlotOf
  <2>3. (t + 1) - m + i + 1 = t - n + (i + 1) + 1
    BY <1>1, <2>1
  <2> QED
    BY <1>0, <1>3, <2>1, <2>2, <2>3
<1> QED
  BY <1>1, <1>4, <1>5, <1>6

-----------------------------------------------------------------------------
(* The actions.                                                            *)

\* Before anything is collected the window and the ring are empty.
LEMMA RingInit == Init => RingInv
<1> SUFFICES ASSUME Init PROVE RingInv
  OBVIOUS
<1>0. 0 \in 0..MaxSteps /\ 0 \in 0..MaxPairs
  BY SizeAssumption
<1>1. Flags /\ Simple /\ Bounded /\ BatchSound
  BY <1>0, Zenon DEF Init, Flags, Simple, Bounded, BatchSound
<1>2. WindowLen = 0 /\ Total = 0 /\ Stored = 0
  BY SizeAssumption DEF Init, WindowLen, Total, Stored
<1>3. Window
  BY <1>2 DEF Init, Window
<1>4. RingOrder
  <2>1. ring = NewRingBuffer
    BY DEF Init
  <2>2. [i \in 0..Capacity - 1 |-> NoSample] \in [0..Capacity - 1 -> Sample \cup {NoSample}]
    OBVIOUS
  <2> QED
    BY <1>2, <2>1, <2>2, SizeAssumption DEF NewRingBuffer, RingOrder, Ordered
<1> QED
  BY <1>1, <1>3, <1>4 DEF RingInv

\* A sequence of consecutive numbers.
LEMMA Consecutive ==
  ASSUME NEW n \in Nat, NEW p \in Int, NEW m \in Int, NEW u \in Seq(Int),
         Len(u) = n, \A i \in 1..n : u[i] = p - m + i
  PROVE  u = [i \in 1..n |-> p - m + i]
  OBVIOUS

\* The window with the pair just decoded.
LEMMA WindowGrows ==
  ASSUME Window, pairs \in 0..MaxPairs, NEW w, w = Append(recent, pairs + 1)
  PROVE  /\ Len(w) = WindowLen + 1
         /\ w = [i \in 1..WindowLen + 1 |-> pairs - WindowLen + i]
<1>1. PICK n \in Nat : n = WindowLen /\ n <= pairs
  BY SizeAssumption DEF WindowLen
<1>2. PICK p \in Nat : p = pairs
  BY SizeAssumption
<1>3. recent \in Seq(Int) /\ Len(recent) = n /\ \A i \in 1..n : recent[i] = p - n + i
  BY <1>1, <1>2 DEF Window
<1>4. w \in Seq(Int) /\ Len(w) = n + 1
  BY <1>2, <1>3
<1>5. \A i \in 1..n + 1 : w[i] = p - n + i
  BY <1>1, <1>2, <1>3
<1> QED
  BY <1>1, <1>2, <1>4, <1>5

\* A decode: the window slides, and a full one becomes the newest sample.
LEMMA RingDecode == RingInv /\ RunDecode => Window' /\ RingOrder'
<1> SUFFICES ASSUME RingInv, RunDecode PROVE Window' /\ RingOrder'
  OBVIOUS
<1> DEFINE w == Append(recent, pairs + 1)
           r == Add(ring, [hidden |-> w[1], future |-> SubSeq(w, 1, NumHeads)])
<1>0. NumHeads \in Nat \ {0} /\ Capacity \in Nat \ {0} /\ MaxPairs \in Nat
  BY SizeAssumption
<1>1. PICK p \in Nat : p = pairs /\ p < MaxPairs
  BY <1>0 DEF RingInv, Bounded, RunDecode, Simple
<1>2. pairs' = p + 1 /\ recent' = Slide(w) /\ ring' = IF Len(w) >= NumHeads THEN r ELSE ring
  BY <1>1 DEF RunDecode
<1>3. PICK n \in Nat : n = WindowLen /\ n <= p /\ n < NumHeads
  BY <1>0, <1>1 DEF WindowLen
<1>4. Len(w) = n + 1 /\ w = [i \in 1..n + 1 |-> p - n + i]
  BY <1>0, <1>1, <1>3, WindowGrows DEF RingInv, Simple
<1> HIDE DEF w
<1>5. w \in Seq(Int)
  BY <1>1, <1>3, <1>4
<1>6. CASE n + 1 < NumHeads
  <2>1. n = p /\ WindowLen' = n + 1 /\ Total' = 0 /\ Total = 0
    BY <1>0, <1>1, <1>2, <1>3, <1>6 DEF WindowLen, Total
  <2>2. recent' = w /\ ring' = ring
    BY <1>0, <1>2, <1>4, <1>6 DEF Slide
  <2>3. Window'
    BY <1>2, <1>4, <2>1, <2>2 DEF Window
  <2>4. Stored' = Stored
    BY <2>1 DEF Stored
  <2>5. RingOrder
    BY DEF RingInv
  <2>6. RingOrder'
    BY <2>1, <2>2, <2>4, <2>5 DEF RingOrder
  <2> QED
    BY <2>3, <2>6
<1>7. CASE n + 1 = NumHeads
  <2>1. WindowLen' = n /\ Total' = p + 1 - n /\ Total = p - n
    BY <1>0, <1>1, <1>2, <1>3, <1>7 DEF WindowLen, Total
  <2>2. recent' = Tail(w) /\ ring' = r
    BY <1>0, <1>2, <1>4, <1>7 DEF Slide
  <2>3. PICK q \in Int : q = p + 1
    BY <1>1
  <2>4. Window'
    <3>1. Tail(w) \in Seq(Int) /\ Len(Tail(w)) = n
      BY <1>3, <1>4, <1>5, SMTT(30)
    <3>2. \A i \in 1..n : Tail(w)[i] = q - n + i
      BY <1>1, <1>3, <1>4, <1>5, <2>3, <3>1
    <3>3. \E u \in Seq(Int) : u = Tail(w)
      BY <3>1
    <3>4. PICK u \in Seq(Int) : u = Tail(w)
      BY <3>3
    <3>5. Len(u) = n /\ \A i \in 1..n : u[i] = q - n + i
      BY <3>1, <3>2, <3>4
    <3>6. u = [i \in 1..n |-> q - n + i]
      BY <3>5, Consecutive
    <3> QED
      BY <1>2, <2>1, <2>2, <2>3, <3>4, <3>6 DEF Window
  <2>5. w[1] = p + 1 - n /\ SubSeq(w, 1, NumHeads) = [i \in 1..NumHeads |-> p + 1 - n + i - 1]
    <3>1. w[1] = p + 1 - n
      BY <1>1, <1>3, <1>4
    <3>2. SubSeq(w, 1, NumHeads) = w
      BY <1>4, <1>5, <1>7
    <3>3. \A i \in 1..NumHeads : w[i] = p + 1 - n + i - 1
      BY <1>1, <1>3, <1>4, <1>7
    <3> QED
      BY <1>4, <1>7, <3>1, <3>2, <3>3
  <2>6. r = Add(ring, SampleAt(p + 1 - n))
    BY <2>5 DEF SampleAt
  <2> HIDE DEF r
  <2>7. PICK t \in Nat : t = Total /\ Total' = t + 1 /\ t + 1 = p + 1 - n
    BY <1>1, <1>3, <2>1
  <2>8. PICK h \in 0..Capacity - 1, c \in 0..Capacity :
          h = ring.head /\ c = ring.count /\ c = Stored
             /\ c = IF t < Capacity THEN t ELSE Capacity
    BY <1>0, <2>7 DEF RingInv, RingOrder, Stored
  <2>9. PICK m \in 0..Capacity :
          m = (IF c < Capacity THEN c + 1 ELSE c) /\ m = Stored'
    BY <1>0, <2>7, <2>8 DEF Stored
  <2>10. PICK k \in 0..Capacity - 1 : k = (h + 1) % Capacity
    BY <1>0
  <2>11. PICK S : S = Sample \cup {NoSample}
    OBVIOUS
  <2>12. PICK slots \in [0..Capacity - 1 -> S] : slots = ring.slots
    BY <2>11 DEF RingInv, RingOrder
  <2>13. Ordered(slots, h, c, t)
    BY <2>7, <2>8, <2>12 DEF RingInv, RingOrder
  <2>14. Ordered([slots EXCEPT ![h] = SampleAt(t + 1)], k, m, t + 1)
    <3>1. c = IF t < Capacity THEN t ELSE Capacity
      BY <2>8
    <3>2. m = IF c < Capacity THEN c + 1 ELSE c
      BY <2>9
    <3> QED
      BY <2>10, <2>12, <2>13, <3>1, <3>2, AddKeeps
  <2>15. ring' = [slots |-> [slots EXCEPT ![h] = SampleAt(t + 1)], head |-> k, count |-> m]
    BY <2>2, <2>6, <2>7, <2>8, <2>9, <2>10, <2>12 DEF Add
  <2>16. SampleAt(t + 1) \in Sample
    <3>1. t + 1 \in 1..MaxPairs
      BY <1>0, <1>1, <1>3, <2>7
    <3> QED
      BY <3>1, SampleAtType
  <2>17. [slots EXCEPT ![h] = SampleAt(t + 1)] \in [0..Capacity - 1 -> Sample \cup {NoSample}]
    BY <2>11, <2>16
  <2>18. RingOrder'
    BY <2>7, <2>9, <2>14, <2>15, <2>17 DEF RingOrder
  <2> QED
    BY <2>4, <2>18
<1> QED
  BY <1>3, <1>0, <1>6, <1>7

\* A batch is cut from the ring, so it is made of samples of collected pairs.
LEMMA BatchFromRing ==
  ASSUME RingOrder, pairs \in 0..MaxPairs, NEW b \in SampleBatches(ring), NEW s \in b
  PROVE  s \in Sample /\ s = SampleAt(s.hidden)
<1>1. PICK i \in 0..ring.count - 1 : s = ring.slots[PhysicalIdx(ring, i)]
  BY DEF SampleBatches, kSubset
<1>2. s = SampleAt(Total - Stored + i + 1)
  BY <1>1, RingRead
<1>3. Total \in 0..MaxPairs
  BY SizeAssumption DEF Total
<1>4. PICK t \in 0..MaxPairs : t = Total
  BY <1>3
<1>5. PICK c \in 0..Capacity : c = Stored /\ c <= t
  BY <1>4, SizeAssumption DEF Stored
<1>6. i \in 0..c - 1
  <2>1. ring.count = c
    BY <1>5 DEF RingOrder
  <2> QED
    BY <2>1
<1>7. t - c + i + 1 \in 1..MaxPairs
  BY <1>5, <1>6, SizeAssumption
<1>8. PICK m \in 1..MaxPairs : m = t - c + i + 1
  BY <1>7
<1>9. s = SampleAt(m)
  BY <1>2, <1>4, <1>5, <1>8
<1>10. SampleAt(m) \in Sample /\ SampleAt(m).hidden = m
  BY SampleAtType
<1> QED
  BY <1>9, <1>10

\* What the ring says depends on the collected pairs only.
LEMMA RingSame ==
  ASSUME RingInv, UNCHANGED <<ring, pairs, recent>>
  PROVE  Window' /\ RingOrder'
  BY DEF RingInv, Window, WindowLen, RingOrder, Stored, Total

\* Every step of MedusaScheduler.Run and of Stop keeps the invariant.
LEMMA RingRun == RingInv /\ SafeInv /\ RunStep => RingInv'
<1> SUFFICES ASSUME RingInv, SafeInv, RunStep PROVE RingInv'
  OBVIOUS
<1> USE DEF endVars, seqVars, trainerVars, sampleVars
<1>1. CASE RunDecode
  <2>1. Window' /\ RingOrder'
    BY <1>1, RingDecode
  <2>2. pairs' \in 0..MaxPairs
    BY <1>1, SizeAssumption DEF RunDecode, RingInv, Bounded, Simple
  <2>3. Flags'
    BY <1>1, Zenon DEF RunDecode, RingInv, Flags
  <2>4. Simple'
    BY <1>1, <2>2 DEF RunDecode, RingInv, Simple
  <2>5. Bounded' /\ BatchSound'
    BY <1>1 DEF RunDecode, RingInv, Bounded, BatchSound
  <2> QED
    BY <2>1, <2>3, <2>4, <2>5 DEF RingInv
<1>2. CASE ~RunDecode
  <2>1. UNCHANGED <<ring, pairs, recent, batch>>
    BY <1>2 DEF RunStep, RunStart, RunLock, RunUnlock, RunFails, RunCancelled, StopSignal, StopWait
  <2>2. BatchSound'
    BY <2>1 DEF RingInv, BatchSound
  <2>3. conf.gpu \in BOOLEAN
    BY ConfigAssumption DEF SafeInv, Kinds
  <2>4. Flags'
    BY <1>2, Zenon DEF RunStep, RunStart, RunLock, RunUnlock, RunFails, RunCancelled, StopSignal,
         StopWait, RingInv, Flags
  <2>5. gpuMu' \in {None, "run", "train", "main"}
    BY <1>2, <2>3 DEF RunStep, RunStart, RunLock, RunUnlock, RunFails, RunCancelled, StopSignal,
         StopWait, GPULock, GPUUnlock, RingInv, Simple
  <2>6. /\ run' \in {"start", "loop", "step", "collected", "stop", "wait", "done"}
        /\ train' \in {"none", "select", "try", "gpu", "record", "done"}
        /\ UNCHANGED <<steps, loss, main>>
        /\ run' = "step" => pairs < MaxPairs
        /\ train' \in {"try", "gpu", "record"} => train' = train
    BY <1>2, Zenon DEF RunStep, RunStart, RunLock, RunUnlock, RunFails, RunCancelled, StopSignal,
         StopWait, RingInv, Simple, Bounded
  <2>7. Simple' /\ Bounded'
    BY <2>1, <2>5, <2>6 DEF RingInv, Simple, Bounded
  <2> QED
    BY <2>1, <2>2, <2>4, <2>7, RingSame DEF RingInv
<1> QED
  BY <1>1, <1>2

\* Every step of trainingLoop keeps it.
LEMMA RingTrainer == RingInv /\ SafeInv /\ TrainerStep => RingInv'
<1> SUFFICES ASSUME RingInv, SafeInv, TrainerStep PROVE RingInv'
  OBVIOUS
<1> USE DEF endVars, seqVars, trainerVars, sampleVars
<1>1. UNCHANGED <<ring, pairs, recent>>
  BY DEF TrainerStep, LoopExit, TrainTick, TrainBegin, TrainSkip, TrainHeads, TrainRecord, EvalTick
<1>2. BatchSound'
  <2>1. CASE TrainTick
    <3>1. batch' \in SampleBatches(ring)
      BY <2>1 DEF TrainTick
    <3>2. RingOrder /\ pairs \in 0..MaxPairs
      BY DEF RingInv, Simple
    <3> QED
      BY <3>1, <3>2, BatchFromRing DEF BatchSound
  <2>2. CASE ~TrainTick
    BY <2>2 DEF TrainerStep, LoopExit, TrainBegin, TrainSkip, TrainHeads, TrainRecord, EvalTick,
         RingInv, BatchSound
  <2> QED
    BY <2>1, <2>2
<1>3. steps' \in 0..MaxSteps /\ (train' \in {"try", "gpu", "record"} => steps' < MaxSteps)
  BY SizeAssumption DEF TrainerStep, LoopExit, TrainTick, TrainBegin, TrainSkip, TrainHeads,
       TrainRecord, EvalTick, RingInv, Simple, Bounded
<1>4. Simple' /\ Bounded'
  BY <1>1, <1>3 DEF TrainerStep, LoopExit, TrainTick, TrainBegin, TrainSkip, TrainHeads,
       TrainRecord, EvalTick, RingInv, Simple, Bounded
<1>5. Flags'
  BY Zenon DEF TrainerStep, LoopExit, TrainTick, TrainBegin, TrainSkip, TrainHeads,
       TrainRecord, EvalTick, RingInv, Flags
<1> QED
  BY <1>1, <1>2, <1>4, <1>5, RingSame DEF RingInv

\* Every step of the serve or generate command keeps it.
LEMMA RingMain == RingInv /\ SafeInv /\ MainStep => RingInv'
<1> SUFFICES ASSUME RingInv, SafeInv, MainStep PROVE RingInv'
  OBVIOUS
<1> USE DEF endVars, seqVars, trainerVars, sampleVars
<1>1. UNCHANGED <<ring, pairs, recent, batch, run, train, steps>>
  BY DEF MainStep, MainBegin, MainStreamed, MainEnough, MainSaveLock, MainSaved, MainRequest,
       MainCancel, MainReturn
<1>2. BatchSound' /\ Bounded'
  BY <1>1 DEF RingInv, BatchSound, Bounded
<1>3. Flags'
  BY Zenon DEF MainStep, MainBegin, MainStreamed, MainEnough, MainSaveLock, MainSaved, MainRequest,
       MainCancel, MainReturn, RingInv, Flags
<1>4. conf.gpu \in BOOLEAN
  BY ConfigAssumption DEF SafeInv, Kinds
<1>5. gpuMu' \in {None, "run", "train", "main"} /\ UNCHANGED loss
  BY <1>4 DEF MainStep, MainBegin, MainStreamed, MainEnough, MainSaveLock, MainSaved, MainRequest,
       MainCancel, MainReturn, GPULock, GPUUnlock, RingInv, Simple
<1>6. main' \in {"start", "stream", "save", "saving", "serve", "return", "done"}
  BY DEF MainStep, MainBegin, MainStreamed, MainEnough, MainSaveLock, MainSaved, MainRequest,
       MainCancel, MainReturn, AfterStream, RingInv, Simple
<1>7. Simple'
  BY <1>1, <1>5, <1>6 DEF RingInv, Simple
<1> QED
  BY <1>1, <1>2, <1>3, <1>7, RingSame DEF RingInv

-----------------------------------------------------------------------------
(* The theorems.                                                           *)

\* The inductive invariant holds in every reachable state.
THEOREM RingInvariance == Spec => [](SafeInv /\ RingInv)
<1>1. RingInv /\ SafeInv /\ [Next]_vars => RingInv'
  <2> SUFFICES ASSUME RingInv, SafeInv, [Next]_vars PROVE RingInv'
    OBVIOUS
  <2>1. CASE Next
    BY <2>1, RingRun, RingTrainer, RingMain DEF Next
  <2>2. CASE UNCHANGED vars
    <3>1. UNCHANGED <<ring, pairs, recent>>
      BY <2>2 DEF vars, sampleVars
    <3>2. Flags'
      BY <2>2, Zenon DEF vars, endVars, seqVars, trainerVars, RingInv, Flags
    <3>3. Simple' /\ Bounded' /\ BatchSound'
      BY <2>2 DEF vars, trainerVars, sampleVars, RingInv, Simple, Bounded, BatchSound
    <3> QED
      BY <3>1, <3>2, <3>3, RingSame DEF RingInv
  <2> QED
    BY <2>1, <2>2
<1> QED
  BY <1>1, RingInit, SafeInvariance, PTL DEF Spec

\* TypeOK: every variable of the three goroutines stays in its range, the
\* ring's head and count and the window included.
THEOREM TrainerTypes == Spec => []TypeOK
<1>1. SafeInv /\ RingInv => TypeOK
  <2> SUFFICES ASSUME SafeInv, RingInv PROVE TypeOK
    OBVIOUS
  <2>1. ring.count \in 0..Capacity
    BY SizeAssumption DEF RingInv, RingOrder, Simple, Stored, Total
  <2>2. PICK n \in Nat : n = WindowLen /\ n < NumHeads /\ n <= pairs
    BY SizeAssumption DEF RingInv, Simple, WindowLen
  <2>3. recent \in Seq(1..MaxPairs) /\ Len(recent) = n
    <3>1. \A i \in 1..n : pairs - n + i \in 1..MaxPairs
      BY <2>2, SizeAssumption DEF RingInv, Simple
    <3>2. recent = [i \in 1..n |-> pairs - n + i]
      BY <2>2 DEF RingInv, Window
    <3> QED
      BY <2>2, <3>1, <3>2
  <2>4. batch \subseteq Sample
    BY DEF RingInv, BatchSound
  <2>5. phase \in Cold..Hot
    BY DEF SafeInv, Kinds, Cold, Warming, Hot
  <2>6. Len(recent) < NumHeads
    BY <2>2, <2>3
  <2>7. /\ ring.slots \in [0..Capacity - 1 -> Sample \cup {NoSample}]
        /\ ring.head \in 0..Capacity - 1
    BY DEF RingInv, RingOrder
  <2> QED
    BY <2>1, <2>3, <2>4, <2>5, <2>6, <2>7, Zenon DEF TypeOK, SafeInv, Kinds, RingInv, Flags, Simple
<1> QED
  BY <1>1, RingInvariance, PTL

\* RingIsSuffix: GetAll returns the newest samples, oldest first, and a batch
\* that training works on is made of samples that pair a hidden state with the
\* tokens collected from it on, whatever was overwritten since.
THEOREM RingKeepsNewest == Spec => []RingIsSuffix
<1>1. SafeInv /\ RingInv => RingIsSuffix
  <2> SUFFICES ASSUME RingInv PROVE RingIsSuffix
    OBVIOUS
  <2>1. \A i \in 1..Stored : ring.slots[PhysicalIdx(ring, i - 1)] = SampleAt(Total - Stored + i)
    <3> TAKE i \in 1..Stored
    <3>0. Stored \in 0..Capacity
      BY SizeAssumption DEF RingInv, Simple, Stored, Total
    <3>1. PICK c \in 0..Capacity : c = Stored /\ ring.count = c
      BY <3>0 DEF RingInv, RingOrder
    <3>2. PICK j \in 0..ring.count - 1 : j = i - 1
      BY <3>1
    <3>3. ring.slots[PhysicalIdx(ring, j)] = SampleAt(Total - Stored + j + 1)
      BY <3>2, RingRead DEF RingInv, Simple
    <3>4. Total - Stored + j + 1 = Total - Stored + i
      BY <3>1, <3>2, SizeAssumption DEF RingInv, Simple, Total
    <3> QED
      BY <3>2, <3>3, <3>4
  <2>2. GetAll(ring) = [i \in 1..Stored |-> SampleAt(Total - Stored + i)]
    BY <2>1 DEF GetAll, RingInv, RingOrder
  <2>3. \A s \in batch : s = SampleAt(s.hidden)
    BY DEF RingInv, BatchSound
  <2> QED
    BY <2>2, <2>3, Zenon DEF RingIsSuffix, Stored, Total
<1> QED
  BY <1>1, RingInvariance, PTL
=============================================================================
