----------------------------- MODULE Speculation -----------------------------
(***************************************************************************)
(* Speculative decoding of one sequence at a time, as the schedulers of    *)
(* inference/scheduler do it: a drafter proposes tokens, the target model  *)
(* runs over all of them at once, the proposal is accepted up to the first *)
(* disagreement, and the caches are cut back to what was accepted.         *)
(*                                                                         *)
(*   "model"  SpeculativeScheduler: a second, smaller model drafts         *)
(*            (speculative_scheduler.go, speculative.go, adaptive_draft.go)*)
(*   "tree"   MedusaScheduler, the best path of the candidate tree         *)
(*   "heads"  MedusaScheduler with UseTreeVerification off                 *)
(*                                                                         *)
(* The target's K/V are in the single GPUKVCache ("gpu", the default) or   *)
(* in the paged pool ("paged", --context-len; GPUBlockPool models its      *)
(* blocks).  They differ in what a pass over several tokens attends to.    *)
(*                                                                         *)
(* Only the scheduler goroutine touches this state, so a scheduling step   *)
(* is one action.  What the drafter proposes is arbitrary; what the target *)
(* prefers after a context is Target(context).  A hidden state is named by *)
(* the context it was computed from.                                       *)
(***************************************************************************)
EXTENDS Integers, Sequences, FiniteSetsExt

CONSTANTS
  Vocab,           \* token IDs
  StopTokens,      \* EOS and the template's extra stop tokens
  Prompts,         \* the prompts a client may send, as token sequences
  Target(_),       \* the target model's greedy choice after a context
  Drafters,        \* the schedulers to start with: "model", "tree", "heads"
  Caches,          \* where the target's K/V may be: "gpu", "paged"
  Limit,           \* max tokens of a sequence
  MaxSeqLen,       \* rows of a GPUKVCache, --context-len
  MaxContext,      \* bound: no context of the target model is longer
  InitialDraft, MinDraft, MaxDraft, WindowSize, \* AdaptiveConfig
  NumHeads,        \* Medusa heads
  AcceptWindow,    \* len(recentAccepted), 4 in the code
  ProbeInterval,   \* normal steps between two probes, 8 in the code
  MaxSequences,    \* bound: sequences served one after the other
  None             \* no hidden state

ASSUME VocabAssumption ==
  /\ StopTokens \subseteq Vocab
  /\ Prompts \subseteq Seq(Vocab) \ {<<>>}
  /\ \A n \in 1..MaxContext : \A ctx \in [1..n -> Vocab] : Target(ctx) \in Vocab
  /\ None \notin Seq(Vocab)
  /\ Drafters \subseteq {"model", "tree", "heads"} /\ Caches \subseteq {"gpu", "paged"}

ASSUME SizeAssumption ==
  /\ Limit \in Nat \ {0} /\ MaxSeqLen \in Nat
  /\ MinDraft \in Nat \ {0} /\ MaxDraft \in Nat /\ InitialDraft \in MinDraft..MaxDraft
  /\ WindowSize \in Nat \ {0} /\ NumHeads \in 1..MaxDraft
  /\ AcceptWindow \in Nat \ {0} /\ ProbeInterval \in Nat \ {0}
  /\ MaxSequences \in Nat

\* A context is a prompt, the tokens generated after it and a draft.
ASSUME ContextAssumption ==
  /\ MaxContext \in Nat
  /\ \A p \in Prompts : Len(p) + (IF Limit < 2 THEN 2 ELSE Limit) - 1 + MaxDraft <= MaxContext

VARIABLES
  drafter,     \* which scheduler runs
  cache,       \* the kind of the target's cache
  served,      \* sequences started so far
  prompt,      \* prompt tokens of the current sequence
  state,       \* "none", "Pending", "Decoding", "Finished"
  position,    \* Sequence.position
  gen,         \* Sequence.generatedTokens
  pushed,      \* the tokens sent to the client
  targetKV,    \* the target's cache
  draftKV,     \* the draft model's GPUKVCache
  numDraft,    \* AdaptiveDraftLength.current
  window,      \* its circular buffer, oldest entry first
  lastHidden,  \* MedusaScheduler.lastHidden
  accepted,    \* recentAccepted since its last reset, oldest first
  probes,      \* probeCounter
  hot          \* the trainer says the heads are ready

seqVars   == <<served, prompt, state, position, gen, pushed>>
adaptVars == <<numDraft, window>>
medusaVars == <<lastHidden, accepted, probes, hot>>
config == <<drafter, cache>>
vars == <<config, seqVars, targetKV, draftKV, adaptVars, medusaVars>>

-----------------------------------------------------------------------------
(* A KV cache.  A row is a token, the position RoPE was applied for, and   *)
(* whether its K/V are whole: computed in sight of all earlier rows and    *)
(* not overwritten since.  Truncate and Reset only move seqLen, but what   *)
(* lies beyond seqLen is overwritten before it can be read, so a cache is  *)
(* its readable rows and the highest row written since the last Reset.     *)

EmptyCache == [rows |-> <<>>, high |-> 0]

SeqLen(c) == Len(c.rows)

Reset(c) == EmptyCache

Whole(c) == \A i \in 1..Len(c.rows) : c.rows[i].whole

\* A pass over several tokens attends over the K/V at hand only (SDPAPrefill)
\* on the single cache; the paged pool has a multi-query kernel for it.
SeesCache(n) == n = 1 \/ cache = "paged"

\* The heads of a layer follow one another in a buffer, MaxSeqLen rows each, and
\* AppendKV does not test maxSeqLen: row MaxSeqLen + i of a head is row i of the
\* next.  A pass that fills n rows spares row i when it has a place of its own.
\* (The paged pool is taken to have blocks left.)
Spared(i, n) ==
  cache = "gpu" => n <= MaxSeqLen \/ (i <= MaxSeqLen /\ i + MaxSeqLen > n)

\* AppendKV of all layers of one forward pass: the new rows go to seqLen on.
AppendKV(c, toks, startPos) ==
  LET n == SeqLen(c) + Len(toks)
      w == SeqLen(c) = 0 \/ (SeesCache(Len(toks)) /\ Whole(c))
      old == [i \in 1..SeqLen(c) |->
                [c.rows[i] EXCEPT !.whole = @ /\ Spared(i, n)]]
      new == [i \in 1..Len(toks) |->
                [tok |-> toks[i], pos |-> startPos + i - 1,
                 whole |-> w /\ Spared(SeqLen(c) + i, n)]]
  IN  [rows |-> old \o new, high |-> IF n > c.high THEN n ELSE c.high]

Truncate(c, n) == [c EXCEPT !.rows = SubSeq(@, 1, IF n > Len(@) THEN Len(@) ELSE n)]

\* The tokens of the first n rows.
Context(c, n) == [i \in 1..n |-> c.rows[i].tok]

\* What the target may prefer after the last row of the cache c.  A row that
\* was computed without its prefix, or damaged, makes the choice arbitrary.
Preferred(c) == IF Whole(c) THEN {Target(Context(c, SeqLen(c)))} ELSE Vocab

-----------------------------------------------------------------------------
(* AdaptiveDraftLength and the Medusa acceptance window.                   *)

\* A circular buffer of n entries after one more write.
Push(buf, e, n) ==
  IF Len(buf) < n THEN Append(buf, e) ELSE Append(Tail(buf), e)

\* Mutant: the draft length has no upper bound.
Clamp_NoMax(x, lo, hi) == IF x < lo THEN lo ELSE x

Clamp(x, lo, hi) == IF x < lo THEN lo ELSE IF x > hi THEN hi ELSE x

Scale == 840  \* divisible by every draft length up to 8

\* windowRate over a full window, in units of 1 / (Scale * WindowSize).
WindowRate(w) ==
  MapThenSumSet(LAMBDA i : (w[i].accepted * Scale) \div w[i].drafted, 1..WindowSize)

\* RecordStep: the draft length moves by one when the rolling acceptance
\* rate leaves [0.40, 0.80], and only over a full window.
Adapt(w, cur) ==
  IF Len(w) < WindowSize THEN cur
  ELSE LET rate == WindowRate(w)
           full == Scale * WindowSize
       IN  Clamp(IF 10 * rate > 8 * full THEN cur + 1
                 ELSE IF 10 * rate < 4 * full THEN cur - 1 ELSE cur,
                 MinDraft, MaxDraft)

RecordStep(numAccepted, drafted) ==
  LET w == Push(window, [accepted |-> numAccepted, drafted |-> drafted], WindowSize)
  IN  /\ window' = w
      /\ numDraft' = Adapt(w, numDraft)

\* speculationEnabled: the window is full and its average is at least 0.5.
SpeculationEnabled ==
  /\ Len(accepted) = AcceptWindow
  /\ 2 * MapThenSumSet(LAMBDA i : accepted[i], 1..AcceptWindow) >= AcceptWindow

-----------------------------------------------------------------------------
(* What every path does with the tokens it got.                            *)

\* Token i of toks ends a sequence that had n tokens before: a stop token or
\* the token limit.
EndsAt(n, toks, i) == toks[i] \in StopTokens \/ n + i >= Limit

Ending(n, toks) == {i \in 1..Len(toks) : EndsAt(n, toks, i)}

\* Mutant: the loop over the accepted tokens does not break.
Taken_All(n, toks) == Len(toks)

\* The loop over the accepted tokens breaks at the first one that ends the
\* sequence.
Taken(n, toks) == IF Ending(n, toks) = {} THEN Len(toks) ELSE Min(Ending(n, toks))

\* Mutant: at the token limit the loop returns before the sequence is finished.
Emit_LimitOpen(g, at, out, toks) ==
  LET n    == Taken(Len(g), toks)
      stop == \E i \in 1..n : toks[i] \in StopTokens
      kept == IF Ending(Len(g), toks) # {} /\ ~stop THEN n - 1 ELSE n
  IN  /\ gen' = g \o SubSeq(toks, 1, kept)
      /\ position' = at + kept
      /\ state' = IF stop THEN "Finished" ELSE "Decoding"
      /\ pushed' = out \o SubSeq(toks, 1, IF stop THEN n - 1 ELSE kept)
      /\ UNCHANGED <<served, prompt>>

\* AdvancePosition, AddGeneratedToken, the two end tests and PushToken, for a
\* sequence with the tokens g and the stream out.
Emit(g, at, out, toks) ==
  LET n    == Taken(Len(g), toks)
      ends == Ending(Len(g), toks) # {}
  IN  /\ gen' = g \o SubSeq(toks, 1, n)
      /\ position' = at + n
      /\ state' = IF ends THEN "Finished" ELSE "Decoding"
      /\ pushed' = out \o SubSeq(toks, 1, IF ends THEN n - 1 ELSE n)
      /\ UNCHANGED <<served, prompt>>

InputToken == gen[Len(gen)]

\* How many leading elements of the Boolean sequence ok are TRUE.
Leading(ok) == Max({n \in 0..Len(ok) : \A i \in 1..n : ok[i]})

-----------------------------------------------------------------------------
Init ==
  /\ drafter \in Drafters /\ cache \in Caches
  /\ drafter = "model" => cache = "gpu"
  /\ served = 0 /\ prompt = <<>> /\ state = "none"
  /\ position = 0 /\ gen = <<>> /\ pushed = <<>>
  /\ targetKV = EmptyCache /\ draftKV = EmptyCache
  /\ numDraft = InitialDraft /\ window = <<>>
  /\ lastHidden = None /\ accepted = <<>> /\ probes = 0 /\ hot = FALSE

\* The next request, after the previous one has ended.
AddSequence(p) ==
  /\ state \in {"none", "Finished"}
  /\ served < MaxSequences
  /\ served' = served + 1
  /\ prompt' = p /\ state' = "Pending"
  /\ position' = 0 /\ gen' = <<>> /\ pushed' = <<>>
  /\ UNCHANGED <<config, targetKV, draftKV, adaptVars, medusaVars>>

\* The trainer reaches its Hot phase (MedusaTrainer).
BecomeHot ==
  /\ drafter # "model" /\ ~hot
  /\ hot' = TRUE
  /\ UNCHANGED <<config, seqVars, targetKV, draftKV, adaptVars,
                 lastHidden, accepted, probes>>

\* runGPUPrefill and runBatchedPrefill: the cache restarts with the prompt (a
\* new paged sequence is empty) and the first token is sampled from its last row.
PrefilledTarget == AppendKV(Reset(targetKV), prompt, 0)
FirstToken == Target(Context(PrefilledTarget, Len(prompt)))

\* Rows of the draft model's cache.  Which tokens they hold only steers the
\* drafter, whose proposals are arbitrary anyway.
Blank(n) == [i \in 1..n |-> None]

\* prefillDraftModel.
DraftPrefill == AppendKV(Reset(draftKV), Blank(Len(prompt)), 0)

\* The first token ends the sequence only when it is a stop token: the limit
\* is not tested here.
StopAfterPrefill ==
  /\ FirstToken \in StopTokens
  /\ state' = "Finished" /\ pushed' = <<>>
  /\ gen' = <<FirstToken>> /\ position' = Len(prompt)
  /\ UNCHANGED <<served, prompt>>

\* SpeculativeScheduler: both models prefill, and the step ends.
PrefillBoth ==
  /\ drafter = "model" /\ state = "Pending"
  /\ targetKV' = PrefilledTarget
  /\ draftKV' = DraftPrefill
  /\ \/ StopAfterPrefill
     \/ /\ FirstToken \notin StopTokens
        /\ state' = "Decoding" /\ pushed' = <<FirstToken>>
        /\ gen' = <<FirstToken>> /\ position' = Len(prompt)
        /\ UNCHANGED <<served, prompt>>
  /\ UNCHANGED <<config, adaptVars, medusaVars>>

-----------------------------------------------------------------------------
(* SpeculativeScheduler.runSpeculativeDecodeStep.  Its fallbacks to the    *)
(* plain decode step need an empty draft or a failed forward pass; the     *)
(* draft length is at least 1 and the scratch arena is sized for prompts,  *)
(* so neither happens here.                                                *)

\* GenerateDraftTokensFrom feeds the input and every draft token but the last.
Drafted(d) == AppendKV(draftKV, Blank(Len(d)), position)

\* The target's forward pass over the input and the draft.
Verified(d, startPos) == AppendKV(targetKV, <<InputToken>> \o d, startPos)

\* What VerifyDraftTokens reads as the logits of the K + 1 positions.
\* DecodeWithGPUKV returns one row, for the last position; the K rows after
\* it are whatever the arena holds there.
VerifyRows(d) ==
  {r \in [1..Len(d) + 1 -> Vocab] : r[1] = Target(<<InputToken>> \o d)}

\* How many drafts VerifyDraftTokens may accept.  A draft token passes when the
\* target prefers it or gives it at least the probability the draft model gave
\* it; so any token may pass, and only one the target does not prefer can fail.
AcceptCounts(d, r) == {n \in 0..Len(d) : n < Len(d) => d[n + 1] # r[n + 1]}

\* Mutant: the target's cache keeps the rejected rows.
CutTarget_NoRollback(c, startPos, n) == c

\* Truncate of the target's cache: the input and the accepted tokens stay.
CutTarget(c, startPos, n) == Truncate(c, startPos + 1 + n)

\* Mutant: the draft's cache is not cut.
CutDraft_NoRollback(c, startPos, n) == c

\* Truncate of the draft's cache, one row shorter.
CutDraft(c, startPos, n) == Truncate(c, startPos + n)

SpeculativeStep ==
  /\ drafter = "model" /\ state = "Decoding"
  /\ \E d \in [1..numDraft -> Vocab] : \E r \in VerifyRows(d) :
       \E n \in AcceptCounts(d, r) :
         /\ RecordStep(n, numDraft)
         /\ targetKV' = CutTarget(Verified(d, position), position, n)
         /\ draftKV' = CutDraft(Drafted(d), position, n)
         /\ Emit(gen, position, pushed, Append(SubSeq(d, 1, n), r[n + 1]))
  /\ UNCHANGED <<config, medusaVars>>

-----------------------------------------------------------------------------
(* MedusaScheduler.step.                                                   *)

\* One step of runDecodeStepWithTraining for a sequence with tokens g at
\* position at, over the cache c: decode, remember the hidden state, emit.
DecodeStep(c, g, at, out) ==
  LET c2 == AppendKV(c, <<g[Len(g)]>>, at)
  IN  /\ targetKV' = c2
      /\ lastHidden' = Context(c2, SeqLen(c2))
      /\ \E t \in Preferred(c2) : Emit(g, at, out, <<t>>)

\* The heads are used for speculation.
Speculates == hot /\ SpeculationEnabled

\* Every ProbeInterval-th normal step with ready heads asks head 0 for the
\* token that was just generated and records whether it knew.
Probe ==
  IF hot /\ ~SpeculationEnabled /\ lastHidden # None
  THEN IF probes + 1 < ProbeInterval
       THEN probes' = probes + 1 /\ UNCHANGED accepted
       ELSE /\ probes' = 0
            /\ IF Len(gen) < 2 THEN UNCHANGED accepted
               ELSE \E hit \in {0, 1} : accepted' = Push(accepted, hit, AcceptWindow)
  ELSE UNCHANGED <<probes, accepted>>

\* Prefill and, unless the first token stops it, a normal decode in the same
\* step.  A speculating scheduler restarts its acceptance window.
MedusaPrefill ==
  /\ drafter # "model" /\ state = "Pending"
  /\ IF Speculates THEN accepted' = <<>> /\ UNCHANGED probes ELSE Probe
  /\ \/ StopAfterPrefill /\ targetKV' = PrefilledTarget /\ UNCHANGED lastHidden
     \/ /\ FirstToken \notin StopTokens
        /\ DecodeStep(PrefilledTarget, <<FirstToken>>, Len(prompt), <<FirstToken>>)
  /\ UNCHANGED <<config, draftKV, adaptVars, hot>>

MedusaDecode ==
  /\ drafter # "model" /\ state = "Decoding"
  /\ ~Speculates \/ lastHidden = None
  /\ Probe
  /\ DecodeStep(targetKV, gen, position, pushed)
  /\ UNCHANGED <<config, draftKV, adaptVars, hot>>

\* The tokens that position i of a verification pass attends to: on the single
\* cache none of the cached prefix.
Attended(d, i) ==
  LET pass == SubSeq(<<InputToken>> \o d, 1, i)
  IN  IF SeesCache(Len(d) + 1) THEN Context(targetKV, SeqLen(targetKV)) \o pass ELSE pass

\* VerifySpeculativeWithHidden, or ...WithPagedKVAndHidden, returns a row for
\* every position.
TargetRows(d) == [i \in 1..Len(d) + 1 |-> Target(Attended(d, i))]

\* Mutant: the hidden state after the whole draft, not after what was accepted.
HiddenAfter_Last(d, n) == Attended(d, Len(d) + 1)

\* hiddenStates[numAccepted].
HiddenAfter(d, n) == Attended(d, n + 1)

\* Cut the cache, emit the accepted tokens and the final one, and keep the
\* hidden state of the last accepted position for the next draft.
Commit(d, n, final) ==
  LET toks == Append(SubSeq(d, 1, n), final)
  IN  /\ targetKV' = CutTarget(Verified(d, SeqLen(targetKV)), SeqLen(targetKV), n)
      /\ accepted' = Push(accepted, n, AcceptWindow)
      /\ Emit(gen, position, pushed, toks)
      /\ lastHidden' = IF Ending(Len(gen), toks) # {} THEN None ELSE HiddenAfter(d, n)

CanSpeculate == state = "Decoding" /\ Speculates /\ lastHidden # None

\* Mutant: the correction is read one row too late.
BestPath_LateCorrection(d, r) ==
  LET n == Leading([i \in 1..Len(d) |-> d[i] = r[i]])
  IN  [accepted |-> n, final |-> r[Len(d) + 1]]

\* selectBestTreePath: the verified path against the target's rows.
BestPath(d, r) ==
  LET n == Leading([i \in 1..Len(d) |-> d[i] = r[i]])
  IN  [accepted |-> n, final |-> r[n + 1]]

\* runTreeMedusaDecodeStep.  The best path is shorter than the number of
\* heads when the node limit cut the tree.
TreeStep ==
  /\ drafter = "tree" /\ CanSpeculate
  /\ \E k \in 1..NumHeads : \E d \in [1..k -> Vocab] :
       LET best == BestPath(d, TargetRows(d))
       IN  Commit(d, best.accepted, best.final)
  /\ UNCHANGED <<config, draftKV, adaptVars, probes, hot>>

\* runMedusaDecodeStep.  Head 0 predicts the input token itself; head i + 1 is
\* held against row i, and all accepted drafts, head 0's included, are emitted.
LinearPath(d, r) ==
  LET n == Leading([i \in 1..Len(d) |->
                      IF i = 1 THEN d[1] = InputToken ELSE d[i] = r[i - 1]])
  IN  [accepted |-> n, final |-> r[IF n = 0 THEN 1 ELSE n]]

LinearStep ==
  /\ drafter = "heads" /\ CanSpeculate
  /\ \E d \in [1..NumHeads -> Vocab] :
       LET path == LinearPath(d, TargetRows(d))
       IN  Commit(d, path.accepted, path.final)
  /\ UNCHANGED <<config, draftKV, adaptVars, probes, hot>>

-----------------------------------------------------------------------------
\* A scheduling step over the registered sequence.
Step == PrefillBoth \/ SpeculativeStep
          \/ MedusaPrefill \/ MedusaDecode \/ TreeStep \/ LinearStep

\* Nothing is left to do once every sequence has been served.
Done == served = MaxSequences /\ state = "Finished" /\ UNCHANGED vars

Next == (\E p \in Prompts : AddSequence(p)) \/ BecomeHot \/ Step \/ Done

\* The loop of Run keeps stepping while a sequence is registered.
Spec == Init /\ [][Next]_vars /\ WF_vars(Step)

-----------------------------------------------------------------------------
CacheOf(toks) == [rows : Seq([tok : toks, pos : Nat, whole : BOOLEAN]), high : Nat]

TypeOK ==
  /\ drafter \in Drafters /\ cache \in Caches
  /\ served \in 0..MaxSequences
  /\ prompt \in Prompts \cup {<<>>}
  /\ state \in {"none", "Pending", "Decoding", "Finished"}
  /\ position \in Nat
  /\ gen \in Seq(Vocab) /\ pushed \in Seq(Vocab)
  /\ targetKV \in CacheOf(Vocab) /\ draftKV \in CacheOf({None})
  /\ SeqLen(targetKV) <= targetKV.high
  /\ SeqLen(draftKV) <= draftKV.high
  /\ numDraft \in MinDraft..MaxDraft
  /\ window \in Seq([accepted : Nat, drafted : MinDraft..MaxDraft])
  /\ Len(window) <= WindowSize
  /\ lastHidden \in Seq(Vocab) \cup {None}
  /\ accepted \in Seq(0..MaxDraft) /\ Len(accepted) <= AcceptWindow
  /\ probes \in 0..ProbeInterval /\ hot \in BOOLEAN

\* After every step, however many drafts were rejected in it, the target's
\* cache holds exactly the committed tokens but the last, each at its own
\* position: the rollback of the schedulers (Truncate after VerifyDraftTokens
\* and VerifySpeculativeWithHidden) neither keeps a rejected row nor loses an
\* accepted one, for all three drafters and across sequences. (A row that an
\* overrun of the cache damages later is no longer whole; see WriteAhead.)
TargetContext ==
  state = "Decoding" =>
    /\ position = Len(prompt) + Len(gen) - 1
    /\ SeqLen(targetKV) = position
    /\ \A i \in 1..position :
         targetKV.rows[i].tok = (prompt \o gen)[i] /\ targetKV.rows[i].pos = i - 1

\* The draft model's cache is cut to another length than the target's; it
\* never reaches past the position the next draft starts from, so a draft row
\* is never attended to from an earlier position.
DraftNeverAhead ==
  drafter = "model" /\ state = "Decoding" => SeqLen(draftKV) <= position

\* AppendKV does not test maxSeqLen, and a verification writes the input and
\* the whole draft before it cuts back. For every context size, prompt and
\* limit, and however many drafts were rejected, no pass of a sequence has
\* written further than MaxDraft rows past the sequence's present position: so
\* a cache is overrun only by a sequence that comes within MaxDraft rows of
\* its end, and never by rejected rows left from earlier steps or sequences.
WriteAhead ==
  state \in {"Decoding", "Finished"} =>
    /\ targetKV.high <= position + MaxDraft
    /\ drafter = "model" => draftKV.high <= position + MaxDraft

\* A multi-token step ends a sequence like single-token decoding does: no
\* token follows a stop token or the limit, a sequence is finished exactly
\* when its last token is one, and the client has been sent every token but
\* the one that ended it.
OnTime ==
  state \in {"Decoding", "Finished"} =>
    /\ \A i \in 1..Len(gen) - 1 : gen[i] \notin StopTokens
    /\ Len(gen) <= IF Limit < 2 THEN 2 ELSE Limit
    /\ pushed = SubSeq(gen, 1, IF state = "Finished" THEN Len(gen) - 1 ELSE Len(gen))
    /\ state = "Finished" => gen[Len(gen)] \in StopTokens \/ Len(gen) >= Limit
    /\ state = "Decoding" => gen[Len(gen)] \notin StopTokens

\* The same, and every variable has its type.
EndsOnTime == TypeOK /\ OnTime

\* gen is what greedy decoding, one token at a time, would have produced.
Greedy ==
  \A i \in 1..Len(gen) : gen[i] = Target(prompt \o SubSeq(gen, 1, i - 1))

\* Tree-based Medusa over the paged cache is lossless: whatever the heads
\* propose, the sequence is the one standard greedy decoding yields.
TreeLossless == drafter = "tree" /\ cache = "paged" => Greedy

\* scheduler/verification_test.go: "speculative decoding must produce identical
\* output to standard decoding when using argmax sampling", for the schedulers
\* the command line starts.
SpeculationLossless == drafter # "heads" => Greedy

\* Over the paged cache, the heads predict from the hidden state after the
\* committed tokens but the last: never from that of a rejected draft, of an
\* earlier step or of the previous sequence.
HiddenFresh ==
  drafter # "model" /\ cache = "paged" /\ state = "Decoding" =>
    lastHidden = prompt \o SubSeq(gen, 1, Len(gen) - 1)

\* A sequence in service has a prompt and, after prefill, a token; an open one
\* has room for another, unless the limit is a single token.
InService ==
  /\ state # "none" => prompt \in Prompts
  /\ state \in {"Decoding", "Finished"} => gen # <<>>
  /\ state = "Decoding" => Len(gen) = 1 \/ Len(gen) < Limit

\* The paged cache computes every row in sight of the rows before it.
PagedWhole == cache = "paged" => Whole(targetKV)

\* The strengthening under which the properties above are inductive.
SpecInv ==
  /\ EndsOnTime /\ InService /\ TargetContext /\ DraftNeverAhead /\ WriteAhead
  /\ PagedWhole /\ HiddenFresh /\ TreeLossless

\* Every step commits at least one token, so a sequence ends whatever the
\* drafter proposes and whatever is rejected.
EventuallyFinished == state = "Pending" ~> state = "Finished"

=============================================================================
