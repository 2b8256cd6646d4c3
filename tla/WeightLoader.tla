---------------------------- MODULE WeightLoader ----------------------------
(***************************************************************************)
(* Loading a model's weights (runtime/loader.go): the tensors of a GGUF or *)
(* safetensors file go, one after the other, through the choice between    *)
(* raw bytes and F32, mapTensor and the splitting of combined tensors, and *)
(* CopyWeightsToDevice then moves every field of the model to the device.  *)
(*                                                                         *)
(* A tensor in memory is a view of a file tensor: which one (of), from     *)
(* which byte (at), how many elements (n), the profile the kernels decode  *)
(* it with (quant), the encoding its bytes really have (enc), the bytes    *)
(* readable from `at` on (room) and where it is (loc). All byte counts are *)
(* the code's, from the block tables it keeps in three places: gguf.go,    *)
(* the splits and copyToDevice. One layer stands for all.                  *)
(***************************************************************************)
EXTENDS Integers, Sequences, SequencesExt, ModelConfig

CONSTANTS
  Files,  \* the files: [arch, source, naming, type, gone, odd, dev]; see FileTypes
  Size    \* [hidden, q, kv, inter, vocab, experts]: rows and columns of the config

Profiles == {"q4_0", "q4_k", "q5_k", "q6_k", "q5_0", "q8_0", "bf16"}
Types == Profiles \cup {"f32", "f16", "q5_1", "q4_1"}
Groups == {"qkv", "wo", "w13", "w2", "head", "embed"}

ASSUME FilesAssumption ==
  \A f \in Files :
    /\ f.arch \in DOMAIN Arch
    /\ f.source \in {"gguf", "f32", "safetensors"}  \* LoadWeightsGGUF, LoadWeightsF32, LoadWeightsSafetensors
    /\ f.naming \in {"gguf", "alt", "hf"}           \* GGUF names, their variants, Hugging Face names
    /\ f.type \in [Groups -> Types]                 \* types of the matrices; norms and biases are F32
    /\ f.odd \in BOOLEAN                            \* combined tensors have other rows than the config says
    /\ f.dev \in {"gpu", "cpu"}
ASSUME SizeAssumption ==
  Size \in [{"hidden", "q", "kv", "inter", "vocab", "experts"} -> Nat \ {0}]

VARIABLES
  file,   \* the file being loaded
  todo,   \* the names still to load
  field,  \* field of ModelRuntime or BlockRuntime -> tensor, or Nil
  stage,  \* "load", "copy", "done", "failed"
  next    \* position in CopyOrder

loadVars == <<file, todo, field, stage, next>>

Nil == [of |-> "nil"]
Fields == {"Embedding", "FinalNorm", "FinalNormBias", "OutputHead", "AttnNorm", "AttnNormBias",
           "Wqkv", "WqkvBias", "Wq", "Wk", "Wv", "WqBias", "WkBias", "WvBias", "Wo", "WoBias",
           "FFNNorm", "FFNNormBias", "W1W3", "W1", "W3", "W1Bias", "W2", "W2Bias",
           "PostAttnNorm", "PostFFNNorm",
           "ExpertGate", "ExpertGateProj", "ExpertUpProj", "ExpertDownProj"}

-----------------------------------------------------------------------------
(* The file.                                                               *)

\* gguf.go: elements and bytes of a block; Q4_1 takes the default of 32 bytes.
BlockSize(t) ==
  CASE t \in {"f32", "f16", "bf16"} -> 1
    [] t \in {"q4_k", "q5_k", "q6_k"} -> 256
    [] OTHER -> 32
BytesPerBlock(t) ==
  CASE t = "f32" -> 4 [] t \in {"f16", "bf16"} -> 2
    [] t = "q4_0" -> 18 [] t = "q5_0" -> 22 [] t = "q5_1" -> 24 [] t = "q8_0" -> 34
    [] t = "q4_k" -> 144 [] t = "q5_k" -> 176 [] t = "q6_k" -> 210 [] OTHER -> 32
\* ReadTensorData: whole blocks.
DataSize(t, n) == ((n + BlockSize(t) - 1) \div BlockSize(t)) * BytesPerBlock(t)

QKV == Size.q + 2 * Size.kv
Odd == IF file.odd THEN Size.kv ELSE 0
\* The elements of a tensor, by its name.
Elements(name) ==
  LET h == Size.hidden  i == Size.inter
  IN CASE name \in {"embed", "lm_head"} -> Size.vocab * h
       [] name \in {"q", "o"} -> Size.q * h
       [] name \in {"k", "v"} -> Size.kv * h
       [] name = "qkv" -> (QKV + Odd) * h
       [] name = "q.bias" -> Size.q
       [] name \in {"k.bias", "v.bias"} -> Size.kv
       [] name = "qkv.bias" -> QKV + Odd
       [] name \in {"gate", "up", "down", "fc1", "fc2"} -> i * h
       [] name = "fc1.bias" -> i
       [] name = "gate_up" -> (2 * i + Odd) * h
       [] name = "router" -> Size.experts * h
       [] name \in {"experts.gate", "experts.up", "experts.down"} -> Size.experts * i * h
       [] OTHER -> h

\* requiredTensorNames, in its order, for one layer.
LayerNames(a) ==
  CASE a.mlp = "gelu" ->
         <<"qkv", "o", "fc1", "fc2", "input_ln",
           "qkv.bias", "o.bias", "fc1.bias", "fc2.bias", "input_ln.bias">>
    [] a.mlp = "swiglufused" -> <<"qkv", "o", "gate_up", "down", "input_ln", "post_ln">>
    [] a.mlp = "moe" ->
         <<"q", "k", "v", "o", "router", "experts.gate", "experts.up", "experts.down",
           "input_ln", "post_ln">>
    [] OTHER ->
         <<"q", "k", "v", "o", "gate", "up", "down", "input_ln", "post_ln">>
           \o (IF a.post THEN <<"post_attn", "post_ffw">> ELSE <<>>)
           \o (IF "q" \in a.bias THEN <<"q.bias", "k.bias", "v.bias">> ELSE <<>>)
requiredTensorNames(a) ==
  <<"embed", "norm", "lm_head">>
    \o (IF a.norm = "layer" THEN <<"norm.bias">> ELSE <<>>) \o LayerNames(a)

\* GetTensorInfo on the GGUF name, then on alternativeGGUFNames (without
\* ".weight", with "model." in front).
Found(name) ==
  name \notin file.gone /\ (file.source = "safetensors" \/ file.naming \in {"gguf", "alt"})

\* The type a tensor is stored with.
Group(name) ==
  CASE name \in {"q", "k", "v", "qkv"} -> "qkv"
    [] name = "o" -> "wo"
    [] name \in {"gate", "up", "gate_up", "fc1", "router", "experts.gate", "experts.up"} -> "w13"
    [] name \in {"down", "fc2", "experts.down"} -> "w2"
    [] name = "lm_head" -> "head"
    [] name = "embed" -> "embed"
    [] OTHER -> "none"
TypeOf(name) == IF Group(name) = "none" THEN "f32" ELSE file.type[Group(name)]

-----------------------------------------------------------------------------
(* LoadWeightsGGUF, LoadWeightsF32 and LoadWeightsSafetensors.             *)

\* By the name's "self_attn." or "mlp.": the biases of those count too.
isWeightMatrix(name) ==
  \/ Group(name) \in {"qkv", "wo", "w13", "w2"}
  \/ name \in {"q.bias", "k.bias", "v.bias", "qkv.bias", "o.bias", "fc1.bias", "fc2.bias"}

\* The seven branches of LoadWeightsGGUF that keep the raw bytes.
KeepsRaw(name) ==
  /\ file.source = "gguf"
  /\ \/ TypeOf(name) = "q4_0" /\ isWeightMatrix(name)
     \/ TypeOf(name) \in Profiles \ {"q4_0"} /\ (isWeightMatrix(name) \/ name = "lm_head")

View(name, quant, enc, room) ==
  [of |-> name, at |-> 0, n |-> Elements(name), quant |-> quant, enc |-> enc,
   room |-> room, loc |-> "cpu"]

\* LoadTensorRaw: the bytes of the file and the profile of their type.
LoadTensorRaw(name) ==
  View(name, TypeOf(name), TypeOf(name), DataSize(TypeOf(name), Elements(name)))

\* LoadTensor: Dequantize, which returns zeros for a type it does not know.
Dequantize(t) == IF t = "q4_1" THEN "zero" ELSE "f32"
LoadTensor(name) == View(name, "none", Dequantize(TypeOf(name)), 4 * Elements(name))

\* Safetensors: BF16 becomes F32, anything else is pointed at where it lies.
MapSafetensor(name) ==
  IF TypeOf(name) = "bf16" THEN View(name, "none", "f32", 4 * Elements(name))
  ELSE View(name, "none", TypeOf(name), DataSize(TypeOf(name), Elements(name)))

Read(name) ==
  CASE file.source = "safetensors" -> MapSafetensor(name)
    [] KeepsRaw(name) -> LoadTensorRaw(name)
    [] OTHER -> LoadTensor(name)

-----------------------------------------------------------------------------
(* mapTensor and the splits.                                               *)

\* mapTensor: the field a name belongs to.
FieldOf ==
  ("embed" :> "Embedding") @@ ("norm" :> "FinalNorm")
  @@ ("norm.bias" :> "FinalNormBias") @@ ("lm_head" :> "OutputHead")
  @@ ("q" :> "Wq") @@ ("k" :> "Wk") @@ ("v" :> "Wv")
  @@ ("q.bias" :> "WqBias") @@ ("k.bias" :> "WkBias") @@ ("v.bias" :> "WvBias")
  @@ ("qkv" :> "Wqkv") @@ ("qkv.bias" :> "WqkvBias") @@ ("o" :> "Wo") @@ ("o.bias" :> "WoBias")
  @@ ("gate" :> "W1") @@ ("up" :> "W3") @@ ("down" :> "W2") @@ ("gate_up" :> "W1W3")
  @@ ("fc1" :> "W1") @@ ("fc1.bias" :> "W1Bias") @@ ("fc2" :> "W2") @@ ("fc2.bias" :> "W2Bias")
  @@ ("router" :> "ExpertGate") @@ ("experts.gate" :> "ExpertGateProj")
  @@ ("experts.up" :> "ExpertUpProj") @@ ("experts.down" :> "ExpertDownProj")
  @@ ("input_ln" :> "AttnNorm") @@ ("input_ln.bias" :> "AttnNormBias")
  @@ ("post_ln" :> "FFNNorm") @@ ("post_ln.bias" :> "FFNNormBias")
  @@ ("post_attn" :> "PostAttnNorm") @@ ("post_ffw" :> "PostFFNNorm")

\* Mutant: a Q5_0 block of the size of a Q5_1 block.
Block_Q5(quant) ==
  CASE quant = "q4_0" -> <<32, 18>> [] quant = "q5_0" -> <<32, 24>> [] quant = "q8_0" -> <<32, 34>>
    [] quant = "q4_k" -> <<256, 144>> [] quant = "q5_k" -> <<256, 176>>
    [] quant = "q6_k" -> <<256, 210>> [] quant = "bf16" -> <<1, 2>> [] OTHER -> <<1, 4>>
\* blockSize and bytesPerBlock of the splits; four bytes an element if F32.
Block(quant) ==
  CASE quant = "q4_0" -> <<32, 18>> [] quant = "q5_0" -> <<32, 22>> [] quant = "q8_0" -> <<32, 34>>
    [] quant = "q4_k" -> <<256, 144>> [] quant = "q5_k" -> <<256, 176>>
    [] quant = "q6_k" -> <<256, 210>> [] quant = "bf16" -> <<1, 2>> [] OTHER -> <<1, 4>>

\* n elements of t from element `from` on.
Part(t, from, n) ==
  LET off == (from \div Block(t.quant)[1]) * Block(t.quant)[2]
  IN [t EXCEPT !.at = @ + off, !.n = n, !.room = @ - off]
Aligned(t, n) == n % Block(t.quant)[1] = 0

\* splitQKVWeight, and splitQKVGPU on the copy.
SplitQKV(fs) ==
  LET t == fs["Wqkv"]  q == Size.q * Size.hidden  k == Size.kv * Size.hidden
  IN IF t.n # QKV * Size.hidden \/ ~Aligned(t, q) \/ ~Aligned(t, k) THEN fs
     ELSE [fs EXCEPT !["Wq"] = Part(t, 0, q), !["Wk"] = Part(t, q, k),
                     !["Wv"] = Part(t, q + k, k)]
\* splitQKVBias tests the size, splitQKVBiasGPU does not.
SplitBias(fs) ==
  LET t == fs["WqkvBias"]
  IN [fs EXCEPT !["WqBias"] = Part(t, 0, Size.q), !["WkBias"] = Part(t, Size.q, Size.kv),
                !["WvBias"] = Part(t, Size.q + Size.kv, Size.kv)]
\* splitGateUpWeight, and splitGateUpGPU on the copy.
SplitGateUp(fs) ==
  LET t == fs["W1W3"]  g == Size.inter * Size.hidden
  IN IF t.n # 2 * g \/ ~Aligned(t, g) THEN fs
     ELSE [fs EXCEPT !["W1"] = Part(t, 0, g), !["W3"] = Part(t, g, g)]

mapTensor(fs, name, t) ==
  LET put == [fs EXCEPT ![FieldOf[name]] = t]
  IN CASE name = "qkv" -> SplitQKV(put)
       [] name = "qkv.bias" -> IF t.n = QKV THEN SplitBias(put) ELSE put
       [] name = "gate_up" -> SplitGateUp(put)
       [] OTHER -> put

\* One turn of the loop over the names: a tensor that is missing or cannot be
\* read is skipped with a warning. Safetensors are visited in map order.
Load ==
  /\ stage = "load" /\ todo # <<>>
  /\ \E i \in (IF file.source = "safetensors" THEN DOMAIN todo ELSE {1}) :
       /\ todo' = RemoveAt(todo, i)
       /\ field' = IF Found(todo[i]) THEN mapTensor(field, todo[i], Read(todo[i]))
                   ELSE field
  /\ UNCHANGED <<file, stage, next>>

Loaded ==
  /\ stage = "load" /\ todo = <<>>
  /\ stage' = "copy"
  /\ UNCHANGED <<file, todo, field, next>>

-----------------------------------------------------------------------------
(* CopyWeightsToDevice.                                                    *)

\* sizeBytes of copyToDevice.
SizeBytes(t) ==
  CASE t.quant = "q4_0" -> ((t.n + 31) \div 32) * 18
    [] t.quant = "q5_0" -> ((t.n + 31) \div 32) * 22
    [] t.quant = "q8_0" -> ((t.n + 31) \div 32) * 34
    [] t.quant = "q4_k" -> ((t.n + 255) \div 256) * 144
    [] t.quant = "q5_k" -> ((t.n + 255) \div 256) * 176
    [] t.quant = "q6_k" -> ((t.n + 255) \div 256) * 210
    [] t.quant = "bf16" -> t.n * 2
    [] OTHER -> t.n * 4

\* copyToDevice: reads SizeBytes bytes from the host, however many there are.
copyToDevice(fs, f) ==
  LET t == fs[f]
  IN IF t = Nil \/ t.loc = file.dev THEN fs
     ELSE [fs EXCEPT ![f] = [t EXCEPT !.loc = file.dev, !.room = SizeBytes(t),
                                      !.enc = IF SizeBytes(t) > t.room THEN "overread" ELSE @]]
OnHost(fs, f) == fs[f] # Nil /\ fs[f].loc # file.dev

\* The steps of CopyWeightsToDevice, in order.
CopyOrder ==
  <<"Embedding", "FinalNorm", "FinalNormBias", "OutputHead", "tie", "AttnNorm", "AttnNormBias",
    "qkv", "WqBias", "WkBias", "WvBias", "Wo", "WoBias", "FFNNorm", "FFNNormBias", "gate_up",
    "W1Bias", "W2", "W2Bias", "PostAttnNorm", "PostFFNNorm",
    "ExpertGate", "ExpertGateProj", "ExpertUpProj", "ExpertDownProj">>

\* A combined tensor is copied as a whole, and its parts become views of the
\* copy; otherwise the parts are copied one by one.
CopyQKV(fs) ==
  IF OnHost(fs, "Wqkv")
  THEN LET b == copyToDevice(SplitQKV(copyToDevice(fs, "Wqkv")), "WqkvBias")
       IN IF b["WqkvBias"] # Nil /\ b["WqkvBias"].loc = file.dev THEN SplitBias(b) ELSE b
  ELSE copyToDevice(copyToDevice(copyToDevice(fs, "Wq"), "Wk"), "Wv")
CopyGateUp(fs) ==
  IF OnHost(fs, "W1W3") THEN SplitGateUp(copyToDevice(fs, "W1W3"))
  ELSE copyToDevice(copyToDevice(fs, "W1"), "W3")

\* Weight tying: a file without lm_head uses the embedding.
Tie(fs) ==
  IF fs["OutputHead"] = Nil /\ fs["Embedding"] # Nil
  THEN [fs EXCEPT !["OutputHead"] = fs["Embedding"]] ELSE fs

Copied(fs, step) ==
  CASE step = "tie" -> Tie(fs)
    [] step = "qkv" -> CopyQKV(fs)
    [] step = "gate_up" -> CopyGateUp(fs)
    [] OTHER -> copyToDevice(fs, step)

Copy ==
  /\ stage = "copy"
  /\ field' = Copied(field, CopyOrder[next])
  /\ next' = next + 1
  /\ stage' = IF next = Len(CopyOrder) THEN "done" ELSE "copy"
  /\ UNCHANGED <<file, todo>>

\* The device has no room for a tensor: initModel gives up.
CopyFails ==
  /\ stage = "copy"
  /\ Copied(field, CopyOrder[next]) # field /\ CopyOrder[next] # "tie"
  /\ stage' = "failed"
  /\ UNCHANGED <<file, todo, field, next>>

LoadInit ==
  /\ file \in Files
  /\ todo = requiredTensorNames(Arch[file.arch])
  /\ field = [f \in Fields |-> Nil]
  /\ stage = "load" /\ next = 1

LoadNext == Load \/ Loaded \/ Copy \/ CopyFails

-----------------------------------------------------------------------------
(* What it is for the weights to be exact.                                 *)

Cfg == Arch[file.arch]
Combined == Cfg.mlp \in {"gelu", "swiglufused"}
If(b, S) == IF b THEN S ELSE {}

\* The fields the layer and the model read for this architecture.
Reads ==
  {"Embedding", "FinalNorm", "OutputHead", "AttnNorm", "Wq", "Wk", "Wv", "Wo"}
  \cup If(Cfg.norm = "layer", {"FinalNormBias", "AttnNormBias"})
  \cup If(Combined, {"Wqkv"})
  \cup If("q" \in Cfg.bias, {"WqBias", "WkBias", "WvBias"})
  \cup If(Cfg.mlp = "gelu", {"WqkvBias", "WoBias", "W1Bias", "W2Bias"})
  \cup If(~Cfg.parallel, {"FFNNorm"} \cup If(Cfg.norm = "layer", {"FFNNormBias"}))
  \cup If(Cfg.mlp = "moe", {"ExpertGate", "ExpertGateProj", "ExpertUpProj", "ExpertDownProj"})
  \cup If(Cfg.mlp # "moe", {"W1", "W2"} \cup If(Cfg.mlp # "gelu", {"W3"}))
  \cup If(Cfg.mlp = "swiglufused", {"W1W3"})
  \cup If(Cfg.post, {"PostAttnNorm", "PostFFNNorm"})

Whole(name) == [of |-> name, from |-> 0, n |-> Elements(name)]
Slice(name, from, n, w) == [of |-> name, from |-> from * w, n |-> n * w]

\* The file's own layout of what a field stands for. In an odd file the query
\* rows, or the gate and up rows, are more than the configuration says.
Wanted(f) ==
  LET h == Size.hidden
      q == Size.q + Odd
      k == Size.kv
      i == Size.inter + Odd \div 2
  IN CASE Combined /\ f = "Wq" -> Slice("qkv", 0, q, h)
       [] Combined /\ f = "Wk" -> Slice("qkv", q, k, h)
       [] Combined /\ f = "Wv" -> Slice("qkv", q + k, k, h)
       [] Combined /\ f = "WqBias" -> Slice("qkv.bias", 0, q, 1)
       [] Combined /\ f = "WkBias" -> Slice("qkv.bias", q, k, 1)
       [] Combined /\ f = "WvBias" -> Slice("qkv.bias", q + k, k, 1)
       [] Cfg.mlp = "swiglufused" /\ f = "W1" -> Slice("gate_up", 0, i, h)
       [] Cfg.mlp = "swiglufused" /\ f = "W3" -> Slice("gate_up", i, i, h)
       [] Cfg.mlp = "gelu" /\ f = "W1" -> Whole("fc1")
       [] Cfg.mlp = "gelu" /\ f = "W2" -> Whole("fc2")
       [] f = "OutputHead" /\ ~Found("lm_head") -> Whole("embed")
       [] OTHER -> Whole(CHOOSE n \in DOMAIN FieldOf : FieldOf[n] = f /\ n \notin {"fc1", "fc2"})

\* The profiles the consumer of a field has a kernel for: matMulTransposed all,
\* outputHeadMatMul all but BF16, the CPU backend only Q4_0.
Kernels(f) ==
  IF file.dev = "cpu" THEN {"q4_0"}
  ELSE IF f = "OutputHead" THEN Profiles \ {"bf16"}
  ELSE Profiles

\* A field holds, on the device, the bytes of its rows, all of them, and a
\* kernel decodes them as what they are.
Exact(f) ==
  LET t == field[f]  w == Wanted(f)
  IN /\ t # Nil /\ t.of = w.of /\ t.n = w.n /\ t.loc = file.dev
     /\ \/ t.quant = "none" /\ t.enc = "f32"
        \/ t.quant = t.enc /\ t.quant \in Kernels(f)
     /\ t.at = DataSize(t.enc, w.from) /\ t.room >= DataSize(t.enc, t.n)

\* What keeps a field from being exact: its tensor is absent or stored in a
\* type Dequantize does not know; F16 safetensors are taken for F32; a combined
\* tensor of unexpected rows is not split; a serial GELU model's FFN norm is
\* never asked for; the combined bias is only copied along with its matrix; and
\* no kernel for the profile.
Incomplete(f) ==
  LET name == Wanted(f).of
  IN \/ ~Found(name)
     \/ file.source # "safetensors" /\ TypeOf(name) = "q4_1"
     \/ file.source = "safetensors" /\ TypeOf(name) = "f16"
     \/ file.odd /\ name \in {"qkv", "qkv.bias", "gate_up"} /\ f \notin {"Wqkv", "WqkvBias", "W1W3"}
     \/ f \in {"FFNNorm", "FFNNormBias"} /\ Cfg.mlp = "gelu"
     \/ f = "WqkvBias" /\ ~Found("qkv") /\ file.dev # "cpu"
     \/ KeepsRaw(name) /\ TypeOf(name) \notin Kernels(f)

AllExact == \A f \in Reads : Exact(f) <=> ~Incomplete(f)

=============================================================================
