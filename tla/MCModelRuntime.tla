--------------------------- MODULE MCModelRuntime ---------------------------
(***************************************************************************)
(* The files of the run "layer".                                           *)
(***************************************************************************)
EXTENDS ModelRuntime

Uniform(t) == [g \in Groups |-> t]
File(a, s, n, t, g, o, d) ==
  [arch |-> a, source |-> s, naming |-> n, type |-> t, gone |-> g, odd |-> o, dev |-> d]

\* Files that are well formed, with every mix of the formats the fused kernels
\* tell apart, and with Q5_K, whose kernel honours offsets, for the tensors that
\* can be views: their layers are followed.
Mixes ==
  {[qkv |-> q, wo |-> o, w13 |-> g, w2 |-> d, head |-> "q6_k", embed |-> "q4_k"] :
     q, o, g, d \in {"q4_0", "q4_k", "f32"}}
  \cup {[qkv |-> q, wo |-> o, w13 |-> g, w2 |-> o, head |-> "q6_k", embed |-> "q4_k"] :
     q, g \in {"q5_k", "q4_k"}, o \in {"q5_k", "q4_k"}}
MixedFiles == {File(a, "gguf", "gguf", t, {}, FALSE, "gpu") : a \in DOMAIN Arch \ {"deepseek"}, t \in Mixes}

\* Every type, both GGUF loaders and both devices; files with missing tensors,
\* other names or other shapes; safetensors files.
Others ==
  {File(a, s, n, Uniform(t), {}, FALSE, d) :
     a \in DOMAIN Arch, s \in {"gguf", "f32"}, n \in {"gguf", "alt"}, t \in Types, d \in {"gpu", "cpu"}}
  \cup {File(a, "gguf", n, Uniform(t), g, o, "gpu") :
     a \in DOMAIN Arch, n \in {"gguf", "hf"}, t \in {"q5_0", "bf16"},
     g \in {{"lm_head"}, {"embed", "q"}, {"qkv"}, {"qkv.bias", "down"}}, o \in BOOLEAN}
  \cup {File(a, "safetensors", "hf", Uniform(t), g, FALSE, "gpu") :
     a \in {"phi3", "llama"}, t \in {"f32", "f16", "bf16"}, g \in {{"lm_head"}}}
AllFiles == MixedFiles \cup Others

\* 2 query heads and 1 key-value head of 128 dimensions.
Sizes == [hidden |-> 256, q |-> 256, kv |-> 128, inter |-> 512, vocab |-> 1000, experts |-> 2]

=============================================================================
