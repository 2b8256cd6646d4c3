---------------------------- MODULE ModelConfig ----------------------------
(***************************************************************************)
(* What the architecture name of a GGUF file decides                       *)
(* (runtime/config.go, ModelConfigFromGGUF): the settings both the weight  *)
(* loader (WeightLoader) and the layer (Layer) branch on.                  *)
(***************************************************************************)

\* The settings of one architecture; bias names the projections with a bias.
A(norm, mlp, bias, parallel, neox, softcap, post) ==
  [norm |-> norm, mlp |-> mlp, bias |-> bias, parallel |-> parallel,
   neox |-> neox, softcap |-> softcap, post |-> post]

\* HasBias: the projections of a GELU model that carry a bias.
AllBias == {"q", "k", "v", "o", "w1", "w2"}

\* ModelConfigFromGGUF. mistral is configured as llama, phi as phi2, gptneox as
\* gpt2 and deepseek2 as deepseek.
Arch ==
  [llama    |-> A("rms", "swiglu", {}, FALSE, FALSE, FALSE, FALSE),
   qwen2    |-> A("rms", "swiglu", {"q", "k", "v"}, FALSE, TRUE, FALSE, FALSE),
   phi2     |-> A("layer", "gelu", AllBias, TRUE, TRUE, FALSE, FALSE),
   phi3     |-> A("rms", "swiglufused", {}, FALSE, TRUE, FALSE, FALSE),
   gpt2     |-> A("layer", "gelu", AllBias, FALSE, TRUE, FALSE, FALSE),
   gemma    |-> A("rms", "geglu", {}, FALSE, TRUE, FALSE, FALSE),
   gemma2   |-> A("rms", "geglu", {}, FALSE, TRUE, TRUE, TRUE),
   deepseek |-> A("rms", "moe", {}, FALSE, FALSE, FALSE, FALSE)]

=============================================================================
