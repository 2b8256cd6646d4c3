--------------------------- MODULE MCMedusaTrainer ---------------------------
(* MedusaTrainer with both commands, fresh and loaded heads, and the        *)
(* trainer of a build without a GPU.                                        *)
EXTENDS MedusaTrainer

MCConfigs ==
  {[cmd |-> c, cache |-> k, gpu |-> TRUE, loaded |-> l] :
     c \in {"serve", "generate"}, k \in {"gpu", "paged"}, l \in BOOLEAN}
  \cup {[cmd |-> "generate", cache |-> "gpu", gpu |-> FALSE, loaded |-> TRUE]}

=============================================================================
