--------------------------- MODULE MCPagedKVCache ----------------------------
(* Instances of PagedKVCache for TLC.                                      *)
EXTENDS PagedKVCache

\* One layer with fragments, and two layers without: block numbers of
\* different layers share their reference counts.
BothConfigs ==
  {[NumLayers |-> 1, BlockSize |-> 2, MaxBlocks |-> 3, MaxLen |-> 5,
    Names |-> {"system"}],
   [NumLayers |-> 2, BlockSize |-> 2, MaxBlocks |-> 3, MaxLen |-> 4,
    Names |-> {}]}

\* Either client may leave in the middle of a forward pass.
BothLeave == {1, 2}
=============================================================================
