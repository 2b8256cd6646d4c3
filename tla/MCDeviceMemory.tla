--------------------------- MODULE MCDeviceMemory ---------------------------
(* A model with rows of 64 bytes per KV head: with 64 rows the FP16 cache's *)
(* buffers have 2048 bytes, the size of the intermediates of some prompt    *)
(* lengths (2, 4, 8, 32, 64) and of none of the others.                     *)
EXTENDS DeviceMemory

MCDims == [hidden |-> 64, heads |-> 4, kvHeads |-> 2, headDim |-> 8, inter |-> 128, vocab |-> 1000]
MCLengths == {1, 3, 8, 50, 80}
MCAliasLengths == {1, 8}
=============================================================================
