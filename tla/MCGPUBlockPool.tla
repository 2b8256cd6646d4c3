--------------------------- MODULE MCGPUBlockPool ----------------------------
(***************************************************************************)
(* Instances of GPUBlockPool for TLC.                                      *)
(***************************************************************************)
EXTENDS GPUBlockPool
=============================================================================
