---------------------------- MODULE ModelRuntime ----------------------------
(***************************************************************************)
(* A model from its file to its layers: WeightLoader loads the weights and *)
(* copies them to the device, and Layer then runs forward passes on what   *)
(* was loaded: which tensors are there and in which format.                *)
(***************************************************************************)
EXTENDS WeightLoader, Layer

CONSTANT Followed   \* the files whose layers are followed, a subset of Files

ASSUME FollowedAssumption ==
  \A f \in Followed : f \in Files /\ f.gone = {} /\ ~f.odd /\ f.arch # "deepseek"

vars == <<loadVars, layerVars>>

\* The format of a field, as the dispatch sees its profile.
Format(f) == IF field[f].quant = "none" THEN "f32" ELSE field[f].quant
Weights ==
  [wqkv |-> field["Wqkv"] # Nil, w1w3 |-> field["W1W3"] # Nil,
   ffnNorm |-> field["FFNNorm"] # Nil,
   qkv |-> Format("Wq"), wo |-> Format("Wo"), w13 |-> Format("W1"), w2 |-> Format("W2")]

\* The first forward pass, on the weights as they were loaded.
Begin ==
  /\ pc = "idle" /\ stage = "done" /\ file \in Followed
  /\ Start(file.arch, Weights)
  /\ UNCHANGED loadVars

Init == LoadInit /\ LayerInit
Next ==
  \/ LoadNext /\ UNCHANGED layerVars
  \/ Begin
  \/ LayerNext /\ UNCHANGED loadVars
Spec == Init /\ [][Next]_vars

-----------------------------------------------------------------------------
(* Properties, besides those of Layer.                                     *)

\* Once CopyWeightsToDevice has returned without error, every field the model
\* reads is exact, whatever the architecture, the formats of its tensors, the
\* loader and the order of the file: the rows cut from combined tensors on the
\* host and again on the device are the right ones to the byte, and the block
\* tables of the file reader, the splits and the copy agree. The exceptions
\* are those Incomplete lists, and each of those is one. (No pass writes a
\* weight: it is enough to look before the first.)
WeightsExact == pc = "idle" /\ stage = "done" => AllExact

=============================================================================
