------------------------- MODULE MCPipelineControl --------------------------
(* Instances of PipelineControl for TLC: handlers of a kind are alike.      *)
EXTENDS PipelineControl, TLC

Symmetric == Permutations(Users) \cup Permutations(Reports)
=============================================================================
