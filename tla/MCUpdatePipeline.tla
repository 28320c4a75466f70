--------------------------- MODULE MCUpdatePipeline ---------------------------
(* Model values for UpdatePipeline: two versions that nothing tells apart.   *)
EXTENDS UpdatePipeline, TLC

CONSTANTS v1, v2

Two == {v1, v2}
VersionSymmetry == Permutations(Version)
=============================================================================
