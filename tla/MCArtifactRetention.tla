------------------------ MODULE MCArtifactRetention ------------------------
(* Instances of ArtifactRetention for TLC. *)
EXTENDS ArtifactRetention

CONSTANTS w1, w2, w3, x1, x2, f1
=============================================================================
