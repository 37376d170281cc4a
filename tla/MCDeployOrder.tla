----------------------------- MODULE MCDeployOrder -----------------------------
(* Values of the fields of an order for TLC. *)
EXTENDS DeployOrder

\* The limits of sizeGb and their neighbours outside.
BoundarySizes == {0, 1, VOLUME_MAX_GB, VOLUME_MAX_GB + 1}

AnotherCategory == {"cloud-gpu"}
===============================================================================
