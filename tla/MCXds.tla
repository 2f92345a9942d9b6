-------------------------------- MODULE MCXds --------------------------------
(* Two Gateways, so that two nodes share the version counter.              *)
EXTENDS XdsControlPlane, TLC

Symmetry == Permutations(Workers)
=============================================================================
