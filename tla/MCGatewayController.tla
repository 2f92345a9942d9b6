------------------------ MODULE MCGatewayController -------------------------
EXTENDS GatewayController, TLC

(* Workers are interchangeable.                                            *)
Symmetry == Permutations(Workers)
=============================================================================
