------------------------------- MODULE MCInfra -------------------------------
(* Two kinds stand for the four: one whose informer is awaited (the        *)
(* Service), and one whose informer is not (the Deployment).  The template *)
(* has the Service last.                                                   *)
EXTENDS InfraDeployer, TLC

Order == <<"Deployment", "Service">>
=============================================================================
