------------------------------ MODULE MCEngine ------------------------------
(* Instances of Engine for TLC; the bounds are in the configurations.      *)
EXTENDS Engine
=============================================================================
