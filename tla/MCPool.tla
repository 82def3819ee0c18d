------------------------------- MODULE MCPool -------------------------------
(***************************************************************************)
(* As many requests as the model values of the configuration.              *)
(***************************************************************************)
EXTENDS PoolProperties
=============================================================================
