----------------------------- MODULE MCHttpHost ------------------------------
(***************************************************************************)
(* Instances of HttpHost: the constants are given in the configurations.   *)
(***************************************************************************)
EXTENDS HttpHost, TLC
=============================================================================
