-------------------------- MODULE MCRequestPipeline --------------------------
(* RequestPipeline for TLC; its sets are given in the configurations. *)
EXTENDS RequestPipeline
===============================================================================
