---------------------------- MODULE MCLogPipeline ----------------------------
(* LogPipeline for TLC; its sets are given in the configurations. *)
EXTENDS LogPipeline

(* The queue can be full when the first pipeline is stopped, and one more  *)
(* record goes to the second.                                              *)
MCMaxRecords == <<3, 1>>
===============================================================================
