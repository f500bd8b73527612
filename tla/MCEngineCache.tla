---------------------------- MODULE MCEngineCache ----------------------------
(* EngineCache on small sets, for TLC. *)
EXTENDS EngineCache, TLC

(* A script or a test, the server, and threads that do as they please. *)
MCUses ==
    {[threads |-> {t}, keys |-> Keys, clears |-> TRUE] : t \in Threads}
      \cup {[threads |-> Threads, keys |-> {k}, clears |-> FALSE] : k \in Keys}
      \cup {[threads |-> Threads, keys |-> Keys, clears |-> TRUE]}

MCSymmetry == Permutations(Threads)
===============================================================================
