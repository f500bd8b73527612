---------------------------- MODULE MCRegistration ----------------------------
(* Registration on small sets, for TLC. *)
EXTENDS Registration, TLC

(* Two values, one of them also typed in upper case. *)
MCSpellings == {"a", "A", "b"}
MCLower == [x \in MCSpellings |-> IF x = "A" THEN "a" ELSE x]

Payload(e, u) == [f \in Fields |-> IF f = "email" THEN e ELSE u]

(* The first clashes with the second in the email only and with the third  *)
(* in the username only, up to case; those two do not clash.  Requests with *)
(* the same payload clash in both.  One payload is malformed.              *)
MCValidBodies == {Payload("A", "a"), Payload("a", "b"), Payload("b", "A")}
MCBodies == MCValidBodies \cup {Payload("b", "b")}

(* Fewer payloads, for the runs that cost more per state: two requests     *)
(* clash in both fields, or in the username, which is reached with the     *)
(* entry for the email already held.                                       *)
MCFewBodies == {Payload("a", "a"), Payload("b", "A")}

MCSymmetry == Permutations(Requests) \cup Permutations(Servers)
===============================================================================
