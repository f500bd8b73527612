------------------------------ MODULE MCAuthGate ------------------------------
(* AuthGate on small numbers, for TLC. *)
EXTENDS AuthGate, TLC

(* Negative, None, shorter and longer than the default. *)
MCDeltas == {-1, 0, 1, 5}

(* Nothing more is said of a request once it is answered: the state in      *)
(* which the last one is answered is checked, its successors are not made.  *)
SomeRequestOpen == \E q \in Requests : req[q].step # "answered"

(* The last version of the row is only followed while the clock is young:   *)
(* what is said of versions needs no old tokens, nor the reverse.           *)
LastVersionIsEarly == Len(history) = MaxVersions => now <= 5

Explored == SomeRequestOpen /\ LastVersionIsEarly

MCSymmetry == Permutations(Servers)
===============================================================================
