---------------------------- MODULE UserDirectory ----------------------------
(***************************************************************************)
(* What POST /api/v1/auth/register promises, with no server, session or    *)
(* connection in sight: a directory of rows, what every client was told,   *)
(* and the promises (a 201 answer) whose row is not in the directory yet.  *)
(* A client may be gone when its answer comes; it is told nothing then, and *)
(* a promise it did not hear is kept or broken like any other.             *)
(*                                                                         *)
(* Registration implements this module.  The directory keeps a promise or  *)
(* breaks it, but it never promises one identity twice and never refuses   *)
(* an identity for a reason that is not in the directory.                  *)
(***************************************************************************)
CONSTANTS
    Requests,   \* registration requests
    Fields,     \* the fields that must be unique
    Values,     \* the values these fields can have
    Failures    \* the answers that refuse a request for its own reasons

VARIABLES
    identity,       \* identity[r][f]: the value request r claims for field f
    rows,           \* requests whose row is in the users table
    told,           \* told[r]: the answer r's client has received
    open            \* promises: answered 201, neither stored nor abandoned

dirVars == <<identity, rows, told, open>>

(* Two requests claim the same value for some unique field. *)
Clash(r, q) == \E f \in Fields : identity[r][f] = identity[q][f]

Init == /\ identity \in [Requests -> [Fields -> Values]]
        /\ rows = {}
        /\ told = [r \in Requests |-> "none"]
        /\ open = {}

(* The client of r has heard nothing, and no promise to it is open or kept. *)
Unanswered(r) == told[r] = "none" /\ r \notin rows \cup open

(* A 201 for r, heard or not; no row and no other promise has its identity. *)
Promise(r) ==
    /\ Unanswered(r)
    /\ \A q \in rows \cup open : ~Clash(r, q)
    /\ told' \in {told, [told EXCEPT ![r] = "created"]}
    /\ open' = open \cup {r}
    /\ UNCHANGED <<identity, rows>>

(* The promise is kept: the row becomes visible to every other request. *)
Store(r) ==
    /\ r \in open
    /\ rows' = rows \cup {r}
    /\ open' = open \ {r}
    /\ UNCHANGED <<identity, told>>

(* The promise is abandoned: the identity is free again. *)
Break(r) ==
    /\ r \in open
    /\ open' = open \ {r}
    /\ UNCHANGED <<identity, rows, told>>

(* A 409 for field f: another request's row has that value. *)
Refuse(r, f) ==
    /\ Unanswered(r)
    /\ \E q \in rows : identity[r][f] = identity[q][f]
    /\ told' = [told EXCEPT ![r] = f]
    /\ UNCHANGED <<identity, rows, open>>

(* A 400 or a 500. *)
Fail(r, why) ==
    /\ Unanswered(r)
    /\ told' = [told EXCEPT ![r] = why]
    /\ UNCHANGED <<identity, rows, open>>

Next == \E r \in Requests :
            \/ Promise(r)
            \/ Store(r)
            \/ Break(r)
            \/ \E f \in Fields : Refuse(r, f)
            \/ \E why \in Failures : Fail(r, why)

Spec == Init /\ [][Next]_dirVars
==============================================================================
