------------------------------ MODULE Validation ------------------------------
(***************************************************************************)
(* The parts that are functions of their input: a process reads its        *)
(* settings, parses a payload, or builds its schema.  Each behaviour takes *)
(* one input, and the property of its module must hold of it.              *)
(***************************************************************************)
EXTENDS Naturals, Sequences

CONSTANTS
    Absent, Refused, None, Rejected,
    MinLength, MaxLength, PasswordMinLength, PasswordMaxLength, Reserved,
    Environs,   \* the environments of a process
    Dotenvs,    \* the contents of its .env file
    Forms,      \* sets of payloads, by what varies in them
    RouteSets   \* the routes an application may have

VARIABLE input

Config == INSTANCE Settings
Users == INSTANCE UserSchemas
OpenApi == INSTANCE OpenApiPatch

(* A key is of one of these kinds, and of any length; a pattern can be     *)
(* guessed, such as a word or a pair of characters over and over, but is   *)
(* neither listed nor one character repeated.                              *)
Stems == {"placeholder", "listed_placeholder", "listed", "repeated", "pattern", "random"}
Keys == [stem : Stems, upper : BOOLEAN, length : Nat]

ASSUME ValidationAssumption ==
    /\ \A source \in Environs \union Dotenvs :
          source["SECRET_KEY"] \in Keys \union {Absent}
    /\ Rejected # None
    /\ \A form \in Forms : \A payload \in form :
          /\ payload.email # None => payload.email \in Seq(Users!Characters)
          /\ payload.username # None => payload.username \in Seq(Users!Characters)
    /\ Reserved \subseteq Seq(Users!Lowers \union Users!Digits \union {"_"})
    /\ RouteSets \subseteq SUBSET OpenApi!Routes
    /\ \A routes \in RouteSets : OpenApi!Register \in routes
    /\ None \notin OpenApi!Models

-------------------------------------------------------------------------------
InputInit == input = None

Take(task, args) == input' = [task |-> task, args |-> args]

LoadSettings ==
    /\ input = None
    /\ \E environ \in Environs, dotenv \in Dotenvs : Take("settings", <<environ, dotenv>>)

ParsePayload ==
    /\ input = None
    /\ \E form \in Forms : \E payload \in form : Take("user", payload)

BuildSchema ==
    /\ input = None
    /\ \E routes \in RouteSets : Take("openapi", routes)

Taken == input # None /\ UNCHANGED input

InputNext == LoadSettings \/ ParsePayload \/ BuildSchema \/ Taken

InputSpec == InputInit /\ [][InputNext]_input

Of(task) == input # None /\ input.task = task

(* Settings!SecureWhenGuarded of every environment and .env: whoever says  *)
(* production gets a process in production with the key he gave, or none.  *)
SecureWhenGuarded ==
    Of("settings") => Config!SecureWhenGuarded(input.args[1], input.args[2])

(* UserSchemas!StoredFormIsCanonical of every payload: what is stored is   *)
(* found again by every folding.                                           *)
StoredFormIsCanonical == Of("user") => Users!StoredFormIsCanonical(input.args)

(* OpenApiPatch!SchemaIsClosed of every set of routes: what is documented  *)
(* is what is answered, and no reference dangles.                          *)
SchemaIsClosed == Of("openapi") => OpenApi!SchemaIsClosed(input.args)
===============================================================================
