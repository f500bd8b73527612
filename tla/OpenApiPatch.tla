----------------------------- MODULE OpenApiPatch -----------------------------
(***************************************************************************)
(* custom_openapi of app/main.py: the application answers an invalid       *)
(* request with 400 and its own envelope, so the schema FastAPI generates  *)
(* must not document 422.  The result is cached; no step is concurrent.    *)
(*                                                                         *)
(* A route is [place, input, bad]: whether it is among the paths or the    *)
(* webhooks, whether it takes input, and the model it declares for 400.    *)
(* A schema is [responses, models]: which model each route documents for   *)
(* which status, and the models under components/schemas.                  *)
(*                                                                         *)
(* External: FastAPI documents 422 for every route that takes input and    *)
(* adds the models that some response mentions, with those they mention.   *)
(***************************************************************************)
EXTENDS Naturals

CONSTANT None

Mentions ==
    [HTTPValidationError |-> {"ValidationError"}, ValidationError |-> {},
     ErrorResponse |-> {"FieldError"}, FieldError |-> {}, Other |-> {}]
Models == DOMAIN Mentions

Routes == [place : {"paths", "webhooks"}, input : BOOLEAN,
           bad : {"ErrorResponse", "Other", None}]

(* POST /api/v1/auth/register *)
Register == [place |-> "paths", input |-> TRUE, bad |-> "ErrorResponse"]

(* Which models a schema mentions, in its responses and in its models. *)
Mentioned(schema) ==
    (UNION {{schema.responses[r][s] : s \in DOMAIN schema.responses[r]} :
              r \in DOMAIN schema.responses})
    \union UNION {Mentions[m] : m \in schema.models}

-------------------------------------------------------------------------------
(* get_openapi *)
Statuses(route) ==
    (IF route.input THEN {422} ELSE {}) \union (IF route.bad # None THEN {400} ELSE {})

Generated(routes) ==
    LET responses ==
            [r \in routes |->
                [s \in Statuses(r) |-> IF s = 422 THEN "HTTPValidationError" ELSE r.bad]]
        direct == Mentioned([responses |-> responses, models |-> {}])
    IN [responses |-> responses,
        models |-> direct \union UNION {Mentions[m] : m \in direct}]

-------------------------------------------------------------------------------
(* One operation under paths: a 422 becomes a 400, unless one is declared. *)
Rewrite(responses) ==
    IF 422 \notin DOMAIN responses THEN responses
    ELSE [s \in (DOMAIN responses \ {422}) \union {400} |->
             IF s \in DOMAIN responses THEN responses[s] ELSE "ErrorResponse"]

Rewritten(schema) ==
    [schema EXCEPT !.responses =
        [r \in DOMAIN @ |-> IF r.place = "paths" THEN Rewrite(@[r]) ELSE @[r]]]

(* schemas.pop(model), unless the schema still mentions it *)
Prune(schema, model) ==
    IF model \in Mentioned(schema) THEN schema
    ELSE [schema EXCEPT !.models = @ \ {model}]

(* MUTANT: both models are looked for in the schema as it was. *)
PruneBothAtOnce(schema) ==
    [schema EXCEPT !.models =
        @ \ ({"HTTPValidationError", "ValidationError"} \ Mentioned(schema))]

PruneBoth(schema) == Prune(Prune(schema, "HTTPValidationError"), "ValidationError")

CustomOpenapi(routes) == PruneBoth(Rewritten(Generated(routes)))

(* The schema a client reads documents 400 and not 422 for every route     *)
(* that takes input, mentions only models it holds, and holds no           *)
(* validation model that it does not mention.                              *)
SchemaIsClosed(routes) ==
    LET schema == CustomOpenapi(routes)
    IN /\ Mentioned(schema) \subseteq schema.models
       /\ schema.models \intersect {"HTTPValidationError", "ValidationError"}
             \subseteq Mentioned(schema)
       /\ \A r \in routes : r.place = "paths" /\ r.input =>
             /\ 422 \notin DOMAIN schema.responses[r]
             /\ 400 \in DOMAIN schema.responses[r]
===============================================================================
