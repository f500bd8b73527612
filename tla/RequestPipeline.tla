--------------------------- MODULE RequestPipeline ---------------------------
(***************************************************************************)
(* What app.main wraps around every endpoint.  From the outside in:        *)
(*                                                                         *)
(*   Starlette's ServerErrorMiddleware   500s, with the Exception handler  *)
(*   add_security_headers                headers on the way out            *)
(*   correlation_id_middleware           id, "Request started/completed"   *)
(*   CORSMiddleware                      answers preflight requests        *)
(*   TrustedHostMiddleware               refuses foreign hosts             *)
(*   Starlette's ExceptionMiddleware     the other exception handlers      *)
(*   router                              endpoints                         *)
(*                                                                         *)
(* A request goes in, a response or an exception comes out through the     *)
(* same layers.  Requests interleave; each runs in a task with a context   *)
(* of its own, of which worker threads get a copy.                         *)
(***************************************************************************)
EXTENDS Naturals, Sequences, FiniteSets

CONSTANTS
    Requests,   \* requests; a request also stands for the UUID made for it
    ClientIds,  \* X-Correlation-ID values of the accepted form
    NoId,       \* no id: header absent, context variable or state unset
    BadId       \* a header value that is too long or has other characters

ASSUME PipelineAssumption ==
    /\ {NoId, BadId} \cap (ClientIds \cup Requests) = {}
    /\ ClientIds \cap Requests = {}
    /\ NoId # BadId

(* How a request ends: where it is answered and what happens there.        *)
(* "no_route" is the router's own 404, Starlette's HTTPException, which    *)
(* the handler for FastAPI's does not see; "late" is an endpoint whose     *)
(* response is out when code after it fails, as the commit of get_db may.  *)
Kinds == {"preflight", "foreign_host", "no_route", "ok", "http_error",
          "invalid", "conflict", "crash", "late"}

VARIABLES
    debug,    \* settings.app_debug of this process
    kind,     \* kind[r]: how request r will end
    header,   \* header[r]: the X-Correlation-ID it came with
    pc,       \* pc[r]: the layer that acts next
    ctx,      \* ctx[r]: correlation_id_var in r's context
    state,    \* state[r]: request.state.correlation_id
    response, \* response[r]: the response on its way out
    sent,     \* sent[r]: the response the client received
    logged    \* logged[r]: the records of r, in order

fixed == <<debug, kind, header>>
context == <<ctx, state>>
answers == <<response, sent>>
vars == <<fixed, pc, context, answers, logged>>

Ids == ClientIds \cup Requests \cup {NoId}
Statuses == {0, 200, 201, 400, 401, 404, 409, 500}
Responses == [status: Statuses, id: Ids, secured: BOOLEAN]
NoResponse == [status |-> 0, id |-> NoId, secured |-> FALSE]
Stages == {"new", "cors", "host", "route", "respond", "fail", "secure",
           "raised", "send", "late", "done"}

-------------------------------------------------------------------------------
(* MUTANT: any header is taken over. *)
ChosenIdUnchecked(r) == IF header[r] = NoId THEN r ELSE header[r]

(* The client's id if it has the accepted form, otherwise a new UUID. *)
ChosenId(r) == IF header[r] \in ClientIds THEN header[r] ELSE r

(* MUTANT: the id is in a module global, which other requests overwrite. *)
IdInContextGlobal(r) ==
    IF \E q \in Requests \ {r} : ctx[q] # NoId
    THEN ctx[CHOOSE q \in Requests \ {r} : ctx[q] # NoId]
    ELSE ctx[r]

(* CorrelationIDFilter, in r's context or in a thread's copy of it. *)
IdInContext(r) == ctx[r]

Log(r, event, status, id) ==
    logged' = [logged EXCEPT ![r] =
                  Append(@, [event |-> event, status |-> status, id |-> id])]

Init ==
    /\ debug \in BOOLEAN
    /\ kind \in [Requests -> Kinds]
    /\ header \in [Requests -> ClientIds \cup {NoId, BadId}]
    /\ pc = [r \in Requests |-> "new"]
    /\ ctx = [r \in Requests |-> NoId]
    /\ state = [r \in Requests |-> NoId]
    /\ response = [r \in Requests |-> NoResponse]
    /\ sent = [r \in Requests |-> NoResponse]
    /\ logged = [r \in Requests |-> <<>>]

Goto(r, from, to) == pc[r] = from /\ pc' = [pc EXCEPT ![r] = to] /\ UNCHANGED fixed

Respond(r, status, secured, id) ==
    response' = [response EXCEPT ![r] =
        [status |-> status, id |-> id, secured |-> secured]]

(* The context variable is reset to what it was before the request. *)
Reset(r) == ctx' = [ctx EXCEPT ![r] = NoId] /\ UNCHANGED state

-------------------------------------------------------------------------------
(* correlation_id_middleware, first half, and "Request started". *)
Correlate(r) ==
    /\ Goto(r, "new", "cors")
    /\ ctx' = [ctx EXCEPT ![r] = ChosenId(r)]
    /\ state' = [state EXCEPT ![r] = ChosenId(r)]
    /\ Log(r, "started", 0, ChosenId(r))
    /\ UNCHANGED answers

(* A middleware that answers requests of kind k itself. *)
Screen(r, layer, next, k, status) ==
    /\ Goto(r, layer, IF kind[r] = k THEN "respond" ELSE next)
    /\ IF kind[r] = k THEN Respond(r, status, FALSE, NoId) ELSE UNCHANGED response
    /\ UNCHANGED <<context, sent, logged>>

Cors(r) == Screen(r, "cors", "host", "preflight", 200)
TrustedHost(r) == Screen(r, "host", "route", "foreign_host", 400)

(* The endpoint, and the exception handler that turns its exception into a *)
(* response.  The handlers of app.main set the headers too.                *)
Route(r) ==
    /\ Goto(r, "route", IF kind[r] = "crash" THEN "fail" ELSE "respond")
    /\ CASE kind[r] \in {"ok", "late"} -> Respond(r, 201, FALSE, NoId)
         [] kind[r] = "no_route"       -> Respond(r, 404, FALSE, NoId)
         [] kind[r] = "http_error"     -> Respond(r, 401, TRUE, state[r])
         [] kind[r] = "invalid"        -> Respond(r, 400, TRUE, state[r])
         [] kind[r] = "conflict"       -> Respond(r, 409, TRUE, state[r])
         [] kind[r] = "crash"          -> UNCHANGED response
    /\ IF kind[r] \in {"ok", "late", "conflict"} THEN Log(r, "service", 0, IdInContext(r))
                                                 ELSE UNCHANGED logged
    /\ UNCHANGED <<context, sent>>

(* correlation_id_middleware, second half, when call_next returned. *)
CorrelateBack(r) ==
    /\ Goto(r, "respond", "secure")
    /\ response' = [response EXCEPT ![r].id = state[r]]
    /\ Log(r, "completed", response[r].status, IdInContext(r))
    /\ Reset(r)
    /\ UNCHANGED sent

(* MUTANT: the middleware also logs a completion for an exception. *)
CorrelateRaisesAndLogs(r) ==
    /\ Goto(r, "fail", "raised")
    /\ Log(r, "completed", 500, IdInContext(r))
    /\ Reset(r)
    /\ UNCHANGED answers

(* MUTANT: the exception is swallowed and nothing is returned. *)
CorrelateRaisesSwallows(r) ==
    Goto(r, "fail", "done") /\ Reset(r) /\ UNCHANGED <<answers, logged>>

(* ... and when it raised: only the finally branch runs. *)
CorrelateRaises(r) ==
    Goto(r, "fail", "raised") /\ Reset(r) /\ UNCHANGED <<answers, logged>>

(* MUTANT: only successful responses get the headers. *)
SecureOnlySuccess(r) ==
    /\ Goto(r, "secure", "send")
    /\ response' = [response EXCEPT ![r].secured = @ \/ response[r].status < 400]
    /\ UNCHANGED <<context, sent, logged>>

(* add_security_headers *)
Secure(r) ==
    /\ Goto(r, "secure", "send")
    /\ response' = [response EXCEPT ![r].secured = TRUE]
    /\ UNCHANGED <<context, sent, logged>>

(* ServerErrorMiddleware: in debug mode it writes its own page and the     *)
(* handler unhandled_exception_with_correlation is not called.             *)
ServerError(r) ==
    /\ Goto(r, "raised", "send")
    /\ IF debug
       THEN Respond(r, 500, FALSE, NoId) /\ UNCHANGED logged
       ELSE Respond(r, 500, TRUE, state[r]) /\ Log(r, "unhandled", 500, IdInContext(r))
    /\ UNCHANGED <<context, sent>>

Send(r) ==
    /\ Goto(r, "send", IF kind[r] = "late" THEN "late" ELSE "done")
    /\ sent' = [sent EXCEPT ![r] = response[r]]
    /\ UNCHANGED <<context, response, logged>>

(* MUTANT: the late exception is answered as well. *)
LateErrorAnswers(r) ==
    /\ Goto(r, "late", "send")
    /\ Respond(r, 500, TRUE, state[r])
    /\ UNCHANGED <<context, sent, logged>>

(* Code after the response fails: ServerErrorMiddleware runs the handler,  *)
(* whose response is discarded because one has been sent.                  *)
LateError(r) ==
    /\ Goto(r, "late", "done")
    /\ IF debug THEN UNCHANGED logged ELSE Log(r, "unhandled", 500, IdInContext(r))
    /\ UNCHANGED <<context, answers>>

Step(r) ==
    \/ Correlate(r) \/ Cors(r) \/ TrustedHost(r) \/ Route(r)
    \/ CorrelateBack(r) \/ CorrelateRaises(r) \/ Secure(r)
    \/ ServerError(r) \/ Send(r) \/ LateError(r)

Terminating == (\A r \in Requests : pc[r] = "done") /\ UNCHANGED vars

Next == (\E r \in Requests : Step(r)) \/ Terminating

(* The event loop keeps running every request's task. *)
Spec == Init /\ [][Next]_vars /\ \A r \in Requests : WF_vars(Step(r))

-------------------------------------------------------------------------------
(* Properties *)

TypeOK ==
    /\ debug \in BOOLEAN
    /\ kind \in [Requests -> Kinds]
    /\ header \in [Requests -> ClientIds \cup {NoId, BadId}]
    /\ pc \in [Requests -> Stages]
    /\ ctx \in [Requests -> Ids]
    /\ state \in [Requests -> Ids]
    /\ response \in [Requests -> Responses]
    /\ sent \in [Requests -> Responses]
    /\ logged \in [Requests ->
         Seq([event: {"started", "service", "completed", "unhandled"},
              status: Statuses, id: Ids])]

Answered(r) == sent[r] # NoResponse

(* The id a request should be known by. *)
OwnId(r) == IF header[r] \in ClientIds THEN header[r] ELSE r

(* Whichever layer answers, the client gets the request's id and the       *)
(* security headers: endpoints, each exception handler, CORS preflights,   *)
(* refused hosts and 500s, but for Starlette's page in debug mode.         *)
EveryResponseLabelled ==
    \A r \in Requests : Answered(r) =>
        \/ sent[r].id = OwnId(r) /\ sent[r].secured
        \/ debug /\ sent[r].status = 500

(* A record never carries the id of another request, and every record made *)
(* inside the pipeline carries its own (CorrelationIDFilter), also those of *)
(* the service in its worker thread.                                        *)
LoggedUnderOwnId ==
    \A r \in Requests : \A i \in DOMAIN logged[r] :
        logged[r][i].id = OwnId(r)
          \/ (logged[r][i].event = "unhandled" /\ logged[r][i].id = NoId)

Events(r) == {logged[r][i].event : i \in DOMAIN logged[r]}
CompletedWith(r, status) ==
    \E i \in DOMAIN logged[r] :
        logged[r][i].event = "completed" /\ logged[r][i].status = status

(* The log tells what the client got: an answered request has one          *)
(* completion, with the status that was sent, or is a 500 with none.       *)
LogAgreesWithAnswer ==
    \A r \in Requests : Answered(r) =>
        IF "completed" \in Events(r)
        THEN CompletedWith(r, sent[r].status) /\ sent[r].status # 500
        ELSE sent[r].status = 500

(* The client gets one response, whatever fails after it.                  *)
OneResponse ==
    [][\A r \in Requests : Answered(r) => sent'[r] = sent[r]]_vars

(* Every request is answered in the end. *)
EveryRequestAnswered == \A r \in Requests : <>Answered(r)

(* Not true of the code: every record of a request carries its id.  The    *)
(* record of an unhandled exception is made after the context is reset.    *)
EveryRecordLabelled ==
    \A r \in Requests : \A i \in DOMAIN logged[r] : logged[r][i].id # NoId
===============================================================================
