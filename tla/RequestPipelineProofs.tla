------------------------ MODULE RequestPipelineProofs ------------------------
(***************************************************************************)
(* What the layers around an endpoint guarantee for any number of requests *)
(* and any ids: labels, records, and the agreement of the two.             *)
(***************************************************************************)
EXTENDS RequestPipeline, TLAPS

EventNames == {"started", "service", "completed", "unhandled"}
Records == [event: EventNames, status: Statuses, id: Ids]

(* Logs: under one id, without a completion, and as a status requires. *)
LabelledWith(log, id) ==
    \A i \in DOMAIN log :
        log[i].id = id \/ (log[i].event = "unhandled" /\ log[i].id = NoId)

NoCompletion(log) == \A i \in DOMAIN log : log[i].event # "completed"

Tells(log, status) ==
    \/ /\ status # 500
       /\ \E i \in DOMAIN log : log[i].event = "completed" /\ log[i].status = status
    \/ status = 500 /\ NoCompletion(log)

Inside == {"cors", "host", "route", "respond", "fail"}
Answering == {"secure", "send", "late", "done"}

(* The invariant: what holds of a request of kind k with id i at layer p,  *)
(* whose context, state, response, received response and log are c, s, a,  *)
(* b and l, in a process whose debug mode is d.                            *)
Ok(d, k, i, p, c, s, a, b, l) ==
    /\ p \in {"host", "route"} => k # "preflight"
    /\ p = "route" => k # "foreign_host"
    /\ p # "new" => s = i
    /\ c = IF p \in Inside THEN i ELSE NoId
    /\ p \in {"respond", "secure"} => a.status # 500
    /\ p = "secure" => a.id = i
    /\ p \in {"send", "late", "done"} =>
          \/ a.id = i /\ a.secured = TRUE
          \/ d = TRUE /\ a.status = 500
    /\ b = IF p \in {"late", "done"} THEN a ELSE NoResponse
    /\ p \in Answering => Tells(l, a.status)
    /\ p \notin Answering => NoCompletion(l)
    /\ LabelledWith(l, i)

RequestOk(r) ==
    Ok(debug, kind[r], OwnId(r), pc[r], ctx[r], state[r], response[r],
       sent[r], logged[r])

IInv == TypeOK /\ \A r \in Requests : RequestOk(r)

-------------------------------------------------------------------------------
(* One more record *)

LEMMA AppendLabelled ==
    ASSUME NEW log \in Seq(Records), NEW record \in Records, NEW id,
           LabelledWith(log, id),
           record.id = id \/ (record.event = "unhandled" /\ record.id = NoId)
    PROVE  LabelledWith(Append(log, record), id)
<1>1. ASSUME NEW i \in DOMAIN Append(log, record)
      PROVE  Append(log, record)[i] = record
               \/ (i \in DOMAIN log /\ Append(log, record)[i] = log[i])
  OBVIOUS
<1> QED
  BY <1>1 DEF LabelledWith

LEMMA AppendNoCompletion ==
    ASSUME NEW log \in Seq(Records), NEW record \in Records,
           NoCompletion(log), record.event # "completed"
    PROVE  NoCompletion(Append(log, record))
<1>1. ASSUME NEW i \in DOMAIN Append(log, record)
      PROVE  Append(log, record)[i] = record
               \/ (i \in DOMAIN log /\ Append(log, record)[i] = log[i])
  OBVIOUS
<1> QED
  BY <1>1 DEF NoCompletion

LEMMA AppendTells ==
    ASSUME NEW log \in Seq(Records), NEW record \in Records, NEW status,
           Tells(log, status), record.event # "completed"
    PROVE  Tells(Append(log, record), status)
<1>1. CASE status = 500 /\ NoCompletion(log)
  BY <1>1, AppendNoCompletion DEF Tells
<1>2. CASE /\ status # 500
           /\ \E i \in DOMAIN log :
                 log[i].event = "completed" /\ log[i].status = status
  <2>1. PICK i \in DOMAIN log : log[i].event = "completed" /\ log[i].status = status
    BY <1>2
  <2>2. i \in DOMAIN Append(log, record) /\ Append(log, record)[i] = log[i]
    OBVIOUS
  <2> QED
    BY <1>2, <2>1, <2>2 DEF Tells
<1> QED
  BY <1>1, <1>2 DEF Tells

LEMMA CompletionTells ==
    ASSUME NEW log \in Seq(Records), NEW record \in Records,
           record.event = "completed", record.status # 500
    PROVE  Tells(Append(log, record), record.status)
<1>1. /\ Len(log) + 1 \in DOMAIN Append(log, record)
      /\ Append(log, record)[Len(log) + 1] = record
  OBVIOUS
<1> QED
  BY <1>1 DEF Tells

-------------------------------------------------------------------------------
(* Steps *)

LEMMA OwnIdIsId ==
    ASSUME NEW r \in Requests
    PROVE  /\ ChosenId(r) = OwnId(r)
           /\ OwnId(r) \in Ids
           /\ NoId \in Ids
BY DEF ChosenId, OwnId, Ids

LEMMA RecordTypes ==
    /\ TypeOK => logged \in [Requests -> Seq(Records)]
    /\ NoResponse \in Responses
    /\ NoResponse.status = 0
BY DEF TypeOK, Records, EventNames, NoResponse, Responses, Statuses, Ids

(* A step replaces the parts of one request by others that fit together.   *)
LEMMA Replace ==
    ASSUME IInv, NEW r \in Requests, UNCHANGED fixed,
           NEW p \in Stages, pc' = [pc EXCEPT ![r] = p],
           NEW c \in Ids, ctx' = [ctx EXCEPT ![r] = c],
           NEW s \in Ids, state' = [state EXCEPT ![r] = s],
           NEW a \in Responses, response' = [response EXCEPT ![r] = a],
           NEW b \in Responses, sent' = [sent EXCEPT ![r] = b],
           NEW l \in Seq(Records), logged' = [logged EXCEPT ![r] = l],
           Ok(debug, kind[r], OwnId(r), p, c, s, a, b, l)
    PROVE  IInv'
<1>1. TypeOK'
  BY DEF IInv, TypeOK, fixed, Records, EventNames
<1>2. ASSUME NEW q \in Requests
      PROVE  RequestOk(q)'
  <2>1. debug' = debug /\ kind' = kind /\ OwnId(q)' = OwnId(q)
    BY DEF fixed, OwnId
  <2>2. CASE q = r
    <3>1. /\ pc'[q] = p /\ ctx'[q] = c /\ state'[q] = s
          /\ response'[q] = a /\ sent'[q] = b /\ logged'[q] = l
      BY <2>2 DEF IInv, TypeOK
    <3> QED
      BY <2>1, <2>2, <3>1 DEF RequestOk
  <2>3. CASE q # r
    <3>1. /\ pc'[q] = pc[q] /\ ctx'[q] = ctx[q] /\ state'[q] = state[q]
          /\ response'[q] = response[q] /\ sent'[q] = sent[q]
          /\ logged'[q] = logged[q]
      BY <2>3 DEF IInv, TypeOK
    <3>2. RequestOk(q)
      BY DEF IInv
    <3> QED
      BY <2>1, <3>1, <3>2 DEF RequestOk
  <2> QED
    BY <2>2, <2>3
<1> QED
  BY <1>1, <1>2 DEF IInv

(* The parts of one request, and the same parts written as a replacement.  *)
LEMMA Parts ==
    ASSUME IInv, NEW r \in Requests
    PROVE  /\ pc[r] \in Stages /\ ctx[r] \in Ids /\ state[r] \in Ids
           /\ response[r] \in Responses /\ sent[r] \in Responses
           /\ logged[r] \in Seq(Records)
           /\ kind[r] \in Kinds
           /\ ctx = [ctx EXCEPT ![r] = ctx[r]]
           /\ state = [state EXCEPT ![r] = state[r]]
           /\ response = [response EXCEPT ![r] = response[r]]
           /\ sent = [sent EXCEPT ![r] = sent[r]]
           /\ logged = [logged EXCEPT ![r] = logged[r]]
           /\ RequestOk(r)
BY RecordTypes DEF IInv, TypeOK

LEMMA CorrelateKeeps ==
    ASSUME IInv, NEW r \in Requests, Correlate(r)
    PROVE  IInv'
<1> DEFINE id == OwnId(r)
           record == [event |-> "started", status |-> 0, id |-> id]
<1>1. /\ pc[r] = "new"
      /\ pc' = [pc EXCEPT ![r] = "cors"]
      /\ ctx' = [ctx EXCEPT ![r] = id]
      /\ state' = [state EXCEPT ![r] = id]
      /\ logged' = [logged EXCEPT ![r] = Append(logged[r], record)]
      /\ UNCHANGED <<fixed, response, sent>>
  BY OwnIdIsId, Parts DEF Correlate, Goto, Log, answers, IInv, TypeOK
<1>2. record \in Records
  BY OwnIdIsId DEF Records, EventNames, Statuses
<1>3. NoCompletion(logged[r]) /\ LabelledWith(logged[r], id) /\ sent[r] = NoResponse
  BY <1>1, Parts DEF RequestOk, Ok, Answering
<1>4. NoCompletion(Append(logged[r], record))
  BY <1>2, <1>3, Parts, AppendNoCompletion
<1>5. LabelledWith(Append(logged[r], record), id)
  BY <1>2, <1>3, Parts, AppendLabelled
<1>6. Ok(debug, kind[r], id, "cors", id, id, response[r], sent[r],
         Append(logged[r], record))
  BY <1>3, <1>4, <1>5 DEF Ok, Inside, Answering
<1>7. id \in Ids /\ "cors" \in Stages /\ Append(logged[r], record) \in Seq(Records)
  BY <1>2, Parts, OwnIdIsId DEF Stages
<1> HIDE DEF id, record
<1> QED
  BY <1>1, <1>6, <1>7, Parts, Replace DEF id

(* A layer that is left for the next one or with a response of its own.    *)
LEMMA ScreenKeeps ==
    ASSUME IInv, NEW r \in Requests, pc[r] \in {"cors", "host"},
           NEW p \in {"host", "route", "respond"}, NEW a \in Responses,
           p # "respond" => kind[r] # "preflight",
           p = "route" => kind[r] # "foreign_host",
           p = "respond" => a.status # 500,
           pc' = [pc EXCEPT ![r] = p],
           response' = [response EXCEPT ![r] = a],
           UNCHANGED <<fixed, ctx, state, sent, logged>>
    PROVE  IInv'
<1>1. RequestOk(r)
  BY Parts
<1>2. Ok(debug, kind[r], OwnId(r), p, ctx[r], state[r], a, sent[r], logged[r])
  BY <1>1 DEF RequestOk, Ok, Inside, Answering
<1>3. p \in Stages
  BY DEF Stages
<1> QED
  BY <1>2, <1>3, Parts, Replace

LEMMA CorsKeeps ==
    ASSUME IInv, NEW r \in Requests, Cors(r)
    PROVE  IInv'
<1> DEFINE p == IF kind[r] = "preflight" THEN "respond" ELSE "host"
           a == IF kind[r] = "preflight"
                THEN [status |-> 200, id |-> NoId, secured |-> FALSE]
                ELSE response[r]
<1>1. /\ pc[r] = "cors"
      /\ pc' = [pc EXCEPT ![r] = p]
      /\ response' = [response EXCEPT ![r] = a]
      /\ UNCHANGED <<fixed, ctx, state, sent, logged>>
  BY Parts DEF Cors, Screen, Goto, Respond, context
<1>2. a \in Responses
  BY Parts, OwnIdIsId DEF Responses, Statuses
<1>3. /\ p \in {"host", "respond"}
      /\ p # "respond" => kind[r] # "preflight"
      /\ p = "respond" => a.status # 500
  OBVIOUS
<1> HIDE DEF p, a
<1> QED
  BY <1>1, <1>2, <1>3, ScreenKeeps

LEMMA TrustedHostKeeps ==
    ASSUME IInv, NEW r \in Requests, TrustedHost(r)
    PROVE  IInv'
<1> DEFINE p == IF kind[r] = "foreign_host" THEN "respond" ELSE "route"
           a == IF kind[r] = "foreign_host"
                THEN [status |-> 400, id |-> NoId, secured |-> FALSE]
                ELSE response[r]
<1>1. /\ pc[r] = "host"
      /\ pc' = [pc EXCEPT ![r] = p]
      /\ response' = [response EXCEPT ![r] = a]
      /\ UNCHANGED <<fixed, ctx, state, sent, logged>>
  BY Parts DEF TrustedHost, Screen, Goto, Respond, context
<1>2. a \in Responses
  BY Parts, OwnIdIsId DEF Responses, Statuses
<1>3. kind[r] # "preflight"
  BY <1>1, Parts DEF RequestOk, Ok
<1>4. /\ p \in {"route", "respond"}
      /\ p # "respond" => kind[r] # "foreign_host"
      /\ p = "respond" => a.status # 500
  OBVIOUS
<1> HIDE DEF p, a
<1> QED
  BY <1>1, <1>2, <1>3, <1>4, ScreenKeeps

LEMMA Responded ==
    ASSUME IInv, NEW r \in Requests, NEW answer \in Responses,
           response' = [response EXCEPT ![r] = answer]
    PROVE  /\ response'[r] = answer
           /\ response' = [response EXCEPT ![r] = response'[r]]
BY DEF IInv, TypeOK

LEMMA RouteKeeps ==
    ASSUME IInv, NEW r \in Requests, Route(r)
    PROVE  IInv'
<1> DEFINE id == OwnId(r)
           p == IF kind[r] = "crash" THEN "fail" ELSE "respond"
           a == response'[r]
           record == [event |-> "service", status |-> 0, id |-> id]
           l == IF kind[r] \in {"ok", "late", "conflict"}
                THEN Append(logged[r], record) ELSE logged[r]
<1>1. /\ pc[r] = "route"
      /\ pc' = [pc EXCEPT ![r] = p]
      /\ ctx[r] = id /\ state[r] = id /\ sent[r] = NoResponse
      /\ NoCompletion(logged[r]) /\ LabelledWith(logged[r], id)
      /\ kind[r] \notin {"preflight", "foreign_host"}
      /\ UNCHANGED <<fixed, ctx, state, sent>>
  BY Parts DEF Route, Goto, RequestOk, Ok, Inside, Answering, context
<1>2. logged' = [logged EXCEPT ![r] = l]
  BY <1>1, Parts DEF Route, Log, IdInContext
<1>3. /\ a \in Responses
      /\ kind[r] # "crash" => a.status # 500
      /\ response' = [response EXCEPT ![r] = a]
  <2>1. CASE kind[r] \in {"ok", "late"}
    <3> DEFINE answer == [status |-> 201, id |-> NoId, secured |-> FALSE]
    <3>1. answer \in Responses /\ answer.status # 500
      BY Parts, OwnIdIsId DEF Responses, Statuses
    <3>2. response' = [response EXCEPT ![r] = answer]
      BY <2>1 DEF Route, Respond
    <3> HIDE DEF answer
    <3> QED
      BY <3>1, <3>2, Responded
  <2>2. CASE kind[r] = "no_route"
    <3> DEFINE answer == [status |-> 404, id |-> NoId, secured |-> FALSE]
    <3>1. answer \in Responses /\ answer.status # 500
      BY Parts, OwnIdIsId DEF Responses, Statuses
    <3>2. response' = [response EXCEPT ![r] = answer]
      BY <2>2 DEF Route, Respond
    <3> HIDE DEF answer
    <3> QED
      BY <3>1, <3>2, Responded
  <2>3. CASE kind[r] = "http_error"
    <3> DEFINE answer == [status |-> 401, id |-> state[r], secured |-> TRUE]
    <3>1. answer \in Responses /\ answer.status # 500
      BY Parts, OwnIdIsId DEF Responses, Statuses
    <3>2. response' = [response EXCEPT ![r] = answer]
      BY <2>3 DEF Route, Respond
    <3> HIDE DEF answer
    <3> QED
      BY <3>1, <3>2, Responded
  <2>4. CASE kind[r] = "invalid"
    <3> DEFINE answer == [status |-> 400, id |-> state[r], secured |-> TRUE]
    <3>1. answer \in Responses /\ answer.status # 500
      BY Parts, OwnIdIsId DEF Responses, Statuses
    <3>2. response' = [response EXCEPT ![r] = answer]
      BY <2>4 DEF Route, Respond
    <3> HIDE DEF answer
    <3> QED
      BY <3>1, <3>2, Responded
  <2>5. CASE kind[r] = "conflict"
    <3> DEFINE answer == [status |-> 409, id |-> state[r], secured |-> TRUE]
    <3>1. answer \in Responses /\ answer.status # 500
      BY Parts, OwnIdIsId DEF Responses, Statuses
    <3>2. response' = [response EXCEPT ![r] = answer]
      BY <2>5 DEF Route, Respond
    <3> HIDE DEF answer
    <3> QED
      BY <3>1, <3>2, Responded
  <2>6. CASE kind[r] = "crash"
    <3>1. response' = response
      BY <2>6 DEF Route
    <3> QED
      BY <2>6, <3>1, Parts
  <2> QED
    BY <1>1, <2>1, <2>2, <2>3, <2>4, <2>5, <2>6, Parts DEF Kinds
<1>4. record \in Records
  BY OwnIdIsId DEF Records, EventNames, Statuses
<1>5. l \in Seq(Records) /\ NoCompletion(l) /\ LabelledWith(l, id)
  <2>1. record.event = "service" /\ record.id = id
    OBVIOUS
  <2> HIDE DEF record, id
  <2>2. Append(logged[r], record) \in Seq(Records)
    BY <1>4, Parts
  <2>3. NoCompletion(Append(logged[r], record))
    BY <1>1, <1>4, <2>1, Parts, AppendNoCompletion
  <2>4. LabelledWith(Append(logged[r], record), id)
    BY <1>1, <1>4, <2>1, Parts, AppendLabelled
  <2> QED
    BY <1>1, <2>2, <2>3, <2>4, Parts
<1>6. p \in Stages
  BY DEF Stages
<1> HIDE DEF record, id, l, a
<1>7. Ok(debug, kind[r], id, p, ctx[r], state[r], a, sent[r], l)
  BY <1>1, <1>3, <1>5 DEF Ok, Inside, Answering
<1> HIDE DEF p
<1> QED
  BY <1>1, <1>2, <1>3, <1>5, <1>6, <1>7, Parts, Replace DEF id

LEMMA CorrelateBackKeeps ==
    ASSUME IInv, NEW r \in Requests, CorrelateBack(r)
    PROVE  IInv'
<1> DEFINE id == OwnId(r)
           a == [response[r] EXCEPT !.id = state[r]]
           record == [event |-> "completed", status |-> response[r].status,
                      id |-> id]
           l == Append(logged[r], record)
<1>1. RequestOk(r) /\ pc[r] = "respond"
  BY Parts DEF CorrelateBack, Goto
<1>2. /\ ctx[r] = id /\ state[r] = id /\ sent[r] = NoResponse
      /\ response[r].status # 500 /\ LabelledWith(logged[r], id)
  BY <1>1 DEF RequestOk, Ok, Inside
<1>3. /\ pc' = [pc EXCEPT ![r] = "secure"]
      /\ ctx' = [ctx EXCEPT ![r] = NoId]
      /\ response' = [response EXCEPT ![r] = a]
      /\ logged' = [logged EXCEPT ![r] = l]
      /\ UNCHANGED <<fixed, state, sent>>
  BY <1>2, Parts DEF CorrelateBack, Goto, Log, Reset, IdInContext
<1>4. /\ a \in Responses /\ a.id = id /\ a.status = response[r].status
      /\ response[r].status \in Statuses
  BY <1>2, Parts, OwnIdIsId DEF Responses
<1>5. /\ record \in Records /\ record.event = "completed" /\ record.id = id
      /\ record.status = response[r].status
  BY <1>4, OwnIdIsId DEF Records, EventNames
<1> HIDE DEF a, record, id
<1>6. l \in Seq(Records)
  BY <1>5, Parts
<1>7. LabelledWith(l, id)
  BY <1>2, <1>5, Parts, AppendLabelled
<1>8. Tells(l, a.status)
  BY <1>2, <1>4, <1>5, Parts, CompletionTells
<1> HIDE DEF l
<1>9. Ok(debug, kind[r], id, "secure", NoId, state[r], a, sent[r], l)
  BY <1>2, <1>4, <1>7, <1>8 DEF Ok, Inside, Answering
<1>10. "secure" \in Stages
  BY DEF Stages
<1> QED
  BY <1>3, <1>4, <1>6, <1>9, <1>10, OwnIdIsId, Parts, Replace DEF id

LEMMA CorrelateRaisesKeeps ==
    ASSUME IInv, NEW r \in Requests, CorrelateRaises(r)
    PROVE  IInv'
<1>1. RequestOk(r) /\ pc[r] = "fail"
  BY Parts DEF CorrelateRaises, Goto
<1>2. /\ pc' = [pc EXCEPT ![r] = "raised"]
      /\ ctx' = [ctx EXCEPT ![r] = NoId]
      /\ UNCHANGED <<fixed, state, response, sent, logged>>
  BY DEF CorrelateRaises, Goto, Reset, answers
<1>3. Ok(debug, kind[r], OwnId(r), "raised", NoId, state[r], response[r],
         sent[r], logged[r])
  BY <1>1 DEF RequestOk, Ok, Inside, Answering
<1>4. "raised" \in Stages
  BY DEF Stages
<1> QED
  BY <1>2, <1>3, <1>4, OwnIdIsId, Parts, Replace

LEMMA SecureKeeps ==
    ASSUME IInv, NEW r \in Requests, Secure(r)
    PROVE  IInv'
<1> DEFINE a == [response[r] EXCEPT !.secured = TRUE]
<1>1. RequestOk(r) /\ pc[r] = "secure"
  BY Parts DEF Secure, Goto
<1>2. /\ pc' = [pc EXCEPT ![r] = "send"]
      /\ response' = [response EXCEPT ![r] = a]
      /\ UNCHANGED <<fixed, ctx, state, sent, logged>>
  BY Parts DEF Secure, Goto, context
<1>3. /\ a \in Responses /\ a.secured = TRUE
      /\ a.id = response[r].id /\ a.status = response[r].status
  BY Parts DEF Responses
<1> HIDE DEF a
<1>4. response[r].id = OwnId(r) /\ Tells(logged[r], a.status)
  BY <1>1, <1>3 DEF RequestOk, Ok, Answering
<1>5. Ok(debug, kind[r], OwnId(r), "send", ctx[r], state[r], a, sent[r], logged[r])
  BY <1>1, <1>3, <1>4 DEF RequestOk, Ok, Inside, Answering
<1>6. "send" \in Stages
  BY DEF Stages
<1> QED
  BY <1>2, <1>3, <1>5, <1>6, Parts, Replace

LEMMA ServerErrorKeeps ==
    ASSUME IInv, NEW r \in Requests, ServerError(r)
    PROVE  IInv'
<1> DEFINE id == OwnId(r)
           a == IF debug
                THEN [status |-> 500, id |-> NoId, secured |-> FALSE]
                ELSE [status |-> 500, id |-> state[r], secured |-> TRUE]
           record == [event |-> "unhandled", status |-> 500, id |-> NoId]
           l == IF debug THEN logged[r] ELSE Append(logged[r], record)
<1>1. RequestOk(r) /\ pc[r] = "raised"
  BY Parts DEF ServerError, Goto
<1>2. /\ ctx[r] = NoId /\ state[r] = id /\ sent[r] = NoResponse
      /\ NoCompletion(logged[r]) /\ LabelledWith(logged[r], id)
  BY <1>1 DEF RequestOk, Ok, Inside, Answering
<1>3. /\ pc' = [pc EXCEPT ![r] = "send"]
      /\ UNCHANGED <<fixed, ctx, state, sent>>
  BY DEF ServerError, Goto, context
<1>4. response' = [response EXCEPT ![r] = a]
  BY DEF ServerError, Respond
<1>5. logged' = [logged EXCEPT ![r] = l]
  BY <1>2, Parts DEF ServerError, Log, IdInContext
<1>6. a \in Responses
  BY <1>2, Parts, OwnIdIsId DEF Responses, Statuses
<1>7. /\ a.status = 500
      /\ (a.id = id /\ a.secured = TRUE) \/ debug = TRUE
  BY <1>2 DEF IInv, TypeOK
<1>8. /\ record \in Records /\ record.event = "unhandled" /\ record.id = NoId
  BY OwnIdIsId DEF Records, EventNames, Statuses
<1> HIDE DEF a, record, id
<1>9. l \in Seq(Records)
  BY <1>8, Parts
<1>10. NoCompletion(l)
  BY <1>2, <1>8, Parts, AppendNoCompletion
<1>11. LabelledWith(l, id)
  BY <1>2, <1>8, Parts, AppendLabelled
<1> HIDE DEF l
<1>12. Tells(l, a.status)
  BY <1>7, <1>10 DEF Tells
<1>13. Ok(debug, kind[r], id, "send", ctx[r], state[r], a, sent[r], l)
  BY <1>2, <1>7, <1>11, <1>12 DEF Ok, Inside, Answering
<1>14. "send" \in Stages
  BY DEF Stages
<1> QED
  BY <1>3, <1>4, <1>5, <1>6, <1>9, <1>13, <1>14, Parts, Replace DEF id

LEMMA SendKeeps ==
    ASSUME IInv, NEW r \in Requests, Send(r)
    PROVE  IInv'
<1> DEFINE p == IF kind[r] = "late" THEN "late" ELSE "done"
<1>1. RequestOk(r) /\ pc[r] = "send"
  BY Parts DEF Send, Goto
<1>2. /\ pc' = [pc EXCEPT ![r] = p]
      /\ sent' = [sent EXCEPT ![r] = response[r]]
      /\ UNCHANGED <<fixed, ctx, state, response, logged>>
  BY DEF Send, Goto, context
<1>3. p \in {"late", "done"} /\ p \in Stages
  BY DEF Stages
<1> HIDE DEF p
<1>4. Ok(debug, kind[r], OwnId(r), p, ctx[r], state[r], response[r],
         response[r], logged[r])
  BY <1>1, <1>3 DEF RequestOk, Ok, Inside, Answering
<1> QED
  BY <1>2, <1>3, <1>4, Parts, Replace

LEMMA LateErrorKeeps ==
    ASSUME IInv, NEW r \in Requests, LateError(r)
    PROVE  IInv'
<1> DEFINE id == OwnId(r)
           record == [event |-> "unhandled", status |-> 500, id |-> NoId]
           l == IF debug THEN logged[r] ELSE Append(logged[r], record)
<1>1. RequestOk(r) /\ pc[r] = "late"
  BY Parts DEF LateError, Goto
<1>2. /\ ctx[r] = NoId
      /\ Tells(logged[r], response[r].status) /\ LabelledWith(logged[r], id)
  BY <1>1 DEF RequestOk, Ok, Inside, Answering
<1>3. /\ pc' = [pc EXCEPT ![r] = "done"]
      /\ UNCHANGED <<fixed, ctx, state, response, sent>>
  BY DEF LateError, Goto, context, answers
<1>4. logged' = [logged EXCEPT ![r] = l]
  BY <1>2, Parts DEF LateError, Log, IdInContext
<1>5. /\ record \in Records /\ record.event = "unhandled" /\ record.id = NoId
  BY OwnIdIsId DEF Records, EventNames, Statuses
<1> HIDE DEF record, id
<1>6. l \in Seq(Records)
  BY <1>5, Parts
<1>7. Tells(l, response[r].status)
  BY <1>2, <1>5, Parts, AppendTells
<1>8. LabelledWith(l, id)
  BY <1>2, <1>5, Parts, AppendLabelled
<1> HIDE DEF l
<1>9. Ok(debug, kind[r], id, "done", ctx[r], state[r], response[r], sent[r], l)
  BY <1>1, <1>7, <1>8 DEF RequestOk, Ok, Inside, Answering, id
<1>10. "done" \in Stages
  BY DEF Stages
<1> QED
  BY <1>3, <1>4, <1>6, <1>9, <1>10, Parts, Replace DEF id

-------------------------------------------------------------------------------
(* The invariant holds: initially, and after every step.                   *)

LEMMA Begins == Init => IInv
<1> SUFFICES ASSUME Init
             PROVE  IInv
  OBVIOUS
<1>1. TypeOK
  BY OwnIdIsId, RecordTypes DEF Init, TypeOK, Stages, Ids
<1>2. ASSUME NEW r \in Requests
      PROVE  RequestOk(r)
  <2>1. /\ pc[r] = "new" /\ ctx[r] = NoId /\ sent[r] = NoResponse
        /\ logged[r] = <<>>
    BY DEF Init
  <2>2. NoCompletion(<<>>) /\ LabelledWith(<<>>, OwnId(r))
    BY DEF NoCompletion, LabelledWith
  <2> QED
    BY <2>1, <2>2 DEF RequestOk, Ok, Inside, Answering
<1> QED
  BY <1>1, <1>2 DEF IInv

LEMMA Continues == IInv /\ [Next]_vars => IInv'
<1> SUFFICES ASSUME IInv, [Next]_vars
             PROVE  IInv'
  OBVIOUS
<1>1. ASSUME NEW r \in Requests, Step(r)
      PROVE  IInv'
  <2>1. CASE Correlate(r)
    BY <2>1, CorrelateKeeps
  <2>2. CASE Cors(r)
    BY <2>2, CorsKeeps
  <2>3. CASE TrustedHost(r)
    BY <2>3, TrustedHostKeeps
  <2>4. CASE Route(r)
    BY <2>4, RouteKeeps
  <2>5. CASE CorrelateBack(r)
    BY <2>5, CorrelateBackKeeps
  <2>6. CASE CorrelateRaises(r)
    BY <2>6, CorrelateRaisesKeeps
  <2>7. CASE Secure(r)
    BY <2>7, SecureKeeps
  <2>8. CASE ServerError(r)
    BY <2>8, ServerErrorKeeps
  <2>9. CASE Send(r)
    BY <2>9, SendKeeps
  <2>10. CASE LateError(r)
    BY <2>10, LateErrorKeeps
  <2> QED
    BY <1>1, <2>1, <2>2, <2>3, <2>4, <2>5, <2>6, <2>7, <2>8, <2>9, <2>10 DEF Step
<1>2. CASE UNCHANGED vars
  BY <1>2 DEF vars, fixed, context, answers, IInv, TypeOK, RequestOk, OwnId
<1> QED
  BY <1>1, <1>2 DEF Next, Terminating

(* The invariant.                                                          *)
THEOREM Invariant == Spec => []IInv
BY Begins, Continues, PTL DEF Spec

(* Every variable keeps its type, whatever requests come with which ids:   *)
(* every layer leaves a well-formed context, response and log.             *)
THEOREM TypeCorrect == Spec => []TypeOK
<1>1. IInv => TypeOK
  BY DEF IInv
<1> QED
  BY <1>1, Invariant, PTL

(* Whichever layer answers a request, the client gets the request's id and *)
(* the security headers, but for Starlette's page in debug mode.           *)
THEOREM ResponsesLabelled == Spec => []EveryResponseLabelled
<1>1. ASSUME IInv, NEW r \in Requests, Answered(r)
      PROVE  \/ sent[r].id = OwnId(r) /\ sent[r].secured
             \/ debug /\ sent[r].status = 500
  <2>1. RequestOk(r) /\ sent[r] # NoResponse
    BY <1>1 DEF IInv, Answered
  <2>2. \/ sent[r].id = OwnId(r) /\ sent[r].secured = TRUE
        \/ debug = TRUE /\ sent[r].status = 500
    BY <2>1 DEF RequestOk, Ok
  <2> QED
    BY <2>2
<1>2. IInv => EveryResponseLabelled
  BY <1>1 DEF EveryResponseLabelled
<1> QED
  BY <1>2, Invariant, PTL

(* No record carries the id of another request, and every record made      *)
(* inside the pipeline carries its own (CorrelationIDFilter).              *)
THEOREM RecordsUnderOwnId == Spec => []LoggedUnderOwnId
<1>1. IInv => LoggedUnderOwnId
  BY DEF IInv, RequestOk, Ok, LabelledWith, LoggedUnderOwnId
<1> QED
  BY <1>1, Invariant, PTL

(* The log tells what the client got: an answered request has a completion *)
(* with the status that was sent, or is a 500 with none.                   *)
THEOREM LogTellsAnswer == Spec => []LogAgreesWithAnswer
<1>1. ASSUME IInv, NEW r \in Requests, Answered(r)
      PROVE  IF "completed" \in Events(r)
             THEN CompletedWith(r, sent[r].status) /\ sent[r].status # 500
             ELSE sent[r].status = 500
  <2>1. RequestOk(r) /\ sent[r] # NoResponse
    BY <1>1 DEF IInv, Answered
  <2>2. Tells(logged[r], sent[r].status)
    BY <2>1 DEF RequestOk, Ok, Answering
  <2> QED
    BY <2>2 DEF Tells, NoCompletion, Events, CompletedWith
<1>2. IInv => LogAgreesWithAnswer
  BY <1>1 DEF LogAgreesWithAnswer
<1> QED
  BY <1>2, Invariant, PTL

(* A client gets one response, whatever fails after it: once a request is  *)
(* answered, only LateError is left for it, which sends nothing.           *)
THEOREM AnsweredOnce == Spec => OneResponse
<1>1. ASSUME IInv, NEW r \in Requests, Answered(r), NEW q \in Requests, Step(q)
      PROVE  sent'[r] = sent[r]
  <2>1. RequestOk(r) /\ sent[r] # NoResponse
    BY <1>1 DEF IInv, Answered
  <2>2. pc[r] \in {"late", "done"}
    BY <2>1 DEF RequestOk, Ok
  <2>3. CASE Send(q)
    <3>1. q # r /\ sent' = [sent EXCEPT ![q] = response[q]]
      BY <2>2, <2>3 DEF Send, Goto
    <3> QED
      BY <3>1, <1>1 DEF IInv, TypeOK
  <2>4. CASE ~Send(q)
    <3>1. UNCHANGED sent
      BY <1>1, <2>4 DEF Step, Correlate, Cors, TrustedHost, Screen, Route,
        CorrelateBack, CorrelateRaises, Secure, ServerError, LateError, answers
    <3> QED
      BY <3>1
  <2> QED
    BY <2>3, <2>4
<1>2. IInv /\ [Next]_vars => [\A r \in Requests : Answered(r) => sent'[r] = sent[r]]_vars
  BY <1>1 DEF Next, Terminating, vars
<1> QED
  BY <1>2, Invariant, PTL DEF Spec, OneResponse
===============================================================================
