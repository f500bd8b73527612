---------------------------- MODULE AuthGateProofs ----------------------------
(***************************************************************************)
(* What the guards guarantee for every resolution of the clocks, every     *)
(* skew the leeway covers, every default lifetime and any number of        *)
(* requests, tokens and versions of the account.                           *)
(***************************************************************************)
EXTENDS AuthGate, TLAPS

-------------------------------------------------------------------------------
(* Arithmetic *)

(* Truncation to seconds loses less than a second. *)
LEMMA Truncation ==
    ASSUME NEW t \in Nat
    PROVE  /\ WholeSeconds(t) \in Nat
           /\ WholeSeconds(t) * TicksPerSecond <= t
           /\ t < WholeSeconds(t) * TicksPerSecond + TicksPerSecond
BY ClockAssumption DEF WholeSeconds

(* A later second starts at least a second later. *)
LEMMA LaterSecond ==
    ASSUME NEW a \in Nat, NEW b \in Nat, a > b
    PROVE  a * TicksPerSecond >= b * TicksPerSecond + TicksPerSecond
<1>1. PICK k \in Nat : a = b + 1 + k
  <2> WITNESS a - b - 1 \in Nat
  <2> QED
    OBVIOUS
<1>2. a * TicksPerSecond
        = b * TicksPerSecond + TicksPerSecond + k * TicksPerSecond
  BY <1>1, ClockAssumption
<1>3. k * TicksPerSecond \in Nat /\ b * TicksPerSecond \in Nat
  BY ClockAssumption
<1> QED
  BY <1>2, <1>3, ClockAssumption

LEMMA SameOrEarlierSecond ==
    ASSUME NEW a \in Nat, NEW b \in Nat, a <= b
    PROVE  a * TicksPerSecond <= b * TicksPerSecond
<1>1. CASE a = b
  BY <1>1, ClockAssumption
<1>2. CASE b > a
  <2>1. a * TicksPerSecond \in Nat /\ b * TicksPerSecond \in Nat
    BY ClockAssumption
  <2> QED
    BY <1>2, <2>1, LaterSecond, ClockAssumption
<1> QED
  BY <1>1, <1>2

(* The leeway is a whole second longer than the skew. *)
LEMMA LeewayCoversSkew ==
    /\ Leeway * TicksPerSecond \in Nat
    /\ MaxSkew + TicksPerSecond <= Leeway * TicksPerSecond
<1>1. (Leeway - 1) * TicksPerSecond + TicksPerSecond = Leeway * TicksPerSecond
  BY ClockAssumption
<1>2. Leeway * TicksPerSecond \in Nat /\ (Leeway - 1) * TicksPerSecond \in Nat
  BY ClockAssumption
<1> QED
  BY <1>1, <1>2, ClockAssumption

-------------------------------------------------------------------------------
(* The inductive invariant, by what each record says of itself *)

(* The claims of a token are the truncated clock of a server within the    *)
(* skew, and its lifetime is no longer than the default.                   *)
Honest(token) ==
    /\ token \in TokenType
    /\ token.life <= DefaultLifetime
    /\ token.iat * TicksPerSecond <= token.born + MaxSkew
    /\ token.born < token.iat * TicksPerSecond + TicksPerSecond
    /\ token.exp * TicksPerSecond <= token.born + token.life + MaxSkew
    /\ token.born + token.life < token.exp * TicksPerSecond + TicksPerSecond

(* A password change is stamped within the skew of its real time. *)
Stamped(row) == /\ row \in RowType
                /\ row.changedAt # 0 => /\ row.changed <= row.changedAt
                                        /\ row.changedAt <= row.changed + MaxSkew

InTime(r) == r.at < r.token.born + r.token.life
                      + Leeway * TicksPerSecond + MaxSkew

(* What is known of a request r when the versions of the row are h. *)
RequestOk(r, h) ==
    /\ r.token.kind = "ours" => Honest(r.token)
    /\ r.step \in {"presented", "verified"} => r.since \in 1..Len(h)
    /\ r.step = "presented" => r.at = 0
    /\ r.step = "verified" => r.token.kind = "ours" /\ InTime(r) /\ r.at # 0
    /\ r.step = "answered" => r.until \in 1..Len(h)
    /\ r.step = "answered" /\ r.verdict = "ADMITTED" =>
          /\ r.token.kind = "ours" /\ InTime(r)
          /\ r.since \in 1..r.until
          /\ h[r.until].status = "active"
          /\ h[r.until].role \in AllowedRoles[r.guard]
          /\ ~Revoked(r.token, h[r.until])
    /\ r.step = "answered" /\ r.verdict = "TOKEN_REVOKED" =>
          r.token.kind = "ours" /\ Revoked(r.token, h[r.until])
    /\ r.step = "answered" /\ r.verdict = "TOKEN_INVALID" =>
          r.token.kind # "ours"
    /\ r.step = "answered" /\ r.verdict = "TOKEN_EXPIRED" =>
          r.at >= r.token.born + r.token.life
    /\ r.step = "answered" /\ r.verdict = "ANONYMOUS" =>
          r.token.kind = "missing"

IInv == /\ TypeOK
        /\ \A i \in 1..Len(history) : Stamped(history[i])
        /\ \A t \in tokens : t.kind = "ours" /\ Honest(t)
        /\ \A q \in Requests : RequestOk(req[q], history)

(* No token comes from the future. *)
TokensBorn ==
    /\ \A t \in tokens : t.born <= now
    /\ \A q \in Requests : req[q].token.kind = "ours" => req[q].token.born <= now

-------------------------------------------------------------------------------
(* The invariant implies the properties *)

(* What revocation compares, in real time. *)
LEMMA RevocationInTicks ==
    ASSUME NEW token, Honest(token), NEW row, Stamped(row), row.changedAt # 0
    PROVE  /\ ~Revoked(token, row) => token.born + MaxSkew > row.changed
           /\ Revoked(token, row) =>
                token.born < row.changed + TicksPerSecond + MaxSkew
<1> DEFINE c == WholeSeconds(row.changedAt)
<1>1. /\ token.iat \in Nat /\ token.born \in Nat
      /\ row.changedAt \in Nat /\ row.changed \in Nat
      /\ row.changed <= row.changedAt /\ row.changedAt <= row.changed + MaxSkew
  BY DEF Honest, Stamped, TokenType, RowType
<1>2. /\ c \in Nat
      /\ c * TicksPerSecond <= row.changedAt
      /\ row.changedAt < c * TicksPerSecond + TicksPerSecond
  BY <1>1, Truncation
<1>3. /\ token.iat * TicksPerSecond <= token.born + MaxSkew
      /\ token.born < token.iat * TicksPerSecond + TicksPerSecond
  BY DEF Honest
<1>4. token.iat * TicksPerSecond \in Nat /\ c * TicksPerSecond \in Nat
  BY <1>1, <1>2, ClockAssumption
<1>5. ASSUME ~Revoked(token, row) PROVE token.born + MaxSkew > row.changed
  <2>1. token.iat > c
    BY <1>1, <1>2, <1>5 DEF Revoked
  <2>2. token.iat * TicksPerSecond >= c * TicksPerSecond + TicksPerSecond
    BY <1>1, <1>2, <2>1, LaterSecond
  <2> HIDE DEF c
  <2> QED
    BY <1>1, <1>2, <1>3, <1>4, <2>2, ClockAssumption
<1>6. ASSUME Revoked(token, row)
      PROVE  token.born < row.changed + TicksPerSecond + MaxSkew
  <2>1. token.iat <= c
    BY <1>6 DEF Revoked
  <2>2. token.iat * TicksPerSecond <= c * TicksPerSecond
    BY <1>1, <1>2, <2>1, SameOrEarlierSecond
  <2> HIDE DEF c
  <2> QED
    BY <1>1, <1>2, <1>3, <1>4, <2>2, ClockAssumption
<1> QED
  BY <1>5, <1>6

LEMMA ImpliesRevocation == IInv => RevocationSound
<1> SUFFICES ASSUME IInv, NEW q \in Requests
             PROVE  LET row == history[req[q].until]
                    IN  /\ Got(q, "ADMITTED") /\ row.changedAt # 0 =>
                             req[q].token.born + MaxSkew > row.changed
                        /\ Got(q, "TOKEN_REVOKED") =>
                             req[q].token.born
                               < row.changed + TicksPerSecond + MaxSkew
  BY DEF RevocationSound
<1> DEFINE row == history[req[q].until]
<1>1. RequestOk(req[q], history)
  BY DEF IInv
<1>2. ASSUME Got(q, "ADMITTED"), row.changedAt # 0
      PROVE  req[q].token.born + MaxSkew > row.changed
  <2>1. Honest(req[q].token) /\ ~Revoked(req[q].token, row) /\ Stamped(row)
    BY <1>1, <1>2 DEF RequestOk, Got, IInv
  <2> QED
    BY <1>2, <2>1, RevocationInTicks
<1>3. ASSUME Got(q, "TOKEN_REVOKED")
      PROVE  req[q].token.born < row.changed + TicksPerSecond + MaxSkew
  <2>1. Honest(req[q].token) /\ Revoked(req[q].token, row) /\ Stamped(row)
    BY <1>1, <1>3 DEF RequestOk, Got, IInv
  <2>2. row.changedAt # 0
    BY <2>1 DEF Revoked
  <2> QED
    BY <2>1, <2>2, RevocationInTicks
<1> QED
  BY <1>2, <1>3

LEMMA ImpliesOutlives == IInv => NoTokenOutlivesDefault
<1> SUFFICES ASSUME IInv, NEW q \in Requests, Got(q, "ADMITTED")
             PROVE  req[q].at < req[q].token.born + DefaultLifetime
                                  + Leeway * TicksPerSecond + MaxSkew
  BY DEF NoTokenOutlivesDefault
<1>1. InTime(req[q]) /\ Honest(req[q].token)
  BY DEF IInv, RequestOk, Got
<1>2. /\ req[q].at \in Nat /\ req[q].token.born \in Nat
      /\ req[q].token.life \in Nat
  BY DEF IInv, TypeOK, TokenType
<1> QED
  BY <1>1, <1>2, LeewayCoversSkew, ClockAssumption DEF InTime, Honest

LEMMA ImpliesLifetime == IInv => FullLifetime
BY DEF IInv, RequestOk, FullLifetime, Got

LEMMA ImpliesOneVersion ==
    ASSUME IInv, NEW q \in Requests PROVE AdmittedOnOneVersion(q)
<1> SUFFICES ASSUME Got(q, "ADMITTED")
             PROVE  \E i \in req[q].since .. req[q].until :
                      /\ history[i].status = "active"
                      /\ history[i].role \in AllowedRoles[req[q].guard]
                      /\ history[i].changedAt # 0 =>
                           req[q].token.iat
                             > history[i].changedAt \div TicksPerSecond
  BY DEF AdmittedOnOneVersion
<1> DEFINE i == req[q].until
           row == history[i]
<1>1. /\ i \in req[q].since .. i /\ i \in 1..Len(history)
      /\ row.status = "active"
      /\ row.role \in AllowedRoles[req[q].guard]
      /\ Honest(req[q].token)
      /\ ~Revoked(req[q].token, row)
  BY DEF IInv, RequestOk, Got
<1>2. row.changedAt \in Nat /\ req[q].token.iat \in Nat
  BY <1>1 DEF IInv, Stamped, RowType, Honest, TokenType
<1>3. WholeSeconds(row.changedAt) \in Nat
  BY <1>2, Truncation
<1>4. row.changedAt # 0 => req[q].token.iat > WholeSeconds(row.changedAt)
  BY <1>1, <1>2, <1>3 DEF Revoked
<1> QED
  BY <1>1, <1>4 DEF WholeSeconds

LEMMA ImpliesOptional ==
    ASSUME IInv, NEW q \in Requests PROVE NeverDowngraded(q)
BY DEF IInv, RequestOk, NeverDowngraded, Got

LEMMA ImpliesEntitled == IInv => ServedAsEntitled
BY ImpliesOneVersion, ImpliesOptional DEF ServedAsEntitled

-------------------------------------------------------------------------------
(* The invariant is inductive *)

(* Nothing that is known of a request is lost when the row gets a version. *)
LEMMA OkWithMoreVersions ==
    ASSUME NEW r, NEW h \in Seq(RowType), NEW row \in RowType, RequestOk(r, h)
    PROVE  RequestOk(r, Append(h, row))
<1>1. /\ Len(Append(h, row)) = Len(h) + 1
      /\ Len(h) \in Nat
      /\ \A i \in 1..Len(h) : Append(h, row)[i] = h[i]
  OBVIOUS
<1>2. 1..Len(h) \subseteq 1..Len(Append(h, row))
  BY <1>1
<1> QED
  BY <1>1, <1>2 DEF RequestOk

(* The version a step adds is current when its action is enabled. *)
LEMMA CurrentRowOk ==
    ASSUME IInv
    PROVE  /\ Len(history) \in Nat \ {0}
           /\ CurrentRow \in RowType
           /\ Stamped(CurrentRow)
<1>1. Len(history) \in Nat \ {0} /\ Len(history) \in 1..Len(history)
  BY DEF IInv, TypeOK
<1> QED
  BY <1>1 DEF IInv, CurrentRow, Stamped

LEMMA NewVersionStep ==
    ASSUME IInv, NEW row, Stamped(row), NewVersion(row)
    PROVE  IInv'
<1>1. row \in RowType
  BY DEF Stamped
<1>2. /\ history' = Append(history, row)
      /\ UNCHANGED <<now, skew, tokens, req>>
  BY DEF NewVersion
<1>3. TypeOK'
  BY <1>1, <1>2 DEF IInv, TypeOK
<1>4. ASSUME NEW i \in 1..Len(history') PROVE Stamped(history'[i])
  <2>1. /\ Len(history') = Len(history) + 1
        /\ history'[Len(history) + 1] = row
        /\ \A j \in 1..Len(history) : history'[j] = history[j]
    BY <1>1, <1>2 DEF IInv, TypeOK
  <2>2. i \in 1..Len(history) \/ i = Len(history) + 1
    BY <2>1 DEF IInv, TypeOK
  <2> QED
    BY <2>1, <2>2 DEF IInv
<1>5. \A q \in Requests : RequestOk(req'[q], history')
  BY <1>1, <1>2, OkWithMoreVersions DEF IInv, TypeOK
<1>6. \A t \in tokens' : t.kind = "ours" /\ Honest(t)
  BY <1>2 DEF IInv
<1> QED
  BY <1>3, <1>4, <1>5, <1>6 DEF IInv

(* A server's clock is real time up to the skew. *)
LEMMA ClockIsClose ==
    ASSUME TypeOK, NEW s \in Servers
    PROVE  /\ Clock(s) \in Nat \ {0}
           /\ now <= Clock(s) /\ Clock(s) <= now + MaxSkew
BY ClockAssumption DEF TypeOK, Clock

LEMMA CreateStep ==
    ASSUME IInv, NEW s \in Servers, NEW d \in Deltas, CreateAccessToken(s, d)
    PROVE  IInv'
<1> DEFINE life == EffectiveLifetime(d)
           token == [kind |-> "ours",
                     iat  |-> WholeSeconds(Clock(s)),
                     exp  |-> WholeSeconds(Clock(s) + life),
                     born |-> now,
                     life |-> life]
<1>0. TypeOK
  BY DEF IInv
<1>1. life \in Nat /\ life <= DefaultLifetime
  BY ClockAssumption DEF EffectiveLifetime
<1>2. /\ Clock(s) \in Nat /\ now \in Nat
      /\ now <= Clock(s) /\ Clock(s) <= now + MaxSkew
  BY <1>0, ClockIsClose DEF TypeOK
<1>3. Clock(s) + life \in Nat
  BY <1>1, <1>2
<1>4. /\ token.iat \in Nat
      /\ token.iat * TicksPerSecond <= Clock(s)
      /\ Clock(s) < token.iat * TicksPerSecond + TicksPerSecond
  BY <1>2, Truncation
<1>5. /\ token.exp \in Nat
      /\ token.exp * TicksPerSecond <= Clock(s) + life
      /\ Clock(s) + life < token.exp * TicksPerSecond + TicksPerSecond
  BY <1>3, Truncation
<1>6. token.iat * TicksPerSecond \in Nat /\ token.exp * TicksPerSecond \in Nat
  BY <1>4, <1>5, ClockAssumption
<1>7. token.born = now /\ token.life = life /\ token \in TokenType
  BY <1>1, <1>2, <1>4, <1>5 DEF TokenType
<1>8. tokens' = tokens \cup {token} /\ UNCHANGED <<now, skew, history, req>>
  BY DEF CreateAccessToken
<1>9. token.kind = "ours"
  OBVIOUS
<1> HIDE DEF token, life
<1>10. Honest(token)
  BY <1>1, <1>2, <1>4, <1>5, <1>6, <1>7, ClockAssumption DEF Honest
<1> QED
  BY <1>0, <1>7, <1>8, <1>9, <1>10 DEF IInv, TypeOK

(* A step of one request that leaves it in a known state. *)
LEMMA RequestStep ==
    ASSUME IInv, NEW q \in Requests, NEW r,
           req' = [req EXCEPT ![q] = r],
           r \in [step: {"idle", "presented", "verified", "answered"},
                  guard: Guards, token: TokenType, since: Nat, at: Nat,
                  until: Nat, verdict: Verdicts],
           RequestOk(r, history),
           UNCHANGED <<now, skew, history, tokens>>
    PROVE  IInv'
<1>1. TypeOK'
  BY DEF IInv, TypeOK
<1>2. \A p \in Requests : RequestOk(req'[p], history')
  BY DEF IInv, TypeOK
<1> QED
  BY <1>1, <1>2 DEF IInv

LEMMA PresentStep ==
    ASSUME IInv, NEW q \in Requests, NEW g \in Guards,
           NEW t \in tokens \cup {NoToken, Foreign}, Present(q, g, t)
    PROVE  IInv'
<1> DEFINE r == [step |-> "presented", guard |-> g, token |-> t,
                 since |-> Len(history), at |-> 0, until |-> 0,
                 verdict |-> "none"]
<1>1. /\ r.step = "presented" /\ r.token = t /\ r.at = 0
      /\ r.since = Len(history)
  OBVIOUS
<1>2. t \in TokenType /\ (t.kind = "ours" => Honest(t))
  <2>1. CASE t \in tokens
    BY <2>1 DEF IInv, TypeOK
  <2>2. CASE t = NoToken
    BY <2>2 DEF NoToken, TokenType
  <2>3. CASE t = Foreign
    BY <2>3 DEF Foreign, TokenType
  <2> QED
    BY <2>1, <2>2, <2>3
<1>3. Len(history) \in Nat \ {0}
  BY CurrentRowOk
<1>4. RequestOk(r, history)
  <2> HIDE DEF r
  <2> QED
    BY <1>1, <1>2, <1>3 DEF RequestOk
<1>5. req' = [req EXCEPT ![q] = r] /\ UNCHANGED <<now, skew, history, tokens>>
  BY DEF Present
<1>6. r \in [step: {"idle", "presented", "verified", "answered"},
             guard: Guards, token: TokenType, since: Nat, at: Nat,
             until: Nat, verdict: Verdicts]
  BY <1>2, <1>3 DEF Verdicts
<1> HIDE DEF r
<1> QED
  BY <1>4, <1>5, <1>6, RequestStep

(* What an answer makes of a request. *)
LEMMA AnswerStep ==
    ASSUME IInv, NEW q \in Requests, NEW v \in Verdicts, Answer(q, v),
           UNCHANGED <<now, skew, history, tokens>>,
           req[q].step \in {"presented", "verified"},
           v = "ADMITTED" =>
              /\ req[q].step = "verified"
              /\ VerdictOn(CurrentRow, req[q].token, req[q].guard) = v,
           v = "TOKEN_REVOKED" =>
              /\ req[q].step = "verified"
              /\ VerdictOn(CurrentRow, req[q].token, req[q].guard) = v,
           v = "TOKEN_INVALID" => req[q].token.kind # "ours",
           v = "TOKEN_EXPIRED" =>
              /\ req[q].step = "presented"
              /\ now >= req[q].token.born + req[q].token.life,
           v = "ANONYMOUS" => req[q].token.kind = "missing"
    PROVE  IInv'
<1> DEFINE old == req[q]
           r == [step |-> "answered", guard |-> old.guard,
                 token |-> old.token, since |-> old.since,
                 at |-> IF old.at = 0 THEN now ELSE old.at,
                 until |-> Len(history), verdict |-> v]
<1>1. /\ old \in [step: {"idle", "presented", "verified", "answered"},
                  guard: Guards, token: TokenType, since: Nat, at: Nat,
                  until: Nat, verdict: Verdicts]
      /\ RequestOk(old, history)
      /\ now \in Nat \ {0}
  BY DEF IInv, TypeOK
<1>2. Len(history) \in Nat \ {0}
  BY CurrentRowOk
<1>3. /\ r.step = "answered" /\ r.guard = old.guard /\ r.token = old.token
      /\ r.since = old.since /\ r.until = Len(history) /\ r.verdict = v
      /\ r.at = IF old.at = 0 THEN now ELSE old.at
      /\ r \in [step: {"idle", "presented", "verified", "answered"},
                guard: Guards, token: TokenType, since: Nat, at: Nat,
                until: Nat, verdict: Verdicts]
  BY <1>1, <1>2
<1>4. req' = [req EXCEPT ![q] = r]
  BY DEF Answer
<1>5. history[r.until] = CurrentRow
  BY <1>3 DEF CurrentRow
<1> HIDE DEF r, old
<1>6. old = req[q]
  BY DEF old
<1>7. ASSUME v = "ADMITTED"
      PROVE  /\ r.token.kind = "ours" /\ InTime(r)
             /\ r.since \in 1..r.until
             /\ history[r.until].status = "active"
             /\ history[r.until].role \in AllowedRoles[r.guard]
             /\ ~Revoked(r.token, history[r.until])
  <2>1. old.token.kind = "ours" /\ InTime(old) /\ old.since \in 1..Len(history)
    BY <1>1, <1>6, <1>7 DEF RequestOk
  <2>2. CurrentRow.status = "active"
        /\ CurrentRow.role \in AllowedRoles[old.guard]
        /\ ~Revoked(old.token, CurrentRow)
    BY <1>6, <1>7, CurrentRowOk DEF VerdictOn, RowType
  <2>3. InTime(r)
    <3>1. old.at # 0
      BY <1>1, <1>6, <1>7 DEF RequestOk
    <3>2. r.at = old.at
      BY <1>3, <3>1
    <3> QED
      BY <1>3, <2>1, <3>2 DEF InTime
  <2> QED
    BY <1>3, <1>5, <2>1, <2>2, <2>3
<1>8. ASSUME v = "TOKEN_REVOKED"
      PROVE  r.token.kind = "ours" /\ Revoked(r.token, history[r.until])
  <2>1. old.token.kind = "ours"
    BY <1>1, <1>6, <1>8 DEF RequestOk
  <2>2. Revoked(old.token, CurrentRow)
    BY <1>6, <1>8 DEF VerdictOn
  <2> QED
    BY <1>3, <1>5, <2>1, <2>2
<1>9. ASSUME v = "TOKEN_EXPIRED" PROVE r.at >= r.token.born + r.token.life
  <2>1. old.at = 0
    BY <1>1, <1>6, <1>9 DEF RequestOk
  <2> QED
    BY <1>3, <1>6, <1>9, <2>1
<1>10. RequestOk(r, history)
  BY <1>1, <1>2, <1>3, <1>6, <1>7, <1>8, <1>9 DEF RequestOk
<1> QED
  BY <1>3, <1>4, <1>10, RequestStep

LEMMA WithoutTokenStep ==
    ASSUME IInv, NEW q \in Requests, WithoutToken(q)
    PROVE  IInv'
<1> DEFINE v == IF req[q].guard = "optional" THEN "ANONYMOUS"
                                             ELSE "NOT_AUTHENTICATED"
<1>1. /\ v \in Verdicts
      /\ v \notin {"ADMITTED", "TOKEN_REVOKED", "TOKEN_INVALID", "TOKEN_EXPIRED"}
  BY DEF Verdicts
<1>2. Answer(q, v) /\ UNCHANGED <<now, skew, history, tokens>>
  BY DEF WithoutToken
<1>3. req[q].step = "presented" /\ req[q].token.kind = "missing"
  BY DEF WithoutToken
<1> HIDE DEF v
<1> QED
  BY <1>1, <1>2, <1>3, AnswerStep

(* A clock within the skew never finds an honest token immature, and finds *)
(* it expired only after its lifetime.                                     *)
LEMMA HonestAtTheGate ==
    ASSUME TypeOK, NEW token, Honest(token), token.born <= now, NEW s \in Servers
    PROVE  /\ ~Immature(token, s)
           /\ Expired(token, s) => now >= token.born + token.life
           /\ ~Expired(token, s) => now < token.born + token.life
                                     + Leeway * TicksPerSecond + MaxSkew
<1>1. /\ Clock(s) \in Nat /\ now \in Nat
      /\ now <= Clock(s) /\ Clock(s) <= now + MaxSkew
  BY ClockIsClose DEF TypeOK
<1>2. /\ token.iat \in Nat /\ token.exp \in Nat
      /\ token.born \in Nat /\ token.life \in Nat
  BY DEF Honest, TokenType
<1>3. token.iat * TicksPerSecond \in Nat /\ token.exp * TicksPerSecond \in Nat
  BY <1>2, ClockAssumption
<1> QED
  BY <1>1, <1>2, <1>3, LeewayCoversSkew, ClockAssumption
     DEF Honest, Immature, Expired

LEMMA VerifyStep ==
    ASSUME IInv, NEW q \in Requests, NEW s \in Servers, VerifyToken(q, s),
           TokensBorn
    PROVE  IInv'
<1> DEFINE token == req[q].token
<1>0. /\ TypeOK /\ RequestOk(req[q], history)
      /\ req[q].step = "presented"
      /\ token \in TokenType
      /\ token.kind = "ours" => token.born <= now
      /\ UNCHANGED <<now, skew, history, tokens>>
  BY DEF IInv, TypeOK, TokensBorn, VerifyToken
<1>1. CASE token.kind = "foreign" \/ Immature(token, s)
  <2>1. Answer(q, "TOKEN_INVALID")
    BY <1>1 DEF VerifyToken, Refusal
  <2>2. token.kind # "ours"
    BY <1>0, <1>1, HonestAtTheGate DEF RequestOk
  <2> QED
    BY <1>0, <2>1, <2>2, AnswerStep DEF Verdicts
<1>2. CASE ~(token.kind = "foreign" \/ Immature(token, s)) /\ Expired(token, s)
  <2>1. Answer(q, "TOKEN_EXPIRED")
    BY <1>2 DEF VerifyToken, Refusal
  <2>2. token.kind = "ours"
    BY <1>0, <1>2 DEF VerifyToken, TokenType
  <2>3. now >= token.born + token.life
    BY <1>0, <1>2, <2>2, HonestAtTheGate DEF RequestOk
  <2> QED
    BY <1>0, <2>1, <2>3, AnswerStep DEF Verdicts
<1>3. CASE /\ ~(token.kind = "foreign" \/ Immature(token, s))
           /\ ~Expired(token, s)
  <2> DEFINE r == [step |-> "verified", guard |-> req[q].guard,
                   token |-> token, since |-> req[q].since,
                   at |-> now, until |-> 0, verdict |-> "none"]
  <2>1. req' = [req EXCEPT ![q] = r]
    BY <1>3 DEF VerifyToken
  <2>2. token.kind = "ours"
    BY <1>0, <1>3 DEF VerifyToken, TokenType
  <2>3. now < token.born + token.life + Leeway * TicksPerSecond + MaxSkew
    BY <1>0, <1>3, <2>2, HonestAtTheGate DEF RequestOk
  <2>4. r \in [step: {"idle", "presented", "verified", "answered"},
               guard: Guards, token: TokenType, since: Nat, at: Nat,
               until: Nat, verdict: Verdicts]
    BY <1>0 DEF TypeOK, Verdicts
  <2>5. /\ r.step = "verified" /\ r.token = token /\ r.at = now
        /\ r.since = req[q].since
    OBVIOUS
  <2>6. now # 0
    BY <1>0 DEF TypeOK
  <2> HIDE DEF r
  <2>7. RequestOk(r, history)
    BY <1>0, <2>2, <2>3, <2>5, <2>6 DEF RequestOk, InTime
  <2> QED
    BY <1>0, <2>1, <2>4, <2>7, RequestStep
<1> QED
  BY <1>1, <1>2, <1>3

LEMMA LoadStep ==
    ASSUME IInv, NEW q \in Requests, LoadUser(q)
    PROVE  IInv'
<1> DEFINE v == VerdictOn(CurrentRow, req[q].token, req[q].guard)
<1>1. Answer(q, v) /\ UNCHANGED <<now, skew, history, tokens>>
  BY DEF LoadUser, RowSeen, Refusal
<1>2. v \in {"USER_NOT_FOUND", "USER_INACTIVE", "TOKEN_REVOKED",
             "INSUFFICIENT_PERMISSIONS", "ADMITTED"}
  BY DEF VerdictOn
<1>3. req[q].step = "verified"
  BY DEF LoadUser
<1>4. v = VerdictOn(CurrentRow, req[q].token, req[q].guard)
  OBVIOUS
<1> HIDE DEF v
<1> QED
  BY <1>1, <1>2, <1>3, <1>4, AnswerStep DEF Verdicts

LEMMA BornStep == TypeOK /\ TokensBorn /\ [Next]_vars => TokensBorn'
<1> SUFFICES ASSUME TypeOK, TokensBorn, [Next]_vars
             PROVE  TokensBorn'
  OBVIOUS
<1> USE DEF TokensBorn
<1>1. CASE Tick
  BY <1>1 DEF Tick, TypeOK, TokenType
<1>2. ASSUME NEW s \in Servers, NEW d \in Deltas, CreateAccessToken(s, d)
      PROVE  TokensBorn'
  BY <1>2 DEF CreateAccessToken, TypeOK
<1>3. ASSUME NEW q \in Requests, NEW g \in Guards,
             NEW t \in tokens \cup {NoToken, Foreign}, Present(q, g, t)
      PROVE  TokensBorn'
  BY <1>3 DEF Present, TypeOK, NoToken, Foreign
<1>4. ASSUME NEW q \in Requests, WithoutToken(q) PROVE TokensBorn'
  BY <1>4 DEF WithoutToken, Answer, TypeOK
<1>5. ASSUME NEW q \in Requests, NEW s \in Servers, VerifyToken(q, s)
      PROVE  TokensBorn'
  <2>1. \A p \in Requests : req'[p].token = req[p].token
    <3>1. ASSUME NEW v, Answer(q, v)
          PROVE  \A p \in Requests : req'[p].token = req[p].token
      BY <3>1 DEF Answer, TypeOK
    <3>2. ASSUME NEW r, req' = [req EXCEPT ![q] = r], r.token = req[q].token
          PROVE  \A p \in Requests : req'[p].token = req[p].token
      BY <3>2 DEF TypeOK
    <3> QED
      BY <1>5, <3>1, <3>2 DEF VerifyToken
  <2> QED
    BY <1>5, <2>1 DEF VerifyToken
<1>6. ASSUME NEW q \in Requests, LoadUser(q) PROVE TokensBorn'
  <2>1. \A p \in Requests : req'[p].token = req[p].token
    BY <1>6 DEF LoadUser, Answer, TypeOK
  <2> QED
    BY <1>6, <2>1 DEF LoadUser
<1>7. CASE UNCHANGED <<now, tokens, req>>
  BY <1>7
<1> QED
  BY <1>1, <1>2, <1>3, <1>4, <1>5, <1>6, <1>7
     DEF Next, StoreAccount, SetActive, SoftDelete, SetRole, ChangePassword,
         NewVersion, vars

(* Changing a column other than the password keeps the stamp. *)
LEMMA ExternalStep ==
    ASSUME IInv,
           \/ StoreAccount \/ SetActive \/ SoftDelete
           \/ \E role \in Roles : SetRole(role)
           \/ \E s \in Servers : ChangePassword(s)
    PROVE  IInv'
<1>0. CurrentRow \in RowType /\ Stamped(CurrentRow) /\ TypeOK
  BY CurrentRowOk DEF IInv
<1>1. ASSUME NEW row \in RowType, NewVersion(row),
             row.changedAt = CurrentRow.changedAt,
             row.changed = CurrentRow.changed
      PROVE  IInv'
  BY <1>0, <1>1, NewVersionStep DEF Stamped
<1>2. CASE StoreAccount
  BY <1>0, <1>1, <1>2 DEF StoreAccount, RowType
<1>3. CASE SetActive
  <2> DEFINE row == [CurrentRow EXCEPT !.status =
                       IF @ = "active" THEN "inactive" ELSE "active"]
  <2>1. /\ row \in RowType
        /\ row.changedAt = CurrentRow.changedAt
        /\ row.changed = CurrentRow.changed
    BY <1>0 DEF RowType
  <2>2. NewVersion(row)
    BY <1>3 DEF SetActive
  <2> QED
    BY <1>1, <2>1, <2>2
<1>4. CASE SoftDelete
  BY <1>0, <1>1, <1>4 DEF SoftDelete, RowType
<1>5. ASSUME NEW role \in Roles, SetRole(role) PROVE IInv'
  BY <1>0, <1>1, <1>5 DEF SetRole, RowType
<1>6. ASSUME NEW s \in Servers, ChangePassword(s) PROVE IInv'
  <2> DEFINE row == [CurrentRow EXCEPT !.changedAt = Clock(s), !.changed = now]
  <2>1. /\ Clock(s) \in Nat /\ now \in Nat
        /\ now <= Clock(s) /\ Clock(s) <= now + MaxSkew
    BY <1>0, ClockIsClose DEF TypeOK
  <2>2. /\ row \in RowType
        /\ row.changedAt = Clock(s) /\ row.changed = now
    BY <1>0, <2>1 DEF RowType
  <2>3. Stamped(row)
    BY <2>1, <2>2 DEF Stamped
  <2>4. NewVersion(row)
    BY <1>6 DEF ChangePassword
  <2> QED
    BY <2>3, <2>4, NewVersionStep
<1> QED
  BY <1>2, <1>3, <1>4, <1>5, <1>6

LEMMA InvariantStep == IInv /\ TokensBorn /\ [Next]_vars => IInv'
<1> SUFFICES ASSUME IInv, TokensBorn, [Next]_vars
             PROVE  IInv'
  OBVIOUS
<1>1. CASE Tick
  <2>1. TypeOK'
    BY <1>1 DEF Tick, IInv, TypeOK
  <2> QED
    BY <1>1, <2>1 DEF Tick, IInv
<1>2. CASE UNCHANGED vars
  <2>1. TypeOK'
    BY <1>2 DEF vars, IInv, TypeOK
  <2> QED
    BY <1>2, <2>1 DEF vars, IInv
<1> QED
  BY <1>1, <1>2, CreateStep, ExternalStep, PresentStep, WithoutTokenStep,
     VerifyStep, LoadStep DEF Next

LEMMA InitInvariant == Init => IInv /\ TokensBorn
<1> SUFFICES ASSUME Init PROVE IInv /\ TokensBorn
  OBVIOUS
<1> DEFINE row == [status |-> "absent", role |-> "user",
                   changedAt |-> 0, changed |-> 0]
<1>1. row \in RowType /\ row.changedAt = 0
  BY DEF RowType, Roles
<1>2. history = <<row>> /\ history \in Seq(RowType) /\ history # <<>>
  BY <1>1 DEF Init
<1>3. \A i \in 1..Len(history) : Stamped(history[i])
  BY <1>1, <1>2 DEF Stamped
<1>4. Idle \in [step: {"idle", "presented", "verified", "answered"},
                guard: Guards, token: TokenType, since: Nat, at: Nat,
                until: Nat, verdict: Verdicts]
  BY DEF Idle, Guards, AllowedRoles, TokenType, NoToken, Verdicts
<1>5. Idle.step = "idle" /\ Idle.token.kind = "missing"
  BY DEF Idle, NoToken
<1>6. TypeOK
  BY <1>2, <1>4 DEF Init, TypeOK
<1>7. \A q \in Requests : RequestOk(req[q], history)
  BY <1>5 DEF Init, RequestOk
<1>8. tokens = {} /\ \A q \in Requests : req[q] = Idle
  BY DEF Init
<1> QED
  BY <1>3, <1>5, <1>6, <1>7, <1>8 DEF IInv, TokensBorn

(* Every reachable state satisfies the inductive invariant. *)
THEOREM Invariant == Spec => [](IInv /\ TokensBorn)
<1>1. IInv /\ TokensBorn /\ [Next]_vars => (IInv /\ TokensBorn)'
  <2>1. IInv => TypeOK
    BY DEF IInv
  <2> QED
    BY <2>1, InvariantStep, BornStep
<1> QED
  BY InitInvariant, <1>1, PTL DEF Spec

(* Every variable keeps its type. *)
THEOREM TypeCorrect == Spec => []TypeOK
<1>1. IInv => TypeOK
  BY DEF IInv
<1> QED
  BY Invariant, <1>1, PTL

(* A password change revokes the tokens issued before it and no others,    *)
(* for every clock resolution and every skew the leeway covers.            *)
THEOREM RevocationIsSound == Spec => []RevocationSound
BY Invariant, ImpliesRevocation, PTL

(* No token is honoured past the default lifetime, leeway and skew. *)
THEOREM NoTokenOutlives == Spec => []NoTokenOutlivesDefault
BY Invariant, ImpliesOutlives, PTL

(* No server refuses a token of this service before its lifetime is over. *)
THEOREM TokensLiveTheirLife == Spec => []FullLifetime
BY Invariant, ImpliesLifetime, PTL

(* Admission rests on one version of the row, current at the time, and no  *)
(* request with a token is served as an anonymous one.                     *)
THEOREM ServiceIsEntitled == Spec => []ServedAsEntitled
BY Invariant, ImpliesEntitled, PTL
===============================================================================
