------------------------------- MODULE AuthGate -------------------------------
(***************************************************************************)
(* Access tokens and the dependencies that guard an endpoint:              *)
(* create_access_token, verify_token, get_current_user,                    *)
(* get_current_user_optional and RoleChecker.                              *)
(*                                                                         *)
(* A token carries the whole second at which it was issued, by the clock   *)
(* of one server; another server compares it with its own clock and with   *)
(* the second at which the password was last changed, by the clock of yet  *)
(* another one.  Time is counted in ticks of which TicksPerSecond make a   *)
(* second, so that truncation to seconds loses something.  The row of the  *)
(* account changes while requests are on their way (module variable        *)
(* history: every version there has been, the last one current).           *)
(***************************************************************************)
EXTENDS Integers, Sequences, FiniteSets

CONSTANTS
    Requests,        \* requests to guarded endpoints
    Servers,         \* server processes
    TicksPerSecond,  \* resolution of the clocks
    MaxSkew,         \* ticks by which two servers' clocks may differ
    Leeway,          \* seconds verify_token allows for that
    DefaultLifetime, \* access_token_expire_minutes, in ticks
    Deltas,          \* values of expires_delta callers use; 0 stands for None
    MaxNow,          \* bound: the clock stops here
    MaxVersions,     \* bound: versions of the account's row
    MaxTokens        \* bound: tokens issued

ASSUME ClockAssumption ==
    /\ TicksPerSecond \in Nat \ {0}
    /\ Leeway \in Nat \ {0}
    /\ MaxSkew \in Nat
    /\ {MaxNow, MaxVersions, MaxTokens} \subseteq Nat
    /\ MaxSkew <= (Leeway - 1) * TicksPerSecond
    /\ DefaultLifetime \in Nat \ {0}
    /\ Deltas \subseteq Int

VARIABLES
    now,     \* real time, in ticks
    skew,    \* skew[s]: how far the clock of server s is ahead of it
    history, \* the versions of the account's row
    tokens,  \* the tokens issued for the account
    req      \* req[q]: how far request q has got through its guard

vars == <<now, skew, history, tokens, req>>

Roles == {"user", "admin"}

(* The guards an endpoint can depend on and the roles each lets in. *)
AllowedRoles ==
    [g \in {"get_current_user", "optional", "require_user", "require_admin"} |->
        IF g = "require_admin" THEN {"admin"} ELSE Roles]
Guards == DOMAIN AllowedRoles

Verdicts == {"none", "ADMITTED", "ANONYMOUS", "NOT_AUTHENTICATED",
             "TOKEN_INVALID", "TOKEN_EXPIRED", "TOKEN_REVOKED",
             "USER_NOT_FOUND", "USER_INACTIVE", "INSUFFICIENT_PERMISSIONS"}

(* A version of the row.  changedAt is password_changed_at as stamped, 0 for *)
(* None; changed is the real time of that change.                            *)
RowType == [status: {"absent", "active", "inactive", "deleted"},
            role: Roles, changedAt: Nat, changed: Nat]

(* What a request may carry: a token issued here, no token, or one that is *)
(* not signed here or lacks the claims of TokenPayload.  born and life are *)
(* not claims: the real time of issue and the lifetime the issuer meant.   *)
TokenType == [kind: {"ours", "missing", "foreign"},
              iat: Nat, exp: Nat, born: Nat, life: Nat]
NoToken == [kind |-> "missing", iat |-> 0, exp |-> 0, born |-> 0, life |-> 0]
Foreign == [kind |-> "foreign", iat |-> 0, exp |-> 0, born |-> 0, life |-> 0]

-------------------------------------------------------------------------------
Clock(s) == now + skew[s]

(* int(timestamp): claims and password_changed_at lose the fraction. *)
WholeSeconds(t) == t \div TicksPerSecond

(* MUTANT: a longer delta is honoured. *)
EffectiveLifetimeUnclamped(d) == IF d <= 0 THEN DefaultLifetime ELSE d

(* MUTANT: only None is reset, a negative delta is not. *)
EffectiveLifetimeNegative(d) ==
    IF d = 0 \/ d > DefaultLifetime THEN DefaultLifetime ELSE d

(* None and non-positive deltas are reset, longer ones clamped. *)
EffectiveLifetime(d) ==
    IF d <= 0 \/ d > DefaultLifetime THEN DefaultLifetime ELSE d

Immature(token, s) ==
    token.iat * TicksPerSecond > Clock(s) + Leeway * TicksPerSecond

(* MUTANT: the clocks are compared without leeway. *)
ExpiredStrictly(token, s) == token.exp * TicksPerSecond <= Clock(s)

Expired(token, s) ==
    token.exp * TicksPerSecond + Leeway * TicksPerSecond <= Clock(s)

CurrentRow == history[Len(history)]

(* MUTANT: the row comes from a cache that is one version behind. *)
RowFromCache(q) == history[IF Len(history) = 1 THEN 1 ELSE Len(history) - 1]

(* db.get(User, ...) in a session of its own: the committed version. *)
RowSeen(q) == CurrentRow

(* MUTANT: a token of the very second of the change is still good. *)
RevokedLeniently(token, row) ==
    row.changedAt # 0 /\ token.iat < WholeSeconds(row.changedAt)

(* password_changed_at is not None and iat <= int(password_changed_at). *)
Revoked(token, row) ==
    row.changedAt # 0 /\ token.iat <= WholeSeconds(row.changedAt)

(* The checks of get_current_user and RoleChecker on the row, in order. *)
VerdictOn(row, token, guard) ==
    IF row.status \in {"absent", "deleted"}          THEN "USER_NOT_FOUND"
    ELSE IF row.status = "inactive"                  THEN "USER_INACTIVE"
    ELSE IF Revoked(token, row)                      THEN "TOKEN_REVOKED"
    ELSE IF row.role \notin AllowedRoles[guard]      THEN "INSUFFICIENT_PERMISSIONS"
    ELSE "ADMITTED"

-------------------------------------------------------------------------------
Idle == [step |-> "idle", guard |-> "optional", token |-> NoToken,
         since |-> 0, at |-> 0, until |-> 0, verdict |-> "none"]

(* The account is being registered: its row is flushed, not committed. *)
Init ==
    /\ now = 1
    /\ skew \in [Servers -> 0..MaxSkew]
    /\ history = <<[status |-> "absent", role |-> "user",
                    changedAt |-> 0, changed |-> 0]>>
    /\ tokens = {}
    /\ req = [q \in Requests |-> Idle]

Tick == now < MaxNow /\ now' = now + 1 /\ UNCHANGED <<skew, history, tokens, req>>

(* create_access_token on server s. *)
CreateAccessToken(s, d) ==
    /\ Cardinality(tokens) < MaxTokens
    /\ tokens' = tokens \cup
         {[kind |-> "ours",
           iat  |-> WholeSeconds(Clock(s)),
           exp  |-> WholeSeconds(Clock(s) + EffectiveLifetime(d)),
           born |-> now,
           life |-> EffectiveLifetime(d)]}
    /\ UNCHANGED <<now, skew, history, req>>

(* The account's row changes: the registration commits, and the columns    *)
(* the guard reads are written.                                            *)
NewVersion(row) ==
    /\ Len(history) < MaxVersions
    /\ history' = Append(history, row)
    /\ UNCHANGED <<now, skew, tokens, req>>

StoreAccount ==
    /\ CurrentRow.status = "absent"
    /\ NewVersion([CurrentRow EXCEPT !.status = "active"])

SetActive ==
    /\ CurrentRow.status \in {"active", "inactive"}
    /\ NewVersion([CurrentRow EXCEPT !.status =
                     IF @ = "active" THEN "inactive" ELSE "active"])

SoftDelete ==
    /\ CurrentRow.status \in {"active", "inactive"}
    /\ NewVersion([CurrentRow EXCEPT !.status = "deleted"])

SetRole(role) ==
    /\ CurrentRow.status # "absent"
    /\ CurrentRow.role # role
    /\ NewVersion([CurrentRow EXCEPT !.role = role])

ChangePassword(s) ==
    /\ CurrentRow.status # "absent"
    /\ NewVersion([CurrentRow EXCEPT !.changedAt = Clock(s), !.changed = now])

Answer(q, verdict) ==
    req' = [req EXCEPT ![q] =
              [step |-> "answered", guard |-> req[q].guard,
               token |-> req[q].token, since |-> req[q].since,
               at |-> IF req[q].at = 0 THEN now ELSE req[q].at,
               until |-> Len(history), verdict |-> verdict]]

(* A request arrives.  Without a token OAuth2PasswordBearer refuses it,    *)
(* except in front of get_current_user_optional.                           *)
Present(q, guard, token) ==
    /\ req[q].step = "idle"
    /\ req' = [req EXCEPT ![q] =
                 [step |-> "presented", guard |-> guard, token |-> token,
                  since |-> Len(history), at |-> 0, until |-> 0,
                  verdict |-> "none"]]
    /\ UNCHANGED <<now, skew, history, tokens>>

WithoutToken(q) ==
    /\ req[q].step = "presented"
    /\ req[q].token.kind = "missing"
    /\ Answer(q, IF req[q].guard = "optional" THEN "ANONYMOUS"
                                              ELSE "NOT_AUTHENTICATED")
    /\ UNCHANGED <<now, skew, history, tokens>>

(* MUTANT: the optional guard treats a bad token as no token. *)
RefusalDowngraded(q, verdict) ==
    IF req[q].guard = "optional" THEN "ANONYMOUS" ELSE verdict

(* The guard's HTTPException goes out as it is. *)
Refusal(q, verdict) == verdict

(* verify_token on server s: signature and claims, then iat, then exp. *)
VerifyToken(q, s) ==
    /\ req[q].step = "presented"
    /\ req[q].token.kind # "missing"
    /\ IF req[q].token.kind = "foreign" \/ Immature(req[q].token, s)
       THEN Answer(q, Refusal(q, "TOKEN_INVALID"))
       ELSE IF Expired(req[q].token, s)
       THEN Answer(q, Refusal(q, "TOKEN_EXPIRED"))
       ELSE req' = [req EXCEPT ![q] =
                  [step |-> "verified", guard |-> req[q].guard,
                   token |-> req[q].token, since |-> req[q].since,
                   at |-> now, until |-> 0, verdict |-> "none"]]
    /\ UNCHANGED <<now, skew, history, tokens>>

(* The rest of get_current_user, and RoleChecker: one read of the row. *)
LoadUser(q) ==
    /\ req[q].step = "verified"
    /\ LET verdict == VerdictOn(RowSeen(q), req[q].token, req[q].guard)
       IN Answer(q, IF verdict = "ADMITTED" THEN verdict
                                            ELSE Refusal(q, verdict))
    /\ UNCHANGED <<now, skew, history, tokens>>

Next ==
    \/ Tick
    \/ \E s \in Servers : \E d \in Deltas : CreateAccessToken(s, d)
    \/ StoreAccount \/ SetActive \/ SoftDelete
    \/ \E role \in Roles : SetRole(role)
    \/ \E s \in Servers : ChangePassword(s)
    \/ \E q \in Requests :
        \/ \E g \in Guards, t \in tokens \cup {NoToken, Foreign} : Present(q, g, t)
        \/ WithoutToken(q)
        \/ \E s \in Servers : VerifyToken(q, s)
        \/ LoadUser(q)

Spec == Init /\ [][Next]_vars

-------------------------------------------------------------------------------
(* Properties *)

TypeOK ==
    /\ now \in Nat \ {0}
    /\ skew \in [Servers -> 0..MaxSkew]
    /\ history \in Seq(RowType) /\ history # <<>>
    /\ tokens \subseteq TokenType
    /\ req \in [Requests ->
                 [step: {"idle", "presented", "verified", "answered"},
                  guard: Guards, token: TokenType, since: Nat, at: Nat,
                  until: Nat, verdict: Verdicts]]

Got(q, verdict) == req[q].step = "answered" /\ req[q].verdict = verdict

(* A token issued before the last password change is not let in, whichever *)
(* servers issued it and stamped the change, as far as their clocks agree; *)
(* and one issued a second or more after the change is not called revoked  *)
(* (the iat <= int(password_changed_at) of get_current_user).              *)
RevocationSound ==
    \A q \in Requests :
        LET row == history[req[q].until]
        IN  /\ Got(q, "ADMITTED") /\ row.changedAt # 0 =>
                 req[q].token.born + MaxSkew > row.changed
            /\ Got(q, "TOKEN_REVOKED") =>
                 req[q].token.born < row.changed + TicksPerSecond + MaxSkew

(* No token opens a door later than the leeway and the skew after the      *)
(* default lifetime, however long a lifetime its issuer asked for.         *)
NoTokenOutlivesDefault ==
    \A q \in Requests : Got(q, "ADMITTED") =>
        req[q].at < req[q].token.born + DefaultLifetime
                      + Leeway * TicksPerSecond + MaxSkew

(* A token issued here is good for all of its lifetime: no server calls it *)
(* invalid, or expired before its time, although exp and iat lose their    *)
(* fraction and the servers' clocks differ (the leeway of verify_token).   *)
FullLifetime ==
    \A q \in Requests : req[q].token.kind = "ours" =>
        /\ ~Got(q, "TOKEN_INVALID")
        /\ Got(q, "TOKEN_EXPIRED") =>
             req[q].at >= req[q].token.born + req[q].token.life

(* Who is let in was entitled to it by one single version of the row that  *)
(* was current at some moment between the request's arrival and its answer: *)
(* active, not deleted, with an allowed role and no newer password.        *)
AdmittedOnOneVersion(q) ==
    Got(q, "ADMITTED") =>
        \E i \in req[q].since .. req[q].until :
            /\ history[i].status = "active"
            /\ history[i].role \in AllowedRoles[req[q].guard]
            /\ history[i].changedAt # 0 =>
                  req[q].token.iat > history[i].changedAt \div TicksPerSecond

(* A request that carries a token, good or bad, is never served as an      *)
(* anonymous one (get_current_user_optional).                              *)
NeverDowngraded(q) == Got(q, "ANONYMOUS") => req[q].token.kind = "missing"

(* Whoever is served, as a user or as nobody, was entitled to be served so *)
(* (get_current_user, its optional form and RoleChecker).                  *)
ServedAsEntitled ==
    \A q \in Requests : AdmittedOnOneVersion(q) /\ NeverDowngraded(q)
===============================================================================
