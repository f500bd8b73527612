----------------------------- MODULE Registration -----------------------------
(***************************************************************************)
(* POST /api/v1/auth/register from the moment the request reaches a server *)
(* to the end of its database session.                                     *)
(*                                                                         *)
(* Many requests run at once: register is a plain def, so every request    *)
(* has a thread of the pool to itself, and several server processes share  *)
(* one PostgreSQL.  The order of a request's steps is that of the code:    *)
(* get_db opens a session, the payload is validated, register_user hashes  *)
(* the password and flushes the INSERT in a SAVEPOINT, the 201 goes out,   *)
(* and only then does the code after get_db's yield commit and close (a    *)
(* dependency with yield ends after the response is sent).  When an        *)
(* exception leaves the endpoint, get_db rolls back and closes first and   *)
(* the error response is sent afterwards.                                  *)
(***************************************************************************)
EXTENDS Naturals, FiniteSets

CONSTANTS
    Requests,   \* registration requests, each sent once
    Servers,    \* server processes, each with an engine and a pool of its own
    Spellings,  \* what a client may type as an email or a username
    Lower,      \* Lower[x]: x in lower case
    Bodies,     \* the payloads clients send
    ValidBodies,\* those of them UserCreate accepts
    PoolLimit   \* connections one server may hold: pool_size + max_overflow

Fields == {"email", "username"}

ASSUME ConstantsAssumption ==
    /\ Lower \in [Spellings -> Spellings]
    /\ \A x \in Spellings : Lower[Lower[x]] = Lower[x]
    /\ Bodies \subseteq [Fields -> Spellings]
    /\ ValidBodies \subseteq Bodies
    /\ PoolLimit \in Nat \ {0}
    /\ IsFiniteSet(Requests)

VARIABLES
    home,       \* home[r]: the server that request r was routed to
    body,       \* body[r]: the payload of r
    pc,         \* pc[r]: how far r has got
    checkedOut, \* the requests that hold a pooled connection
    entries,    \* entries[r]: unique-index entries of r's open transaction
    committed,  \* the requests whose row is committed
    raised,     \* raised[r]: the exception on its way to the handlers
    answer,     \* answer[r]: the response sent for r
    heard       \* the requests whose response found its client still there

vars == <<home, body, pc, checkedOut, entries, committed, raised, answer, heard>>

Errors   == {"invalid", "email", "username", "email or username", "error"}
Answers  == {"none", "created"} \cup Errors
Finished == {"done", "lost"}
InFlight == {"opened", "inserting", "flushed", "answered", "failing", "closing"}
PCs      == {"new"} \cup InFlight \cup Finished

-------------------------------------------------------------------------------
(* The users table.  Its two unique indexes are checked in the order in    *)
(* which they were created.                                                *)

IndexOf == [f \in Fields |-> IF f = "email" THEN "ix_users_email_lower"
                                            ELSE "ix_users_username_lower"]

(* MUTANT: the two constraint names are swapped. *)
ConstraintToFieldSwapped ==
    [c \in {"ix_users_email_lower", "ix_users_username_lower"} |->
        IF c = "ix_users_email_lower" THEN "username" ELSE "email"]

(* MUTANT: the constraint name itself is reported. *)
ConstraintToFieldUnmapped ==
    [c \in {"ix_users_email_lower", "ix_users_username_lower"} |-> c]

ConstraintToField ==
    [c \in {"ix_users_email_lower", "ix_users_username_lower"} |->
        IF c = "ix_users_email_lower" THEN "email" ELSE "username"]

(* psycopg names the violated constraint; any other integrity error gets   *)
(* the generic wording.                                                    *)
IdentifyDuplicateField(constraint) ==
    IF constraint \in DOMAIN ConstraintToField
    THEN ConstraintToField[constraint]
    ELSE "email or username"

(* The row register_user builds from a payload the schema has normalised. *)
Row(r) == [f \in Fields |-> Lower[body[r][f]]]

(* MUTANT: the index and the schema keep the case the client typed. *)
KeyAsTyped(r, f) == body[r][f]

(* The key under which r's row is in the index of field f. *)
Key(r, f) == Lower[Row(r)[f]]

(* MUTANT: an uncommitted row already counts. *)
TakenDirty(r, f) ==
    \E q \in Requests \ {r} :
        (q \in committed \/ f \in entries[q]) /\ Key(q, f) = Key(r, f)

(* A committed row has r's value of field f. *)
Taken(r, f) == \E q \in committed : Key(q, f) = Key(r, f)

(* MUTANT: nothing waits for an uncommitted row. *)
HeldByNobody(r, f) == FALSE

(* An open transaction has it: PostgreSQL makes the INSERT wait. *)
Held(r, f) ==
    \E q \in Requests \ {r} : f \in entries[q] /\ Key(q, f) = Key(r, f)

(* MUTANT: the entries go in in any order. *)
NextFieldAny(r) == Fields \ entries[r]

(* The index the INSERT of r reaches next. *)
NextField(r) ==
    {f \in Fields \ entries[r] : f = "username" => "email" \in entries[r]}

-------------------------------------------------------------------------------
(* The pool of a server. *)

InUse(s) == {q \in checkedOut : home[q] = s}

(* MUTANT: one connection too many. *)
PoolHasRoomOffByOne(s) == Cardinality(InUse(s)) <= PoolLimit

PoolHasRoom(s) == Cardinality(InUse(s)) < PoolLimit

-------------------------------------------------------------------------------
Init ==
    /\ home \in [Requests -> Servers]
    /\ body \in [Requests -> Bodies]
    /\ pc = [r \in Requests |-> "new"]
    /\ checkedOut = {}
    /\ entries = [r \in Requests |-> {}]
    /\ committed = {}
    /\ raised = [r \in Requests |-> "none"]
    /\ answer = [r \in Requests |-> "none"]
    /\ heard = {}

Goto(r, from, to) == pc[r] = from /\ pc' = [pc EXCEPT ![r] = to]

(* An exception leaves the endpoint; get_db's except branch is next. *)
Raise(r, e) ==
    /\ pc' = [pc EXCEPT ![r] = "failing"]
    /\ raised' = [raised EXCEPT ![r] = e]

(* A response goes out.  To a client that has gone away the server sends   *)
(* it all the same, without an error: nobody gets it, and the code after   *)
(* the send runs as if somebody had.                                       *)
Send(r, response) ==
    /\ answer' = [answer EXCEPT ![r] = response]
    /\ heard' \in {heard, heard \cup {r}}

(* get_db opens a session.  No connection is taken yet. *)
Arrive(r) ==
    /\ Goto(r, "new", "opened")
    /\ UNCHANGED <<home, body, checkedOut, entries, committed, raised, answer, heard>>

(* UserCreate refuses the payload, after get_db has opened the session. *)
RejectBody(r) ==
    /\ pc[r] = "opened"
    /\ body[r] \notin ValidBodies
    /\ Raise(r, "invalid")
    /\ UNCHANGED <<home, body, checkedOut, entries, committed, answer, heard>>

(* The password is hashed; the flush takes a connection and a SAVEPOINT. *)
Checkout(r) ==
    /\ Goto(r, "opened", "inserting")
    /\ body[r] \in ValidBodies
    /\ PoolHasRoom(home[r])
    /\ checkedOut' = checkedOut \cup {r}
    /\ UNCHANGED <<home, body, entries, committed, raised, answer, heard>>

(* The pool stayed empty for pool_timeout: not an IntegrityError. *)
PoolTimeout(r) ==
    /\ pc[r] = "opened"
    /\ body[r] \in ValidBodies
    /\ ~PoolHasRoom(home[r])
    /\ Raise(r, "error")
    /\ UNCHANGED <<home, body, checkedOut, entries, committed, answer, heard>>

(* The INSERT adds its entry to the next unique index. *)
InsertEntry(r, f) ==
    /\ pc[r] = "inserting"
    /\ f \in NextField(r)
    /\ ~Taken(r, f)
    /\ ~Held(r, f)
    /\ entries' = [entries EXCEPT ![r] = @ \cup {f}]
    /\ pc' = [pc EXCEPT ![r] = IF entries'[r] = Fields THEN "flushed" ELSE @]
    /\ UNCHANGED <<home, body, checkedOut, committed, raised, answer, heard>>

(* The INSERT meets a committed row: the SAVEPOINT is rolled back and the  *)
(* IntegrityError becomes a ConflictException.                             *)
Conflict(r, f) ==
    /\ pc[r] = "inserting"
    /\ f \in NextField(r)
    /\ Taken(r, f)
    /\ entries' = [entries EXCEPT ![r] = {}]
    /\ Raise(r, IdentifyDuplicateField(IndexOf[f]))
    /\ UNCHANGED <<home, body, checkedOut, committed, answer, heard>>

(* Hashing, a statement or the token fails: any other exception. *)
HandlerRaises(r) ==
    /\ pc[r] \in {"opened", "inserting", "flushed"}
    /\ body[r] \in ValidBodies
    /\ Raise(r, "error")
    /\ UNCHANGED <<home, body, checkedOut, entries, committed, answer, heard>>

(* The token is signed and the 201 goes out, heard or not; the transaction *)
(* is open.                                                                *)
Respond(r) ==
    /\ Goto(r, "flushed", "answered")
    /\ Send(r, "created")
    /\ UNCHANGED <<home, body, checkedOut, entries, committed, raised>>

(* The code after the yield: db.commit() makes the row visible and gives   *)
(* the connection back.                                                    *)
Commit(r) ==
    /\ Goto(r, "answered", "closing")
    /\ committed' = committed \cup {r}
    /\ entries' = [entries EXCEPT ![r] = {}]
    /\ checkedOut' = checkedOut \ {r}
    /\ UNCHANGED <<home, body, raised, answer, heard>>

(* db.commit() raises; PostgreSQL may have committed before the link broke. *)
CommitRaises(r) ==
    /\ pc[r] = "answered"
    /\ Raise(r, "error")
    /\ \/ /\ committed' = committed \cup {r}
          /\ entries' = [entries EXCEPT ![r] = {}]
       \/ UNCHANGED <<committed, entries>>
    /\ UNCHANGED <<home, body, checkedOut, answer, heard>>

(* MUTANT: the except branch commits what has been flushed. *)
RollbackCommits(r) ==
    /\ Goto(r, "failing", "closing")
    /\ committed' = IF entries[r] = Fields THEN committed \cup {r}
                                           ELSE committed
    /\ entries' = [entries EXCEPT ![r] = {}]
    /\ checkedOut' = checkedOut \ {r}
    /\ UNCHANGED <<home, body, raised, answer, heard>>

(* get_db's except branch. *)
Rollback(r) ==
    /\ Goto(r, "failing", "closing")
    /\ entries' = [entries EXCEPT ![r] = {}]
    /\ checkedOut' = checkedOut \ {r}
    /\ UNCHANGED <<home, body, committed, raised, answer, heard>>

(* db.rollback() raises on a broken link: its exception replaces the first *)
(* one, and PostgreSQL keeps the transaction until it notices.             *)
RollbackRaises(r) ==
    /\ Goto(r, "failing", "closing")
    /\ r \in checkedOut
    /\ raised' = [raised EXCEPT ![r] = "error"]
    /\ UNCHANGED <<home, body, checkedOut, entries, committed, answer, heard>>

(* The handler of the exception in flight, which has nothing left to       *)
(* answer once the 201 is out.                                             *)
SendError(r) ==
    /\ raised' = [raised EXCEPT ![r] = "none"]
    /\ IF raised[r] # "none" /\ answer[r] = "none"
       THEN Send(r, raised[r])
       ELSE UNCHANGED <<answer, heard>>

(* MUTANT: the connection of a failed rollback is never returned. *)
CloseLeaks(r) ==
    /\ Goto(r, "closing", "done")
    /\ SendError(r)
    /\ UNCHANGED <<home, body, checkedOut, entries, committed>>

(* MUTANT: an error is answered although a response has been sent. *)
CloseAnswersAgain(r) ==
    /\ Goto(r, "closing", "done")
    /\ checkedOut' = checkedOut \ {r}
    /\ IF raised[r] # "none" THEN Send(r, raised[r])
                             ELSE UNCHANGED <<answer, heard>>
    /\ UNCHANGED <<home, body, entries, committed, raised>>

(* get_db's finally branch; an exception in flight then reaches its handler. *)
Close(r) ==
    /\ Goto(r, "closing", "done")
    /\ checkedOut' = checkedOut \ {r}
    /\ SendError(r)
    /\ UNCHANGED <<home, body, entries, committed>>

(* PostgreSQL notices that the client of an open transaction is gone. *)
Reap(r) ==
    /\ pc[r] \in {"closing"} \cup Finished
    /\ entries[r] # {}
    /\ entries' = [entries EXCEPT ![r] = {}]
    /\ UNCHANGED <<home, body, pc, checkedOut, committed, raised, answer, heard>>

(* A server process dies with everything it holds; it comes back empty. *)
Crash(s) ==
    /\ \E r \in Requests : home[r] = s /\ pc[r] \in InFlight
    /\ LET dies(r) == home[r] = s /\ pc[r] \in InFlight
       IN  /\ pc' = [r \in Requests |-> IF dies(r) THEN "lost" ELSE pc[r]]
           /\ raised' = [r \in Requests |->
                            IF dies(r) THEN "none" ELSE raised[r]]
    /\ checkedOut' = checkedOut \ InUse(s)
    /\ UNCHANGED <<home, body, entries, committed, answer, heard>>

Terminating ==
    /\ \A r \in Requests : pc[r] \in Finished /\ entries[r] = {}
    /\ UNCHANGED vars

(* What a request does when nothing goes wrong around it. *)
Progress(r) ==
    \/ RejectBody(r) \/ Checkout(r) \/ PoolTimeout(r)
    \/ \E f \in Fields : InsertEntry(r, f) \/ Conflict(r, f)
    \/ Respond(r) \/ Commit(r) \/ Rollback(r) \/ Close(r)

Next ==
    \/ \E r \in Requests :
        \/ Arrive(r)
        \/ Progress(r)
        \/ HandlerRaises(r)
        \/ CommitRaises(r)
        \/ RollbackRaises(r)
        \/ Reap(r)
    \/ \E s \in Servers : Crash(s)
    \/ Terminating

Spec == Init /\ [][Next]_vars

(* Threads of a request keep running and PostgreSQL notices dead clients;  *)
(* nothing makes requests arrive, fail or servers crash.                   *)
Fairness == \A r \in Requests : WF_vars(Progress(r)) /\ WF_vars(Reap(r))

FairSpec == Spec /\ Fairness

-------------------------------------------------------------------------------
(* Properties *)

TypeOK ==
    /\ home \in [Requests -> Servers]
    /\ body \in [Requests -> Bodies]
    /\ pc \in [Requests -> PCs]
    /\ checkedOut \subseteq Requests
    /\ entries \in [Requests -> SUBSET Fields]
    /\ committed \subseteq Requests
    /\ raised \in [Requests -> {"none"} \cup Errors]
    /\ answer \in [Requests -> Answers]
    /\ heard \subseteq {r \in Requests : answer[r] # "none"}

(* No two committed users share an email or a username, whatever the case  *)
(* they were typed in and however their registrations overlapped (the      *)
(* unique LOWER() indexes, app/models/user.py).                            *)
UniqueIdentity ==
    \A r, q \in committed : r # q =>
        \A f \in Fields : Lower[body[r][f]] # Lower[body[q][f]]

(* A 409 names a field in which another user's committed row really has    *)
(* the value: nobody is refused because of a registration that was later   *)
(* rolled back (register_user's except IntegrityError).                    *)
ConflictJustified ==
    \A r \in Requests : \A f \in Fields : answer[r] = f =>
        \E q \in committed \ {r} : Lower[body[q][f]] = Lower[body[r][f]]

(* A request that was refused or met an error left no row behind, and one  *)
(* for which nothing was sent left none either: only a 201 stores a user.  *)
(* A client that heard nothing may have a row all the same, but only if a  *)
(* 201 was on its way to it (get_db commits after the send, whether or not *)
(* anybody was there).                                                     *)
ErrorStoresNothing == \A r \in committed : answer[r] = "created"

(* A request gets one response, sent once and heard then or never, and a   *)
(* committed row stays: an exception of the code after get_db's yield      *)
(* finds the response gone.                                                *)
AnswerIsFinal ==
    [][/\ \A r \in Requests : answer[r] # "none" =>
             /\ answer'[r] = answer[r]
             /\ r \in heard' <=> r \in heard
       /\ committed \subseteq committed']_vars

(* The pool of a server is never overdrawn, and a request that has ended   *)
(* holds no connection of it, on any error path of get_db.                 *)
PoolRespected ==
    /\ \A s \in Servers : Cardinality(InUse(s)) <= PoolLimit
    /\ \A r \in checkedOut : pc[r] \in InFlight

(* Every request that reached a server ends there or is lost in a crash:   *)
(* requests that wait for each other's index entries or connections do not *)
(* wait for ever.                                                          *)
EveryRequestEnds ==
    \A r \in Requests : pc[r] = "opened" ~> pc[r] \in Finished

(* An identity claimed by a registration is stored or free again in the    *)
(* end, and its connection is back in the pool, also after a crash or a    *)
(* failed rollback.                                                        *)
NothingStaysHeld ==
    \A r \in Requests :
        (entries[r] # {} \/ r \in checkedOut) ~>
            (entries[r] = {} /\ r \notin checkedOut)

(* Not true of the code: the account of a client that got a 201 is stored  *)
(* once the request has ended.  The commit runs after the response.        *)
CreatedIsPersisted ==
    \A r \in Requests :
        (r \in heard /\ answer[r] = "created" /\ pc[r] = "done") =>
            r \in committed

(* A 201 has been sent and its transaction is still open. *)
Promises == {r \in Requests : answer[r] = "created" /\ entries[r] # {}}

Directory == INSTANCE UserDirectory WITH
    identity <- [r \in Requests |-> [f \in Fields |-> Key(r, f)]],
    rows <- committed, open <- Promises,
    told <- [r \in Requests |-> IF r \in heard THEN answer[r] ELSE "none"],
    Values <- Spellings, Failures <- Errors \ Fields

(* What clients see is the directory of module UserDirectory: promises,    *)
(* heard or not, are exclusive, kept or broken, and refusals are grounded  *)
(* in stored rows, a client's own row of an unheard 201 included.          *)
ImplementsDirectory == Directory!Spec
===============================================================================
