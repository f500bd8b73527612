------------------------------ MODULE Migrations ------------------------------
(***************************************************************************)
(* The two revisions under migrations/versions, and env.py, which runs all *)
(* the revisions of an alembic command, up or down, in one transaction.    *)
(*                                                                         *)
(* A statement is [op, object, tolerant]: it creates or drops an object;   *)
(* it fails when an object it needs is missing, when another one needs     *)
(* what it drops, and, unless it is tolerant, when the object is there     *)
(* already or not there at all.                                            *)
(*                                                                         *)
(* External: Alembic walks the revisions from the one in alembic_version   *)
(* to the one it is asked for and writes alembic_version after each;       *)
(* PostgreSQL rolls back DDL, and drops a table's indexes and triggers     *)
(* with the table.                                                         *)
(***************************************************************************)
EXTENDS Naturals, Sequences

CONSTANT MaxCommands
ASSUME MigrationsAssumption == MaxCommands \in Nat

VARIABLES
    database, \* what is committed: the objects there are, and alembic_version
    session,  \* the same as the transaction of the command under way sees it
    phase,    \* whether a command is under way
    target,   \* the version it was asked for
    next,     \* its next statement within the revision
    commands  \* how many commands there have been
vars == <<database, session, phase, target, next, commands>>

Needs == [vector |-> {}, users |-> {},
          ix_users_email_lower |-> {"users"},
          ix_users_username_lower |-> {"users"},
          update_updated_at_column |-> {},
          set_updated_at |-> {"users", "update_updated_at_column"}]
Objects == DOMAIN Needs
OfTable == {"ix_users_email_lower", "ix_users_username_lower", "set_updated_at"}

Create(object) == [op |-> "create", object |-> object, tolerant |-> FALSE]
Ensure(object) == [op |-> "create", object |-> object, tolerant |-> TRUE]
Drop(object) == [op |-> "drop", object |-> object, tolerant |-> FALSE]
DropIfExists(object) == [op |-> "drop", object |-> object, tolerant |-> TRUE]

Upgrade ==
    << <<Ensure("vector")>>,
       <<Create("users"), Create("ix_users_email_lower"),
         Create("ix_users_username_lower"), Ensure("update_updated_at_column"),
         Create("set_updated_at")>> >>

(* MUTANT: the function is dropped before the trigger that calls it. *)
DowngradeFunctionFirst ==
    << <<DropIfExists("vector")>>,
       <<DropIfExists("update_updated_at_column"), DropIfExists("set_updated_at"),
         Drop("ix_users_username_lower"), Drop("ix_users_email_lower"),
         Drop("users")>> >>

Downgrade ==
    << <<DropIfExists("vector")>>,
       <<DropIfExists("set_updated_at"), DropIfExists("update_updated_at_column"),
         Drop("ix_users_username_lower"), Drop("ix_users_email_lower"),
         Drop("users")>> >>

Base == 0
Newest == Len(Upgrade)

-------------------------------------------------------------------------------
(* One statement on the objects there are. *)
Fails(objects, statement) ==
    LET o == statement.object
    IN IF statement.op = "create"
       THEN \/ o \in objects /\ ~statement.tolerant
            \/ ~(Needs[o] \subseteq objects)
       ELSE \/ o \notin objects /\ ~statement.tolerant
            \/ \E d \in objects : o \in Needs[d] /\ ~(o = "users" /\ d \in OfTable)

After(objects, statement) ==
    IF statement.op = "create" THEN objects \union {statement.object}
    ELSE objects \ ({statement.object} \union
                       (IF statement.object = "users" THEN OfTable ELSE {}))

-------------------------------------------------------------------------------
(* The database is new, apart from an extension somebody else installed. *)
Init ==
    /\ \E installed \in {{}, {"vector"}} :
          database = [objects |-> installed, version |-> Base]
    /\ session = database
    /\ phase = "idle"
    /\ target = Base
    /\ next = 1
    /\ commands = 0

(* alembic upgrade or downgrade; begin_transaction(). *)
Begin(version) ==
    /\ phase = "idle"
    /\ commands < MaxCommands
    /\ phase' = "running"
    /\ target' = version
    /\ next' = 1
    /\ commands' = commands + 1
    /\ UNCHANGED <<database, session>>

(* The revision that run_migrations() is at: its upgrade() or downgrade(). *)
Up == session.version < target
Revision == IF Up THEN Upgrade[session.version + 1] ELSE Downgrade[session.version]
AtWork == phase = "running" /\ session.version # target

(* The next statement; after the last one of a revision, its version. *)
Execute ==
    /\ AtWork
    /\ ~Fails(session.objects, Revision[next])
    /\ LET last == next = Len(Revision)
       IN /\ next' = IF last THEN 1 ELSE next + 1
          /\ session' = [objects |-> After(session.objects, Revision[next]),
                         version |-> IF ~last THEN session.version
                                     ELSE IF Up THEN session.version + 1
                                     ELSE session.version - 1]
    /\ UNCHANGED <<database, phase, target, commands>>

Commit ==
    /\ phase = "running"
    /\ session.version = target
    /\ database' = session
    /\ phase' = "idle"
    /\ UNCHANGED <<session, target, next, commands>>

(* MUTANT: every statement is committed by itself. *)
DieHalfway ==
    /\ phase = "running"
    /\ phase' = "idle"
    /\ database' = session
    /\ next' = 1
    /\ UNCHANGED <<session, target, commands>>

(* A command that dies, or one of whose statements fails, leaves nothing. *)
Die ==
    /\ phase = "running"
    /\ phase' = "idle"
    /\ session' = database
    /\ next' = 1
    /\ UNCHANGED <<database, target, commands>>

Terminating == phase = "idle" /\ commands = MaxCommands /\ UNCHANGED vars

Next ==
    \/ \E version \in Base .. Newest : Begin(version)
    \/ Execute
    \/ Commit
    \/ Die
    \/ Terminating

Spec == Init /\ [][Next]_vars

-------------------------------------------------------------------------------
Versions == Base .. Newest
Schemas == [objects : SUBSET Objects, version : Versions]

(* The type invariant.  Between commands there is no open transaction, and *)
(* a command that is at work is at a statement of its revision.            *)
TypeOK ==
    /\ database \in Schemas
    /\ session \in Schemas
    /\ phase \in {"idle", "running"}
    /\ target \in Versions
    /\ next \in Nat \ {0}
    /\ commands \in 0 .. MaxCommands
    /\ phase = "idle" => session = database
    /\ AtWork => next <= Len(Revision)

(* No statement of an upgrade or a downgrade fails, whatever commands were *)
(* run before and died half-way: a table does not exist already, and       *)
(* nothing that is dropped is still needed.                                *)
NoStatementFails == AtWork => ~Fails(session.objects, Revision[next])

(* What the revisions up to a version make. *)
Expected(version) ==
    UNION {{Upgrade[v][i].object : i \in DOMAIN Upgrade[v]} : v \in 1 .. version}

(* alembic_version says which objects there are, after any upgrades and    *)
(* downgrades and with crashes at any statement: those of the revisions up *)
(* to it, apart from an extension that somebody else installed.            *)
VersionTellsSchema ==
    /\ Expected(database.version) \subseteq database.objects
    /\ database.objects \subseteq Expected(database.version) \union {"vector"}
===============================================================================
