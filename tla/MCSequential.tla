---------------------------- MODULE MCSequential ----------------------------
(***************************************************************************)
(* What runs by itself: the migrations, and a process that takes one       *)
(* input, which TLC chooses from those at each side of every rule.  None   *)
(* of these meets another, so that each behaviour is of one of them.       *)
(***************************************************************************)
EXTENDS Validation, Migrations

MCReserved == {<<"k", "i">>}

-------------------------------------------------------------------------------
(* Settings: the environment and the key in either source, or one other    *)
(* field at each edge of its range.                                        *)
Texts(names) == [name : names, upper : BOOLEAN, padded : BOOLEAN]
MCKeys == [stem : {"placeholder", "random"}, upper : BOOLEAN, length : {0, 31, 32}]
          \union [stem : {"repeated", "listed", "pattern"}, upper : BOOLEAN, length : {32}]
          \union [stem : {"listed_placeholder"}, upper : BOOLEAN, length : {35}]

Unset == [f \in {"APP_ENV", "SECRET_KEY", "LOG_LEVEL", "LOG_FORMAT"}
                  \union DOMAIN Config!Numbers |-> Absent]
Edges(f) == LET n == Config!Numbers[f]
            IN {n.low - 1, n.low} \union
               IF n.high = Absent THEN {n.low + 1} ELSE {n.high, n.high + 1}

MCEnvirons ==
    {[Unset EXCEPT !.APP_ENV = e, !.SECRET_KEY = k] :
        e \in Texts(Config!Environments \union {"unknown"}) \union {Absent},
        k \in MCKeys \union {Absent}}
    \union UNION {{[Unset EXCEPT !.APP_ENV = e, ![f] = n] : n \in Edges(f),
                      e \in Texts({"development"}) \union {Absent}} :
                    f \in DOMAIN Config!Numbers}
    \union {[Unset EXCEPT !.LOG_LEVEL = l, !.LOG_FORMAT = f] :
               l \in Texts({"warning", "unknown"}) \union {Absent},
               f \in Texts({"json", "unknown"}) \union {Absent}}
MCDotenvs ==
    {Unset} \union
    {[Unset EXCEPT !.APP_ENV = [name |-> e, upper |-> FALSE, padded |-> FALSE],
                   !.SECRET_KEY = [stem |-> k, upper |-> FALSE, length |-> 40]] :
        e \in Config!Environments, k \in {"placeholder", "random"}}

(* UserSchemas: the email, bare or with a display name, the username or    *)
(* the password varies, over the characters each one's rules tell apart.   *)
Payload == [email |-> <<"i", "@", "k">>, username |-> <<"k", "_", "1">>,
            password |-> <<"I", "k", "1">>, password_confirm |-> <<"I", "k", "1">>]
Usernames(n) == [1 .. n -> Users!Characters \ (Users!Encoded \union {"<", ">"})]
Addresses(n) == [1 .. n -> Users!Encoded \union
                   {"i", "k", "K", "KELVIN", "DOTTED I", "@", "<", ">", Users!Blank}]
Emails(n) == Addresses(n) \union {<<"i", "<">> \o s \o <<">">> : s \in Addresses(n)}
Passwords == UNION {[1 .. n -> {"I", "k", "1", "arabic one", "_"}] :
                       n \in 0 .. PasswordMaxLength + 1}

MCForms ==
    UNION {{[email : Emails(n), username : {Payload.username},
             password : {Payload.password}, password_confirm : {Payload.password}],
            [email : {Payload.email}, username : Usernames(n),
             password : {Payload.password}, password_confirm : {Payload.password}]} :
              n \in 0 .. MaxLength + 1}
    \union {{[Payload EXCEPT !.email = None], [Payload EXCEPT !.username = None]}}
    \union {{[Payload EXCEPT !.password = p, !.password_confirm = p] : p \in Passwords},
            {[Payload EXCEPT !.password_confirm = p] : p \in Passwords}}

MCRouteSets == {routes \union {OpenApi!Register} : routes \in SUBSET OpenApi!Routes}

-------------------------------------------------------------------------------
MCInit == InputInit /\ Init

MCNext ==
    \/ commands = 0 /\ database.objects = {} /\ InputNext /\ UNCHANGED vars
    \/ input = None /\ Next /\ UNCHANGED input

MCSpec == MCInit /\ [][MCNext]_<<input, vars>>
===============================================================================
