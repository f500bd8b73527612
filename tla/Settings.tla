------------------------------- MODULE Settings -------------------------------
(***************************************************************************)
(* app/core/config.py: Settings(), evaluated once when the module is       *)
(* imported.  Either every field is valid or the process does not start.   *)
(*                                                                         *)
(* A text is [name, upper, padded]: the word it spells in lower case,      *)
(* whether capitals are used and whether blanks surround it.  A key is     *)
(* [stem, upper, length]: what it begins with or consists of.              *)
(*                                                                         *)
(* External: pydantic.  Fields are validated in the order they are         *)
(* declared, also their defaults; a field that failed is missing from      *)
(* info.data; any failure refuses the whole.  The environment takes        *)
(* precedence over the .env file.                                          *)
(***************************************************************************)
EXTENDS Integers

CONSTANTS
    Absent,  \* a variable that is not set
    Refused  \* Settings() raised, or a field is invalid

Environments == {"development", "staging", "production"}
Guarded == {"production", "staging"}
LogLevels == {"debug", "info", "warning", "error", "critical"}
LogFormats == {"json", "text"}

DefaultKey == [stem |-> "placeholder", upper |-> FALSE, length |-> 40]

(* The numbers: their bounds, the upper one perhaps absent, and defaults. *)
Limits(low, high, default) == [low |-> low, high |-> high, default |-> default]
Numbers ==
    [ACCESS_TOKEN_EXPIRE_MINUTES |-> Limits(1, 60, 30),
     ARGON2_MEMORY_COST |-> Limits(7168, Absent, 19456),
     ARGON2_TIME_COST |-> Limits(1, Absent, 2),
     ARGON2_PARALLELISM |-> Limits(1, Absent, 1),
     AI__MAX_TOKENS |-> Limits(1, 128000, 2048),
     AI__MAX_RETRIES |-> Limits(0, Absent, 3),
     VECTOR_DIMENSIONS |-> Limits(1, Absent, 1536),
     RAG_TOP_K_RECORDS |-> Limits(1, 100, 5)]

-------------------------------------------------------------------------------
(* The value of a variable: from the environment, else from .env. *)
Given(environ, dotenv, field) ==
    IF environ[field] # Absent THEN environ[field] ELSE dotenv[field]

(* MUTANT: a word that is not recognised counts as the default. *)
WordOrDefault(text, words, default) ==
    IF text # Absent /\ text.name \in words /\ ~text.padded THEN text.name ELSE default

(* One word of a set, in any case but without blanks. *)
Word(text, words, default) ==
    IF text = Absent THEN default
    ELSE IF text.name \in words /\ ~text.padded THEN text.name
    ELSE Refused

AppEnv(text) == Word(text, Environments, "development")
LogLevel(text) == Word(text, LogLevels, "info")
LogFormat(text) == Word(text, LogFormats, "text")

Number(field, value) ==
    LET limits == Numbers[field]
        n == IF value = Absent THEN limits.default ELSE value
    IN IF n >= limits.low /\ (limits.high = Absent \/ n <= limits.high)
       THEN n ELSE Refused

Placeholder(key) == key.stem \in {"placeholder", "listed_placeholder"}
Repeating(key) == key.stem = "repeated"
Listed(key) == key.stem \in {"listed", "listed_placeholder"}

(* info.data.get("app_env", Environment.DEVELOPMENT) *)
KnownEnv(appEnv) == IF appEnv = Refused THEN "development" ELSE appEnv

ValidateSecretKey(key, appEnv) ==
    IF \/ KnownEnv(appEnv) \in Guarded /\ Placeholder(key)
       \/ key.length < 32
       \/ Repeating(key)
       \/ Listed(key)
    THEN Refused ELSE key

(* MUTANT: the default is not validated. *)
SecretKeyDefaultUnchecked(given, appEnv) ==
    IF given = Absent THEN DefaultKey ELSE ValidateSecretKey(given, appEnv)

SecretKey(given, appEnv) ==
    ValidateSecretKey(IF given = Absent THEN DefaultKey ELSE given, appEnv)

Load(environ, dotenv) ==
    LET given(field) == Given(environ, dotenv, field)
        appEnv == AppEnv(given("APP_ENV"))
        fields ==
            [app_env |-> appEnv,
             secret_key |-> SecretKey(given("SECRET_KEY"), appEnv),
             log_level |-> LogLevel(given("LOG_LEVEL")),
             log_format |-> LogFormat(given("LOG_FORMAT")),
             numbers |-> [f \in DOMAIN Numbers |-> Number(f, given(f))]]
    IN IF \/ Refused \in {fields.app_env, fields.secret_key,
                          fields.log_level, fields.log_format}
          \/ \E f \in DOMAIN Numbers : fields.numbers[f] = Refused
       THEN Refused ELSE fields

(* A process that starts runs in the environment it was told, in any       *)
(* spelling and by either source, and signs with the key it was given; in  *)
(* production and staging it was given one, of 32 characters or more, that *)
(* is no placeholder, no listed key and not one character repeated: never  *)
(* the default, nor by a word it failed to recognise (_missing_,           *)
(* validate_secret_key).  A pattern that can be guessed is accepted.       *)
SecureWhenGuarded(environ, dotenv) ==
    LET settings == Load(environ, dotenv)
        told == Given(environ, dotenv, "APP_ENV")
        given == Given(environ, dotenv, "SECRET_KEY")
    IN settings # Refused =>
           /\ told # Absent => settings.app_env = told.name
           /\ given # Absent => settings.secret_key = given
           /\ settings.app_env \in Guarded =>
                 /\ given # Absent
                 /\ given.stem \in {"pattern", "random"}
                 /\ given.length >= 32

===============================================================================
