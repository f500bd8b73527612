----------------------------- MODULE UserSchemas -----------------------------
(***************************************************************************)
(* app/schemas/user.py: what UserCreate and UserUpdate make of a payload.  *)
(*                                                                         *)
(* A string is a sequence of characters, one of each kind that the         *)
(* validators, Python's lower() and strip() and PostgreSQL's LOWER() treat *)
(* differently: among them the Kelvin sign, which folds to an ASCII        *)
(* letter, the dotted I, which Python folds to a letter and a combining    *)
(* mark (one character here, since no rule parts or accepts them) and      *)
(* PostgreSQL, depending on the locale, to the letter alone or not at all, *)
(* a digit that is not ASCII, an accented letter in its two encodings, and *)
(* a fullwidth letter.                                                     *)
(*                                                                         *)
(* External: EmailStr of pydantic 2, which drops a display name, accepts   *)
(* (among others it may refuse) addresses with one @ inside, and returns   *)
(* what email-validator makes of them: the local part in NFC, the domain   *)
(* mapped by UTS 46.                                                       *)
(***************************************************************************)
EXTENDS Naturals, Sequences, SequencesExt

CONSTANTS
    MinLength, MaxLength,                  \* of a username: 3 and 30
    PasswordMinLength, PasswordMaxLength,
    Reserved,                              \* RESERVED_USERNAMES
    None,    \* no value, or one that is not a string
    Rejected

Blank == " "
Lowers == {"i", "k"}
Digits == {"1"}
LowerOf == [c \in {"I", "K", "KELVIN", "DOTTED I"} |->
               CASE c = "I" -> "i"
                 [] c = "DOTTED I" -> "dotted i"
                 [] OTHER -> "k"]
UnicodeDigits == Digits \union {"arabic one"}
Capitals == {"I", "K"}
Symbols == {"_", "@", "<", ">", "dotted i", "arabic one", Blank}
Encoded == {"composed", "decomposed", "wide k"}
Characters == Lowers \union Digits \union Symbols \union Encoded \union DOMAIN LowerOf

-------------------------------------------------------------------------------
(* Python: str.lower(), str.strip() *)
Lower(s) == [i \in DOMAIN s |-> IF s[i] \in DOMAIN LowerOf THEN LowerOf[s[i]] ELSE s[i]]

Strip(s) ==
    LET ink(c) == c # Blank
        first == SelectInSeq(s, ink)
    IN IF first = 0 THEN <<>> ELSE SubSeq(s, first, SelectLastInSeq(s, ink))

(* PostgreSQL: LOWER(), of ASCII alone, letter by letter, or in full. *)
LowerInDatabase(s, locale) ==
    LET byLetter(c) == CASE c \in {"I", "DOTTED I"} -> "i"
                         [] c \in {"K", "KELVIN"}   -> "k"
                         [] OTHER -> c
    IN CASE locale = "ICU"  -> Lower(s)
         [] locale = "libc" -> [i \in DOMAIN s |-> byLetter(s[i])]
         [] locale = "C"    -> [i \in DOMAIN s |-> IF s[i] \in Capitals
                                                  THEN byLetter(s[i]) ELSE s[i]]

Locales == {"C", "libc", "ICU"}

-------------------------------------------------------------------------------
(* EmailStr: name <address>, where the name may be missing. *)
NameCharacters ==
    Lowers \union UnicodeDigits \union {"_", "composed", "wide k", Blank}

Opens(s, i) ==
    /\ s[i] = "<" /\ s[Len(s)] = ">" /\ i + 1 < Len(s)
    /\ \A j \in 1 .. i - 1 : s[j] \in NameCharacters

Address(s) ==
    IF \E i \in DOMAIN s : Opens(s, i)
    THEN Strip(SubSeq(s, (CHOOSE i \in DOMAIN s : Opens(s, i)) + 1, Len(s) - 1))
    ELSE s

IsEmail(s) ==
    /\ \E i \in 2 .. Len(s) - 1 : s[i] = "@"
    /\ \A i, j \in DOMAIN s : s[i] = "@" /\ s[j] = "@" => i = j
    /\ Range(s) \intersect {Blank, "<", ">"} = {}

Nfc(c)   == IF c = "decomposed" THEN "composed" ELSE c
Uts46(c) == IF c = "wide k" THEN "k" ELSE Nfc(c)

Normalized(s) ==
    LET at == CHOOSE i \in DOMAIN s : s[i] = "@"
    IN [i \in DOMAIN s |-> IF i < at THEN Nfc(s[i]) ELSE Uts46(s[i])]

EmailStr(s) == IF IsEmail(Address(s)) THEN Normalized(Address(s)) ELSE Rejected

(* MUTANT: the email keeps its capitals. *)
NormalizeEmailKeepsCase(value) == Strip(value)

NormalizeEmail(value) == Strip(Lower(value))

Email(value) == IF value = None THEN Rejected ELSE EmailStr(NormalizeEmail(value))

(* USERNAME_PATTERN; the line break before which its $ matches as well has *)
(* been stripped.                                                          *)
Matches(s) ==
    /\ s # <<>>
    /\ s[1] \in Lowers
    /\ Range(s) \subseteq Lowers \union Digits \union {"_"}

(* MUTANT: reserved names are looked up as they were typed. *)
ValidateUsernameRaw(value) ==
    LET normalized == Strip(Lower(value))
    IN IF value = None \/ ~Matches(normalized) \/ value \in Reserved THEN Rejected
       ELSE normalized

ValidateUsername(value) ==
    LET normalized == Strip(Lower(value))
    IN IF value = None \/ ~Matches(normalized) \/ normalized \in Reserved THEN Rejected
       ELSE normalized

(* Field(min_length, max_length) comes after the validators of mode before. *)
Username(value) ==
    LET normalized == ValidateUsername(value)
    IN IF normalized # Rejected /\ Len(normalized) \in MinLength .. MaxLength
       THEN normalized ELSE Rejected

ValidatePassword(value) ==
    /\ Len(value) \in PasswordMinLength .. PasswordMaxLength
    /\ Range(value) \intersect Capitals # {}
    /\ Range(value) \intersect Lowers # {}
    /\ Range(value) \intersect UnicodeDigits # {}

UserCreate(payload) ==
    LET user == [email |-> Email(payload.email), username |-> Username(payload.username)]
    IN IF \/ Rejected \in {user.email, user.username}
          \/ ~ValidatePassword(payload.password)
          \/ payload.password # payload.password_confirm
       THEN Rejected ELSE user

UserUpdate(payload) ==
    LET user == [email |-> IF payload.email = None THEN None ELSE Email(payload.email),
                 username |-> IF payload.username = None THEN None
                              ELSE Username(payload.username)]
    IN IF Rejected \in {user.email, user.username} THEN Rejected ELSE user

(* What is stored is in a form that both schemas and the unique indexes on *)
(* LOWER(email) and LOWER(username), in whatever locale, leave as it is,   *)
(* so that lookups by lower() find it; and a name that the database would  *)
(* take for a reserved one was not accepted.                               *)
StoredFormIsCanonical(payload) ==
    LET stored == UserCreate(payload)
    IN stored # Rejected =>
           /\ UserUpdate(stored) = stored
           /\ UserUpdate([stored EXCEPT !.email = None]).username = stored.username
           /\ \A locale \in Locales :
                 /\ LowerInDatabase(stored.email, locale) = stored.email
                 /\ LowerInDatabase(stored.username, locale) = stored.username
                 /\ LowerInDatabase(Strip(payload.username), locale) \notin Reserved
===============================================================================
