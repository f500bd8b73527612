--------------------------- MODULE ValidationProofs ---------------------------
(***************************************************************************)
(* What Settings(), UserCreate and custom_openapi promise of every input:  *)
(* keys and strings of any length, any reserved names, any set of routes.  *)
(***************************************************************************)
EXTENDS Validation, SequenceTheorems, WellFoundedInduction, TLAPS

-------------------------------------------------------------------------------
(* Settings *)

(* A word is accepted as the one it spells, or refused, but never replaced *)
(* by the default.                                                         *)
LEMMA WordIsSpelt ==
    ASSUME NEW text, NEW words, NEW default,
           text # Absent, Config!Word(text, words, default) # Refused
    PROVE  Config!Word(text, words, default) = text.name /\ text.name \in words
BY DEF Config!Word

(* Any environment leaves an accepted key as it was given; a guarded one   *)
(* accepts none of the kinds the validator knows, the default among them.  *)
LEMMA GuardedKey ==
    ASSUME NEW given \in Keys \cup {Absent}, NEW appEnv,
           appEnv # Refused, Config!SecretKey(given, appEnv) # Refused
    PROVE  /\ given # Absent => Config!SecretKey(given, appEnv) = given
           /\ appEnv \in Config!Guarded =>
                 /\ given # Absent /\ given.stem \in {"pattern", "random"}
                 /\ given.length >= 32
<1> DEFINE key == IF given = Absent THEN Config!DefaultKey ELSE given
<1>1. /\ Config!SecretKey(given, appEnv) = key
      /\ appEnv \in Config!Guarded => ~Config!Placeholder(key)
      /\ ~(key.length < 32) /\ ~Config!Repeating(key) /\ ~Config!Listed(key)
  BY DEF Config!SecretKey, Config!ValidateSecretKey, Config!KnownEnv
<1>2. Config!Placeholder(Config!DefaultKey)
  BY DEF Config!Placeholder, Config!DefaultKey
<1>3. ASSUME appEnv \in Config!Guarded
      PROVE  /\ given # Absent /\ given.stem \in {"pattern", "random"}
             /\ given.length >= 32
  <2>1. key = given /\ given # Absent /\ given \in Keys
    BY <1>1, <1>2, <1>3
  <2>2. given.stem \in Stems /\ given.length \in Nat
    BY <2>1 DEF Keys
  <2>3. given.stem \in {"pattern", "random"}
    BY <1>1, <1>3, <2>1, <2>2
       DEF Stems, Config!Placeholder, Config!Repeating, Config!Listed
  <2>4. given.length >= 32
    BY <1>1, <2>1, <2>2
  <2> QED
    BY <2>1, <2>3, <2>4
<1> QED
  BY <1>1, <1>3

(* A process that starts runs where it was told, with the key it was       *)
(* given; in production and staging with one that passed every rule.       *)
LEMMA GuardedSettings ==
    ASSUME NEW environ, NEW dotenv,
           environ["SECRET_KEY"] \in Keys \cup {Absent},
           dotenv["SECRET_KEY"] \in Keys \cup {Absent}
    PROVE  Config!SecureWhenGuarded(environ, dotenv)
<1> DEFINE settings == Config!Load(environ, dotenv)
           told == Config!Given(environ, dotenv, "APP_ENV")
           given == Config!Given(environ, dotenv, "SECRET_KEY")
<1> SUFFICES ASSUME settings # Refused
             PROVE  /\ told # Absent => settings.app_env = told.name
                    /\ given # Absent => settings.secret_key = given
                    /\ settings.app_env \in Config!Guarded =>
                          /\ given # Absent /\ given.stem \in {"pattern", "random"}
                          /\ given.length >= 32
  BY DEF Config!SecureWhenGuarded
<1>1. /\ settings.app_env = Config!AppEnv(told)
      /\ settings.secret_key = Config!SecretKey(given, Config!AppEnv(told))
      /\ Config!AppEnv(told) # Refused
      /\ Config!SecretKey(given, Config!AppEnv(told)) # Refused
  BY DEF Config!Load
<1>2. told # Absent => Config!AppEnv(told) = told.name
  BY <1>1, WordIsSpelt DEF Config!AppEnv
<1>3. given \in Keys \cup {Absent}
  BY DEF Config!Given
<1> HIDE DEF settings, told, given
<1> QED
  BY <1>1, <1>2, <1>3, GuardedKey

-------------------------------------------------------------------------------
(* UserSchemas *)

LowerOne(c) == IF c \in DOMAIN Users!LowerOf THEN Users!LowerOf[c] ELSE c

(* The characters lower() leaves as they are, and those of a username. *)
Low == Users!Characters \ DOMAIN Users!LowerOf
Plain == Users!Lowers \union Users!Digits \union {"_"}

LEMMA LowerIsLow ==
    ASSUME NEW c \in Users!Characters
    PROVE  /\ LowerOne(c) \in Low
           /\ LowerOne(c) = Users!Blank <=> c = Users!Blank
BY DEF LowerOne, Low, Users!Characters, Users!Lowers, Users!Digits, Users!Symbols,
       Users!Encoded, Users!LowerOf, Users!Blank

LEMMA LowStays == ASSUME NEW c \in Low PROVE c \in Users!Characters /\ LowerOne(c) = c
BY DEF LowerOne, Low

LEMMA PlainIsLow == Plain \subseteq Low /\ Users!Blank \notin Plain
BY DEF Plain, Low, Users!Characters, Users!Lowers, Users!Digits, Users!Symbols,
       Users!Encoded, Users!LowerOf, Users!Blank

(* One character in the database. *)
LetterOne(c) ==
    CASE c \in {"I", "DOTTED I"} -> "i"
      [] c \in {"K", "KELVIN"}   -> "k"
      [] OTHER -> c

(* Where lower() leaves a character of usernames, the database leaves the  *)
(* same, or in the C locale one that is not of usernames.                  *)
LEMMA LetterIsLower ==
    ASSUME NEW c \in Users!Characters
    PROVE  /\ LowerOne(c) \in Plain => LetterOne(c) = LowerOne(c)
           /\ c \in Users!Capitals => LetterOne(c) = LowerOne(c)
           /\ c \notin Users!Capitals /\ c \in Plain => LowerOne(c) = c
           /\ c \in Low => LetterOne(c) = c /\ c \notin Users!Capitals
BY DEF LowerOne, LetterOne, Plain, Low, Users!Characters, Users!Lowers, Users!Digits,
       Users!Symbols, Users!Encoded, Users!LowerOf, Users!Blank, Users!Capitals

LEMMA LowerSeq ==
    ASSUME NEW s \in Seq(Users!Characters)
    PROVE  /\ Users!Lower(s) \in Seq(Low) /\ Len(Users!Lower(s)) = Len(s)
           /\ \A i \in 1 .. Len(s) : Users!Lower(s)[i] = LowerOne(s[i])
<1>1. DOMAIN s = 1 .. Len(s) /\ Len(s) \in Nat
  OBVIOUS
<1>2. Users!Lower(s) = [i \in 1 .. Len(s) |-> LowerOne(s[i])]
  BY <1>1 DEF Users!Lower, LowerOne
<1>3. \A i \in 1 .. Len(s) : LowerOne(s[i]) \in Low
  BY LowerIsLow
<1> QED
  BY <1>1, <1>2, <1>3

LEMMA LowIsLower == ASSUME NEW s \in Seq(Low) PROVE Users!Lower(s) = s
<1>1. DOMAIN s = 1 .. Len(s) /\ s = [i \in 1 .. Len(s) |-> s[i]]
  OBVIOUS
<1>2. \A i \in 1 .. Len(s) : LowerOne(s[i]) = s[i]
  BY LowStays
<1>3. Users!Lower(s) = [i \in 1 .. Len(s) |-> LowerOne(s[i])]
  BY <1>1 DEF Users!Lower, LowerOne
<1> QED
  BY <1>1, <1>2, <1>3

(* Positions have a first and a last one. *)
LEMMA Least ==
    ASSUME NEW S \in SUBSET Nat, S # {}
    PROVE  \E m \in S : \A n \in S : m <= n
<1>1. PICK m \in S : \A n \in S : ~(<<n, m>> \in OpToRel(<, Nat))
  BY NatLessThanWellFounded, WFMin
<1>2. ASSUME NEW n \in S PROVE m <= n
  <2>1. n \in Nat /\ m \in Nat
    OBVIOUS
  <2>2. ~(n < m)
    <3>1. <<n, m>> \notin OpToRel(<, Nat)
      BY <1>1
    <3>2. n < m => <<n, m>> \in OpToRel(<, Nat)
      BY <2>1 DEF OpToRel
    <3> QED
      BY <3>1, <3>2
  <2> QED
    BY <2>1, <2>2
<1> QED
  BY <1>2

LEMMA Greatest ==
    ASSUME NEW k \in Nat, NEW S \in SUBSET (1 .. k), S # {}
    PROVE  \E m \in S : \A n \in S : m >= n
<1> DEFINE T == {k - n : n \in S}
<1>1. T \in SUBSET Nat /\ T # {}
  <2>1. \A n \in S : k - n \in Nat
    OBVIOUS
  <2> QED
    BY <2>1
<1>2. PICK t \in T : \A u \in T : t <= u
  BY <1>1, Least
<1>3. PICK m \in S : t = k - m
  OBVIOUS
<1>4. ASSUME NEW n \in S PROVE m >= n
  <2>1. k - m <= k - n
    BY <1>2, <1>3
  <2> QED
    BY <2>1
<1> QED
  BY <1>4


Ink(s) == {i \in 1 .. Len(s) : s[i] # Users!Blank}

LEMMA StripIs ==
    ASSUME NEW C, NEW s \in Seq(C)
    PROVE  /\ Ink(s) = {} => Users!Strip(s) = <<>>
           /\ Ink(s) # {} =>
                 \E f, l \in Ink(s) : /\ \A i \in Ink(s) : f <= i /\ i <= l
                                      /\ Users!Strip(s) = SubSeq(s, f, l)
<1>1. /\ Ink(s) = {} => Users!Strip(s) = <<>>
      /\ Ink(s) # {} => Users!Strip(s) = SubSeq(s, Users!Min(Ink(s)), Users!Max(Ink(s)))
         \/ Users!Min(Ink(s)) = 0
  BY DEF Users!Strip, Users!SelectInSeq, Users!SelectLastInSeq, Ink
<1>2. ASSUME Ink(s) # {}
      PROVE  /\ Users!Min(Ink(s)) \in Ink(s) /\ Users!Max(Ink(s)) \in Ink(s)
             /\ \A i \in Ink(s) : Users!Min(Ink(s)) <= i /\ i <= Users!Max(Ink(s))
  <2>1. Ink(s) \in SUBSET (1 .. Len(s)) /\ Len(s) \in Nat
    BY DEF Ink
  <2>2. \E m \in Ink(s) : \A n \in Ink(s) : m <= n
    BY <1>2, <2>1, Least
  <2>3. \E m \in Ink(s) : \A n \in Ink(s) : m >= n
    BY <1>2, <2>1, Greatest
  <2>4. /\ Users!Min(Ink(s)) \in Ink(s)
        /\ \A i \in Ink(s) : Users!Min(Ink(s)) <= i
    BY <2>2 DEF Users!Min
  <2>5. /\ Users!Max(Ink(s)) \in Ink(s)
        /\ \A i \in Ink(s) : Users!Max(Ink(s)) >= i
    BY <2>3 DEF Users!Max
  <2> QED
    BY <2>1, <2>4, <2>5
<1>3. Ink(s) # {} => Users!Min(Ink(s)) # 0
  BY <1>2 DEF Ink
<1> QED
  BY <1>1, <1>2, <1>3

(* Where a stripped string begins in the string. *)
LEMMA Stripped ==
    ASSUME NEW C, NEW s \in Seq(C)
    PROVE  /\ Users!Strip(s) \in Seq(C)
           /\ \/ Ink(s) = {} /\ Users!Strip(s) = <<>>
              \/ \E f, l \in Ink(s) :
                    /\ \A i \in Ink(s) : f <= i /\ i <= l
                    /\ Len(Users!Strip(s)) = l - f + 1
                    /\ \A i \in 1 .. l - f + 1 : Users!Strip(s)[i] = s[f + i - 1]
<1>1. CASE Ink(s) = {}
  <2>1. Users!Strip(s) = <<>>
    BY <1>1, StripIs
  <2> QED
    BY <1>1, <2>1
<1>2. CASE Ink(s) # {}
  <2>1. PICK f \in Ink(s), l \in Ink(s) :
          /\ \A i \in Ink(s) : f <= i /\ i <= l
          /\ Users!Strip(s) = SubSeq(s, f, l)
    BY <1>2, StripIs
  <2>2. f \in 1 .. Len(s) /\ l \in 1 .. Len(s) /\ f <= l /\ Len(s) \in Nat
    BY <2>1 DEF Ink
  <2>3. /\ SubSeq(s, f, l) \in Seq(C)
        /\ Len(SubSeq(s, f, l)) = l - f + 1
        /\ \A i \in 1 .. l - f + 1 : SubSeq(s, f, l)[i] = s[f + i - 1]
    BY <2>2, SubSeqProperties
  <2> QED
    BY <2>1, <2>3
<1> QED
  BY <1>1, <1>2

LEMMA StripNone ==
    ASSUME NEW C, NEW s \in Seq(C), \A i \in 1 .. Len(s) : s[i] # Users!Blank
    PROVE  Users!Strip(s) = s
<1>1. Ink(s) = 1 .. Len(s) /\ Len(s) \in Nat
  BY DEF Ink
<1>2. CASE Ink(s) = {}
  <2>1. Len(s) = 0
    <3>1. 1 \notin 1 .. Len(s)
      BY <1>1, <1>2
    <3> QED
      BY <1>1, <3>1
  <2>2. s = <<>>
    BY <2>1
  <2> QED
    BY <1>2, <2>2, StripIs
<1>3. CASE Ink(s) # {}
  <2>1. PICK f \in Ink(s), l \in Ink(s) :
          /\ \A i \in Ink(s) : f <= i /\ i <= l
          /\ Users!Strip(s) = SubSeq(s, f, l)
    BY <1>3, StripIs
  <2>2. 1 \in Ink(s) /\ Len(s) \in Ink(s)
    BY <1>1, <1>3
  <2>3. f = 1 /\ l = Len(s)
    <3>1. f \in 1 .. Len(s) /\ l \in 1 .. Len(s) /\ Len(s) \in Nat
      BY <1>1
    <3>2. f <= 1 /\ Len(s) <= l
      BY <2>1, <2>2
    <3> QED
      BY <3>1, <3>2
  <2>4. SubSeq(s, 1, Len(s)) = s
    BY SubSeqFull
  <2> QED
    BY <2>1, <2>3, <2>4
<1> QED
  BY <1>2, <1>3

(* Strings with blanks at the same places are stripped of the same places. *)
LEMMA StripAlike ==
    ASSUME NEW C, NEW D, NEW s \in Seq(C), NEW t \in Seq(D), Len(s) = Len(t),
           \A i \in 1 .. Len(s) : s[i] = Users!Blank <=> t[i] = Users!Blank
    PROVE  /\ Len(Users!Strip(s)) = Len(Users!Strip(t))
           /\ \A i \in 1 .. Len(Users!Strip(s)) : \E j \in 1 .. Len(s) :
                 Users!Strip(s)[i] = s[j] /\ Users!Strip(t)[i] = t[j]
<1>1. Ink(s) = Ink(t) /\ Len(s) \in Nat
  BY DEF Ink
<1>2. CASE Ink(s) = {}
  <2>1. Users!Strip(s) = <<>> /\ Users!Strip(t) = <<>>
    BY <1>1, <1>2, StripIs
  <2>2. Len(Users!Strip(s)) = 0 /\ Len(Users!Strip(t)) = 0
    BY <2>1
  <2> QED
    BY <2>2
<1>3. CASE Ink(s) # {}
  <2>1. PICK f \in Ink(s), l \in Ink(s) :
          /\ \A i \in Ink(s) : f <= i /\ i <= l
          /\ Len(Users!Strip(s)) = l - f + 1
          /\ \A i \in 1 .. l - f + 1 : Users!Strip(s)[i] = s[f + i - 1]
    BY <1>3, Stripped
  <2>2. PICK g \in Ink(s), m \in Ink(s) :
          /\ \A i \in Ink(s) : g <= i /\ i <= m
          /\ Len(Users!Strip(t)) = m - g + 1
          /\ \A i \in 1 .. m - g + 1 : Users!Strip(t)[i] = t[g + i - 1]
    BY <1>1, <1>3, Stripped
  <2>3. f \in 1 .. Len(s) /\ l \in 1 .. Len(s) /\ g \in 1 .. Len(s) /\ m \in 1 .. Len(s)
    BY DEF Ink
  <2>4. f = g /\ l = m
    BY <2>1, <2>2, <2>3
  <2>5. ASSUME NEW i \in 1 .. l - f + 1 PROVE f + i - 1 \in 1 .. Len(s)
    BY <1>1, <2>3
  <2> QED
    BY <2>1, <2>2, <2>4, <2>5
<1> QED
  BY <1>2, <1>3

NoBlank(s) == \A i \in 1 .. Len(s) : s[i] # Users!Blank

(* What the database makes of a string, character by character. *)
DatabaseOne(c, locale) ==
    IF locale = "ICU" THEN LowerOne(c)
    ELSE IF locale = "libc" \/ c \in Users!Capitals THEN LetterOne(c)
    ELSE c

LEMMA DatabaseSeq ==
    ASSUME NEW s \in Seq(Users!Characters), NEW locale \in Users!Locales
    PROVE  Users!LowerInDatabase(s, locale) =
             [i \in 1 .. Len(s) |-> DatabaseOne(s[i], locale)]
<1>1. DOMAIN s = 1 .. Len(s)
  OBVIOUS
<1>2. CASE locale = "ICU"
  BY <1>1, <1>2 DEF Users!LowerInDatabase, Users!Lower, DatabaseOne, LowerOne
<1>3. CASE locale = "libc"
  BY <1>1, <1>3 DEF Users!LowerInDatabase, DatabaseOne, LetterOne
<1>4. CASE locale = "C"
  BY <1>1, <1>4 DEF Users!LowerInDatabase, DatabaseOne, LetterOne
<1> QED
  BY <1>2, <1>3, <1>4 DEF Users!Locales

LEMMA NormalIsLow ==
    ASSUME NEW v \in Seq(Users!Characters)
    PROVE  Users!Strip(Users!Lower(v)) \in Seq(Low)
<1>1. Users!Lower(v) \in Seq(Low)
  BY LowerSeq
<1> QED
  BY <1>1, Stripped

(* A string in lower case without blanks is left as it is. *)
LEMMA Canonical ==
    ASSUME NEW x \in Seq(Low), NoBlank(x)
    PROVE  /\ Users!Strip(Users!Lower(x)) = x
           /\ \A locale \in Users!Locales : Users!LowerInDatabase(x, locale) = x
<1>1. Users!Lower(x) = x
  BY LowIsLower
<1>2. Users!Strip(x) = x
  BY StripNone DEF NoBlank
<1>3. ASSUME NEW locale \in Users!Locales
      PROVE  Users!LowerInDatabase(x, locale) = x
  <2>1. x \in Seq(Users!Characters) /\ \A i \in 1 .. Len(x) : x[i] \in Low
    BY LowStays
  <2>2. Users!LowerInDatabase(x, locale) =
          [i \in 1 .. Len(x) |-> DatabaseOne(x[i], locale)]
    BY <2>1, DatabaseSeq
  <2>3. ASSUME NEW i \in 1 .. Len(x) PROVE DatabaseOne(x[i], locale) = x[i]
    BY <2>1, LowStays, LetterIsLower DEF DatabaseOne
  <2>4. x = [i \in 1 .. Len(x) |-> x[i]]
    OBVIOUS
  <2> QED
    BY <2>2, <2>3, <2>4
<1> QED
  BY <1>1, <1>2, <1>3

(* What EmailStr drops and what it leaves is part of the string. *)
LEMMA AddressIsPart ==
    ASSUME NEW C, NEW s \in Seq(C)
    PROVE  Users!Address(s) \in Seq(C)
<1>1. CASE \E i \in DOMAIN s : Users!Opens(s, i)
  <2> DEFINE i == CHOOSE j \in DOMAIN s : Users!Opens(s, j)
  <2>1. i \in 1 .. Len(s) /\ i + 1 < Len(s) /\ Len(s) \in Nat
    BY <1>1 DEF Users!Opens
  <2>2. Users!Address(s) = Users!Strip(SubSeq(s, i + 1, Len(s) - 1))
    BY <1>1 DEF Users!Address
  <2> HIDE DEF i
  <2>3. SubSeq(s, i + 1, Len(s) - 1) \in Seq(C)
    BY <2>1, SubSeqProperties
  <2> QED
    BY <2>2, <2>3, Stripped
<1>2. CASE ~\E i \in DOMAIN s : Users!Opens(s, i)
  BY <1>2 DEF Users!Address
<1> QED
  BY <1>1, <1>2

(* Characters that EmailStr leaves as they are. *)
LEMMA NormalOne ==
    ASSUME NEW c \in Low
    PROVE  /\ Users!Nfc(c) \in Low /\ Users!Uts46(c) \in Low
           /\ Users!Nfc(Users!Nfc(c)) = Users!Nfc(c)
           /\ Users!Uts46(Users!Uts46(c)) = Users!Uts46(c)
           /\ \A d \in {"@", "<", ">", Users!Blank} :
                 (Users!Nfc(c) = d <=> c = d) /\ (Users!Uts46(c) = d <=> c = d)
BY DEF Users!Nfc, Users!Uts46, Low, Users!Characters, Users!Lowers, Users!Digits,
       Users!Symbols, Users!Encoded, Users!LowerOf, Users!Blank

(* The normalised form of an address is one, and is its own. *)
LEMMA NormalizedStays ==
    ASSUME NEW a \in Seq(Low), Users!IsEmail(a)
    PROVE  LET n == Users!Normalized(a)
           IN  n \in Seq(Low) /\ NoBlank(n) /\ Users!EmailStr(n) = n
<1> DEFINE n == Users!Normalized(a)
           at == CHOOSE i \in DOMAIN a : a[i] = "@"
           one(c, i) == IF i < at THEN Users!Nfc(c) ELSE Users!Uts46(c)
<1>1. DOMAIN a = 1 .. Len(a) /\ Len(a) \in Nat /\ \A i \in 1 .. Len(a) : a[i] \in Low
  OBVIOUS
<1>2. /\ \E i \in 2 .. Len(a) - 1 : a[i] = "@"
      /\ \A i, j \in 1 .. Len(a) : a[i] = "@" /\ a[j] = "@" => i = j
      /\ \A i \in 1 .. Len(a) : a[i] \notin {Users!Blank, "<", ">"}
  BY <1>1 DEF Users!IsEmail, Users!Range
<1>3. n = [i \in 1 .. Len(a) |-> one(a[i], i)]
  BY <1>1 DEF Users!Normalized
<1> HIDE DEF at
<1>4. ASSUME NEW i \in 1 .. Len(a)
      PROVE  /\ one(a[i], i) \in Low /\ one(one(a[i], i), i) = one(a[i], i)
             /\ \A d \in {"@", "<", ">", Users!Blank} : one(a[i], i) = d <=> a[i] = d
  BY <1>1, NormalOne
<1> HIDE DEF one, n
<1>5. /\ n \in Seq(Low) /\ Len(n) = Len(a) /\ DOMAIN n = 1 .. Len(a)
      /\ \A i \in 1 .. Len(a) : n[i] = one(a[i], i)
  BY <1>1, <1>3, <1>4
<1>6. \A i \in 1 .. Len(a) : \A d \in {"@", "<", ">", Users!Blank} : n[i] = d <=> a[i] = d
  BY <1>4, <1>5
<1>7. NoBlank(n)
  BY <1>2, <1>5, <1>6 DEF NoBlank
<1>8. Users!Address(n) = n
  <2>1. \A i \in DOMAIN n : ~Users!Opens(n, i)
    BY <1>2, <1>5, <1>6 DEF Users!Opens
  <2> QED
    BY <2>1 DEF Users!Address
<1>9. Users!IsEmail(n)
  BY <1>1, <1>2, <1>5, <1>6 DEF Users!IsEmail, Users!Range
<1>10. Users!Normalized(n) = n
  <2>1. \A i \in 1 .. Len(a) : n[i] = "@" <=> a[i] = "@"
    BY <1>6
  <2>2. (CHOOSE i \in DOMAIN n : n[i] = "@") = at
    BY <1>1, <1>5, <2>1 DEF at
  <2>3. Users!Normalized(n) = [i \in 1 .. Len(a) |-> one(n[i], i)]
    BY <1>5, <2>2 DEF Users!Normalized, one
  <2>4. \A i \in 1 .. Len(a) : one(n[i], i) = n[i]
    BY <1>4, <1>5
  <2> QED
    BY <2>3, <2>4, <1>5
<1> QED
  BY <1>5, <1>7, <1>8, <1>9, <1>10 DEF Users!EmailStr, n

LEMMA EmailStays ==
    ASSUME NEW v, v # None => v \in Seq(Users!Characters), Users!Email(v) # Rejected
    PROVE  /\ Users!Email(v) \in Seq(Low) /\ NoBlank(Users!Email(v))
           /\ Users!Email(v) # None => Users!Email(Users!Email(v)) = Users!Email(v)
<1> DEFINE x == Users!NormalizeEmail(v)
           a == Users!Address(x)
           n == Users!Normalized(a)
<1>1. v # None /\ Users!IsEmail(a) /\ Users!Email(v) = n
  BY DEF Users!Email, Users!EmailStr
<1>2. x \in Seq(Low)
  BY <1>1, NormalIsLow DEF Users!NormalizeEmail
<1>3. a \in Seq(Low)
  BY <1>2, AddressIsPart
<1> HIDE DEF x, a
<1>4. n \in Seq(Low) /\ NoBlank(n) /\ Users!EmailStr(n) = n
  BY <1>1, <1>3, NormalizedStays
<1> HIDE DEF n
<1>5. Users!NormalizeEmail(n) = n
  BY <1>4, Canonical DEF Users!NormalizeEmail
<1>6. n # None => Users!Email(n) = n
  BY <1>4, <1>5 DEF Users!Email
<1> QED
  BY <1>1, <1>4, <1>6

LEMMA UsernameStays ==
    ASSUME NEW v, v # None => v \in Seq(Users!Characters), Users!Username(v) # Rejected
    PROVE  /\ v # None /\ Users!Username(v) = Users!Strip(Users!Lower(v))
           /\ Users!Username(v) \in Seq(Plain) /\ Users!Username(v) \notin Reserved
           /\ Users!Username(v) \in Seq(Low) /\ NoBlank(Users!Username(v))
           /\ Users!Username(v) # None =>
                 Users!Username(Users!Username(v)) = Users!Username(v)
<1> DEFINE x == Users!Strip(Users!Lower(v))
<1>1. /\ v # None /\ Users!Matches(x) /\ x \notin Reserved /\ x # Rejected
      /\ Len(x) \in MinLength .. MaxLength /\ Users!Username(v) = x
  BY DEF Users!Username, Users!ValidateUsername
<1>2. x \in Seq(Low)
  BY <1>1, NormalIsLow
<1> HIDE DEF x
<1>3. \A i \in 1 .. Len(x) : x[i] \in Plain
  <2>1. Users!Range(x) \subseteq Plain
    BY <1>1 DEF Users!Matches, Plain
  <2>2. \A i \in 1 .. Len(x) : x[i] \in Users!Range(x)
    BY <1>2 DEF Users!Range
  <2> QED
    BY <2>1, <2>2
<1>4. NoBlank(x)
  BY <1>3, PlainIsLow DEF NoBlank
<1>5. x \in Seq(Plain)
  BY <1>2, <1>3
<1>6. Users!Strip(Users!Lower(x)) = x
  BY <1>2, <1>4, Canonical
<1>7. x # None => Users!ValidateUsername(x) = x
  BY <1>1, <1>6 DEF Users!ValidateUsername
<1>8. x # None => Users!Username(x) = x
  BY <1>1, <1>7 DEF Users!Username
<1> QED
  BY <1>1, <1>2, <1>4, <1>5, <1>8 DEF x

(* A name that the database takes for a reserved one is a reserved one. *)
LEMMA NotReserved ==
    ASSUME NEW v \in Seq(Users!Characters), NEW locale \in Users!Locales,
           Users!Strip(Users!Lower(v)) \in Seq(Plain),
           Users!Strip(Users!Lower(v)) \notin Reserved, Reserved \subseteq Seq(Plain)
    PROVE  Users!LowerInDatabase(Users!Strip(v), locale) \notin Reserved
<1> DEFINE x == Users!Strip(Users!Lower(v))
           y == Users!Strip(v)
           z == Users!LowerInDatabase(y, locale)
<1> SUFFICES ASSUME z \in Reserved PROVE FALSE
  OBVIOUS
<1>1. y \in Seq(Users!Characters)
  BY Stripped
<1>2. Len(x) = Len(y) /\ \A i \in 1 .. Len(y) : x[i] = LowerOne(y[i])
  <2>1. /\ Users!Lower(v) \in Seq(Low) /\ Len(v) = Len(Users!Lower(v))
        /\ \A i \in 1 .. Len(v) : Users!Lower(v)[i] = LowerOne(v[i])
    BY LowerSeq
  <2>2. \A i \in 1 .. Len(v) : v[i] = Users!Blank <=> Users!Lower(v)[i] = Users!Blank
    BY <2>1, LowerIsLow
  <2>3. /\ Len(y) = Len(x)
        /\ \A i \in 1 .. Len(y) : \E j \in 1 .. Len(v) :
              y[i] = v[j] /\ x[i] = Users!Lower(v)[j]
    <3> DEFINE t == Users!Lower(v)
    <3>1. /\ t \in Seq(Low) /\ Len(v) = Len(t)
          /\ \A i \in 1 .. Len(v) : v[i] = Users!Blank <=> t[i] = Users!Blank
      BY <2>1, <2>2
    <3> HIDE DEF t
    <3>2. /\ Len(Users!Strip(v)) = Len(Users!Strip(t))
          /\ \A i \in 1 .. Len(Users!Strip(v)) : \E j \in 1 .. Len(v) :
                Users!Strip(v)[i] = v[j] /\ Users!Strip(t)[i] = t[j]
      BY <3>1, StripAlike
    <3> QED
      BY <3>2 DEF t
  <2> QED
    BY <2>1, <2>3
<1>3. z = [i \in 1 .. Len(y) |-> DatabaseOne(y[i], locale)]
  BY <1>1, DatabaseSeq
<1> HIDE DEF x, y, z
<1>4. z \in Seq(Plain) /\ x \in Seq(Plain)
  BY DEF x
<1>5. Len(y) \in Nat /\ Len(z) = Len(y)
  BY <1>1, <1>3
<1>6. ASSUME NEW i \in 1 .. Len(y) PROVE z[i] = x[i]
  <2>1. /\ y[i] \in Users!Characters /\ z[i] \in Plain /\ x[i] \in Plain
        /\ x[i] = LowerOne(y[i]) /\ z[i] = DatabaseOne(y[i], locale)
    BY <1>1, <1>2, <1>3, <1>4, <1>5
  <2> QED
    BY <2>1, LetterIsLower DEF DatabaseOne
<1>7. z = x
  BY <1>2, <1>4, <1>5, <1>6
<1> QED
  BY <1>7 DEF x

(* What UserCreate stores is left as it is by UserUpdate and the database. *)
LEMMA Stored ==
    ASSUME NEW payload,
           payload.email # None => payload.email \in Seq(Users!Characters),
           payload.username # None => payload.username \in Seq(Users!Characters),
           Rejected # None, Reserved \subseteq Seq(Plain)
    PROVE  Users!StoredFormIsCanonical(payload)
<1> DEFINE email == Users!Email(payload.email)
           username == Users!Username(payload.username)
           stored == Users!UserCreate(payload)
<1> SUFFICES ASSUME stored # Rejected
             PROVE  /\ Users!UserUpdate(stored) = stored
                    /\ Users!UserUpdate([stored EXCEPT !.email = None]).username
                          = stored.username
                    /\ \A locale \in Users!Locales :
                          /\ Users!LowerInDatabase(stored.email, locale) = stored.email
                          /\ Users!LowerInDatabase(stored.username, locale)
                                = stored.username
                          /\ Users!LowerInDatabase(Users!Strip(payload.username), locale)
                                \notin Reserved
  BY DEF Users!StoredFormIsCanonical
<1>1. /\ email # Rejected /\ username # Rejected
      /\ stored = [email |-> email, username |-> username]
  BY DEF Users!UserCreate
<1>2. /\ email \in Seq(Low) /\ NoBlank(email)
      /\ email # None => Users!Email(email) = email
  BY <1>1, EmailStays
<1>3. /\ payload.username # None /\ username = Users!Strip(Users!Lower(payload.username))
      /\ username \in Seq(Plain) /\ username \notin Reserved
      /\ username \in Seq(Low) /\ NoBlank(username)
      /\ username # None => Users!Username(username) = username
  BY <1>1, UsernameStays
<1> HIDE DEF email, username, stored
<1>4. Users!UserUpdate(stored) = stored
  BY <1>1, <1>2, <1>3 DEF Users!UserUpdate
<1>5. Users!UserUpdate([stored EXCEPT !.email = None]).username = stored.username
  <2>1. [stored EXCEPT !.email = None] = [email |-> None, username |-> username]
    BY <1>1
  <2> QED
    BY <1>1, <1>3, <2>1 DEF Users!UserUpdate
<1>6. ASSUME NEW locale \in Users!Locales
      PROVE  /\ Users!LowerInDatabase(stored.email, locale) = stored.email
             /\ Users!LowerInDatabase(stored.username, locale) = stored.username
             /\ Users!LowerInDatabase(Users!Strip(payload.username), locale) \notin Reserved
  <2>1. Users!LowerInDatabase(email, locale) = email
    BY <1>2, Canonical
  <2>2. Users!LowerInDatabase(username, locale) = username
    BY <1>3, Canonical
  <2>3. Users!LowerInDatabase(Users!Strip(payload.username), locale) \notin Reserved
    BY <1>3, NotReserved
  <2> QED
    BY <1>1, <2>1, <2>2, <2>3
<1> QED
  BY <1>4, <1>5, <1>6

-------------------------------------------------------------------------------
(* OpenApiPatch *)

Schema(responses, models) == [responses |-> responses, models |-> models]

Closed(schema) == OpenApi!Mentioned(schema) \subseteq schema.models

LEMMA MentionedIff ==
    ASSUME NEW schema, NEW x
    PROVE  x \in OpenApi!Mentioned(schema) <=>
             \/ \E r \in DOMAIN schema.responses : \E s \in DOMAIN schema.responses[r] :
                    x = schema.responses[r][s]
             \/ \E m \in schema.models : x \in OpenApi!Mentions[m]
<1> DEFINE inResponse(r) == {schema.responses[r][s] : s \in DOMAIN schema.responses[r]}
           inResponses == UNION {inResponse(r) : r \in DOMAIN schema.responses}
           inModels == UNION {OpenApi!Mentions[m] : m \in schema.models}
<1>1. \A r : x \in inResponse(r) <=>
                \E s \in DOMAIN schema.responses[r] : x = schema.responses[r][s]
  OBVIOUS
<1>2. OpenApi!Mentioned(schema) = inResponses \union inModels
  BY DEF OpenApi!Mentioned
<1>3. x \in inModels <=> \E m \in schema.models : x \in OpenApi!Mentions[m]
  OBVIOUS
<1> HIDE DEF inResponse, inModels
<1>4. x \in inResponses <=> \E r \in DOMAIN schema.responses : x \in inResponse(r)
  OBVIOUS
<1> QED
  BY <1>1, <1>2, <1>3, <1>4

(* Only the models that document a validation error mention others that    *)
(* mention none.                                                           *)
LEMMA Depth ==
    ASSUME NEW m \in OpenApi!Models, NEW d \in OpenApi!Mentions[m]
    PROVE  d \in OpenApi!Models /\ OpenApi!Mentions[d] = {}
BY DEF OpenApi!Models, OpenApi!Mentions

(* pop() of a model that nothing mentions leaves no dangling reference.    *)
LEMMA PruneCloses ==
    ASSUME NEW schema, NEW model,
           schema = Schema(schema.responses, schema.models), Closed(schema)
    PROVE  LET p == OpenApi!Prune(schema, model)
           IN  /\ p = Schema(schema.responses, p.models)
               /\ p.models \subseteq schema.models
               /\ \A m \in schema.models : m # model => m \in p.models
               /\ Closed(p)
               /\ model \in p.models => model \in OpenApi!Mentioned(p)
<1> DEFINE p == OpenApi!Prune(schema, model)
<1>1. CASE model \in OpenApi!Mentioned(schema)
  <2>1. p = schema
    BY <1>1 DEF OpenApi!Prune
  <2> QED
    BY <2>1, <1>1
<1>2. CASE model \notin OpenApi!Mentioned(schema)
  <2>1. p = Schema(schema.responses, schema.models \ {model})
    BY <1>2 DEF OpenApi!Prune, Schema
  <2>2. p.responses = schema.responses /\ p.models = schema.models \ {model}
    BY <2>1 DEF Schema
  <2> HIDE DEF p
  <2>3. OpenApi!Mentioned(p) \subseteq OpenApi!Mentioned(schema)
    BY <2>2, MentionedIff
  <2>4. Closed(p)
    BY <2>2, <2>3, <1>2 DEF Closed
  <2> QED
    BY <2>1, <2>2, <2>4 DEF p
<1> QED
  BY <1>1, <1>2

(* The schema FastAPI generates holds what it mentions, and the error      *)
(* envelope because register declares it.                                  *)
LEMMA GeneratedIsClosed ==
    ASSUME NEW routes \in SUBSET OpenApi!Routes, OpenApi!Register \in routes,
           None \notin OpenApi!Models
    PROVE  LET g == OpenApi!Generated(routes)
           IN  /\ g = Schema(g.responses, g.models)
               /\ Closed(g)
               /\ {"ErrorResponse", "FieldError"} \subseteq g.models
               /\ DOMAIN g.responses = routes
               /\ \A r \in routes : DOMAIN g.responses[r] = OpenApi!Statuses(r)
<1> DEFINE g == OpenApi!Generated(routes)
           responses ==
            [r \in routes |->
                [s \in OpenApi!Statuses(r) |->
                    IF s = 422 THEN "HTTPValidationError" ELSE r.bad]]
           direct == OpenApi!Mentioned([responses |-> responses, models |-> {}])
<1>1. /\ g = Schema(g.responses, g.models) /\ g.responses = responses
      /\ g.models = direct \union UNION {OpenApi!Mentions[m] : m \in direct}
  BY DEF OpenApi!Generated, Schema
<1>2. /\ DOMAIN responses = routes
      /\ \A r \in routes : DOMAIN responses[r] = OpenApi!Statuses(r)
  OBVIOUS
<1>3. ASSUME NEW r \in routes, NEW s \in OpenApi!Statuses(r)
      PROVE  responses[r][s] \in OpenApi!Models
  <2>1. s = 422 \/ (r.bad # None /\ r \in OpenApi!Routes)
    BY DEF OpenApi!Statuses
  <2>2. r.bad # None /\ r \in OpenApi!Routes => r.bad \in OpenApi!Models
    BY DEF OpenApi!Routes, OpenApi!Models, OpenApi!Mentions
  <2>3. "HTTPValidationError" \in OpenApi!Models
    BY DEF OpenApi!Models, OpenApi!Mentions
  <2> QED
    BY <2>1, <2>2, <2>3
<1>4. \A x : x \in direct <=>
                \E r \in routes : \E s \in OpenApi!Statuses(r) : x = responses[r][s]
  BY <1>2, MentionedIff
<1>5. direct \subseteq OpenApi!Models
  BY <1>3, <1>4
<1>6. "ErrorResponse" \in direct
  <2>1. /\ 400 \in OpenApi!Statuses(OpenApi!Register)
        /\ OpenApi!Register.bad = "ErrorResponse"
    BY DEF OpenApi!Statuses, OpenApi!Register, OpenApi!Models, OpenApi!Mentions
  <2>2. responses[OpenApi!Register][400] = "ErrorResponse"
    BY <2>1
  <2> QED
    BY <2>1, <2>2, <1>4
<1> HIDE DEF direct, responses
<1>7. Closed(g)
  <2>1. ASSUME NEW x \in OpenApi!Mentioned(g) PROVE x \in g.models
    <3>1. CASE \E r \in routes : \E s \in OpenApi!Statuses(r) : x = responses[r][s]
      BY <3>1, <1>1, <1>4
    <3>2. CASE \E m \in g.models : x \in OpenApi!Mentions[m]
      <4>1. PICK m \in g.models : x \in OpenApi!Mentions[m]
        BY <3>2
      <4>2. CASE m \in direct
        BY <4>1, <4>2, <1>1
      <4>3. CASE \E d \in direct : m \in OpenApi!Mentions[d]
        BY <4>1, <4>3, <1>5, Depth
      <4> QED
        BY <4>2, <4>3, <1>1
    <3> QED
      BY <3>1, <3>2, <1>1, <1>2, MentionedIff
  <2> QED
    BY <2>1 DEF Closed
<1>8. {"ErrorResponse", "FieldError"} \subseteq g.models
  BY <1>1, <1>6 DEF OpenApi!Mentions
<1> QED
  BY <1>1, <1>2, <1>7, <1>8

LEMMA RewriteAdds ==
    ASSUME NEW responses, NEW s \in DOMAIN OpenApi!Rewrite(responses)
    PROVE  \/ OpenApi!Rewrite(responses)[s] = "ErrorResponse"
           \/ s \in DOMAIN responses /\ OpenApi!Rewrite(responses)[s] = responses[s]
<1>1. CASE 422 \notin DOMAIN responses
  BY <1>1 DEF OpenApi!Rewrite
<1>2. CASE 422 \in DOMAIN responses
  BY <1>2 DEF OpenApi!Rewrite
<1> QED
  BY <1>1, <1>2

(* The rewrite adds mentions of the error envelope only. *)
LEMMA RewrittenIsClosed ==
    ASSUME NEW g, g = Schema(g.responses, g.models), Closed(g),
           {"ErrorResponse", "FieldError"} \subseteq g.models
    PROVE  LET w == OpenApi!Rewritten(g)
           IN  /\ w = Schema(w.responses, g.models) /\ Closed(w)
               /\ DOMAIN w.responses = DOMAIN g.responses
               /\ \A r \in DOMAIN g.responses : r.place = "paths" =>
                     w.responses[r] = OpenApi!Rewrite(g.responses[r])
<1> DEFINE w == OpenApi!Rewritten(g)
           responses == [r \in DOMAIN g.responses |->
                           IF r.place = "paths" THEN OpenApi!Rewrite(g.responses[r])
                                                ELSE g.responses[r]]
<1>1. w = Schema(responses, g.models)
  BY DEF OpenApi!Rewritten, Schema
<1>2. w.responses = responses /\ w.models = g.models
  BY <1>1 DEF Schema
<1>3. /\ DOMAIN w.responses = DOMAIN g.responses
      /\ \A r \in DOMAIN g.responses :
            w.responses[r] = IF r.place = "paths" THEN OpenApi!Rewrite(g.responses[r])
                                                  ELSE g.responses[r]
  BY <1>2
<1> HIDE DEF w, responses
<1>4. ASSUME NEW r \in DOMAIN g.responses, NEW s \in DOMAIN w.responses[r]
      PROVE  w.responses[r][s] \in g.models
  <2>1. ASSUME NEW u \in DOMAIN g.responses[r]
        PROVE  g.responses[r][u] \in g.models
    BY MentionedIff DEF Closed
  <2>2. \/ w.responses[r][s] = "ErrorResponse"
        \/ s \in DOMAIN g.responses[r] /\ w.responses[r][s] = g.responses[r][s]
    BY <1>3, RewriteAdds
  <2> QED
    BY <2>1, <2>2
<1>5. ASSUME NEW m \in g.models, NEW x \in OpenApi!Mentions[m] PROVE x \in g.models
  BY MentionedIff DEF Closed
<1>6. Closed(w)
  BY <1>2, <1>3, <1>4, <1>5, MentionedIff DEF Closed
<1> QED
  BY <1>1, <1>2, <1>3, <1>6 DEF w

(* The schema documents 400 instead of 422 for every route under paths     *)
(* that takes input, mentions only models it holds and holds no validation *)
(* model it does not mention (custom_openapi), whatever the routes are.    *)
LEMMA PatchedSchema ==
    ASSUME NEW routes \in SUBSET OpenApi!Routes, OpenApi!Register \in routes,
           None \notin OpenApi!Models
    PROVE  OpenApi!SchemaIsClosed(routes)
<1> DEFINE g == OpenApi!Generated(routes)
           w == OpenApi!Rewritten(g)
           a == OpenApi!Prune(w, "HTTPValidationError")
           b == OpenApi!Prune(a, "ValidationError")
<1>1. /\ g = Schema(g.responses, g.models) /\ Closed(g)
      /\ {"ErrorResponse", "FieldError"} \subseteq g.models
      /\ DOMAIN g.responses = routes
      /\ \A r \in routes : DOMAIN g.responses[r] = OpenApi!Statuses(r)
  BY GeneratedIsClosed
<1> HIDE DEF g
<1>2. /\ w = Schema(w.responses, g.models) /\ Closed(w)
      /\ DOMAIN w.responses = DOMAIN g.responses
      /\ \A r \in DOMAIN g.responses : r.place = "paths" =>
            w.responses[r] = OpenApi!Rewrite(g.responses[r])
  BY <1>1, RewrittenIsClosed
<1> HIDE DEF w
<1>3. w = Schema(w.responses, w.models)
  BY <1>2 DEF Schema
<1>4. /\ a = Schema(w.responses, a.models) /\ Closed(a)
      /\ "HTTPValidationError" \in a.models =>
            "HTTPValidationError" \in OpenApi!Mentioned(a)
  BY <1>2, <1>3, PruneCloses
<1> HIDE DEF a
<1>5. a = Schema(a.responses, a.models) /\ a.responses = w.responses
  BY <1>4 DEF Schema
<1>6. /\ b = Schema(a.responses, b.models) /\ Closed(b) /\ b.models \subseteq a.models
      /\ \A m \in a.models : m # "ValidationError" => m \in b.models
      /\ "ValidationError" \in b.models => "ValidationError" \in OpenApi!Mentioned(b)
  BY <1>4, <1>5, PruneCloses
<1> HIDE DEF b
<1>7. b.responses = w.responses
  BY <1>5, <1>6 DEF Schema
<1>8. OpenApi!Mentioned(a) \subseteq OpenApi!Mentioned(b)
  <2>1. OpenApi!Mentions["ValidationError"] = {}
    BY DEF OpenApi!Mentions
  <2> QED
    BY <2>1, <1>5, <1>6, <1>7, MentionedIff
<1>9. ASSUME NEW r \in routes, r.place = "paths", r.input
      PROVE  422 \notin DOMAIN b.responses[r] /\ 400 \in DOMAIN b.responses[r]
  <2>1. /\ b.responses[r] = OpenApi!Rewrite(g.responses[r])
        /\ DOMAIN g.responses[r] = OpenApi!Statuses(r)
    BY <1>1, <1>2, <1>7, <1>9
  <2>2. 422 \in OpenApi!Statuses(r)
    BY <1>9 DEF OpenApi!Statuses
  <2> QED
    BY <2>1, <2>2 DEF OpenApi!Rewrite
<1>10. OpenApi!CustomOpenapi(routes) = b
  BY DEF OpenApi!CustomOpenapi, OpenApi!PruneBoth, a, b, w, g
<1> QED
  BY <1>4, <1>6, <1>8, <1>9, <1>10 DEF OpenApi!SchemaIsClosed, Closed

-------------------------------------------------------------------------------
(* The inputs *)

(* What is taken is one of the inputs. *)
InputOk ==
    \/ input = None
    \/ \E environ \in Environs, dotenv \in Dotenvs :
          input = [task |-> "settings", args |-> <<environ, dotenv>>]
    \/ \E form \in Forms : \E payload \in form :
          input = [task |-> "user", args |-> payload]
    \/ \E routes \in RouteSets : input = [task |-> "openapi", args |-> routes]

LEMMA InputInvariant == InputSpec => []InputOk
<1>1. InputInit => InputOk
  BY DEF InputInit, InputOk
<1>2. InputOk /\ [InputNext]_input => InputOk'
  <2> SUFFICES ASSUME InputOk, [InputNext]_input PROVE InputOk'
    OBVIOUS
  <2>1. CASE LoadSettings
    BY <2>1 DEF LoadSettings, Take, InputOk
  <2>2. CASE ParsePayload
    BY <2>2 DEF ParsePayload, Take, InputOk
  <2>3. CASE BuildSchema
    BY <2>3 DEF BuildSchema, Take, InputOk
  <2>4. CASE UNCHANGED input
    BY <2>4 DEF InputOk
  <2> QED
    BY <2>1, <2>2, <2>3, <2>4 DEF InputNext, Taken
<1> QED
  BY <1>1, <1>2, PTL DEF InputSpec

(* A process that starts runs in the environment it was told, in any       *)
(* spelling and by either source, with the key it was given; in production *)
(* and staging it was given one that every rule of the validator passes,   *)
(* and never signs with the default, whatever else its environment and     *)
(* .env hold (_missing_, validate_secret_key).                             *)
THEOREM GuardedIsSecure == InputSpec => []SecureWhenGuarded
<1>1. InputOk => SecureWhenGuarded
  <2> SUFFICES ASSUME InputOk, Of("settings")
               PROVE  Config!SecureWhenGuarded(input.args[1], input.args[2])
    BY DEF SecureWhenGuarded
  <2>1. PICK environ \in Environs, dotenv \in Dotenvs :
          input = [task |-> "settings", args |-> <<environ, dotenv>>]
    BY DEF InputOk, Of
  <2>2. input.args[1] = environ /\ input.args[2] = dotenv
    BY <2>1
  <2>3. /\ environ["SECRET_KEY"] \in Keys \cup {Absent}
        /\ dotenv["SECRET_KEY"] \in Keys \cup {Absent}
    BY ValidationAssumption
  <2>4. Config!SecureWhenGuarded(environ, dotenv)
    BY <2>3, GuardedSettings
  <2> QED
    BY <2>2, <2>4
<1> QED
  BY <1>1, InputInvariant, PTL

(* The email, after EmailStr's normalisation, and the username of every    *)
(* payload that UserCreate accepts, whatever the kinds and number of their *)
(* characters, are in the form that UserUpdate and LOWER() in any locale   *)
(* leave as it is, and no accepted name is folded to a reserved one by the *)
(* database (normalize_email, validate_username).                          *)
THEOREM StoredFormStays == InputSpec => []StoredFormIsCanonical
<1>1. InputOk => StoredFormIsCanonical
  <2> SUFFICES ASSUME InputOk, Of("user")
               PROVE  Users!StoredFormIsCanonical(input.args)
    BY DEF StoredFormIsCanonical
  <2>1. PICK form \in Forms :
          \E payload \in form : input = [task |-> "user", args |-> payload]
    BY DEF InputOk, Of
  <2>2. PICK payload \in form : input = [task |-> "user", args |-> payload]
    BY <2>1
  <2>3. /\ payload.email # None => payload.email \in Seq(Users!Characters)
        /\ payload.username # None => payload.username \in Seq(Users!Characters)
        /\ Rejected # None
    BY ValidationAssumption
  <2>4. Reserved \subseteq Seq(Plain)
    BY ValidationAssumption DEF Plain
  <2>5. Users!StoredFormIsCanonical(payload)
    BY <2>3, <2>4, Stored
  <2> QED
    BY <2>2, <2>5
<1> QED
  BY <1>1, InputInvariant, PTL

(* The schema documents 400 instead of 422 for every route under paths     *)
(* that takes input, mentions only models it holds and holds no validation *)
(* model it does not mention (custom_openapi), whatever the routes are.    *)
THEOREM PatchedSchemaIsClosed == InputSpec => []SchemaIsClosed
<1>1. InputOk => SchemaIsClosed
  <2> SUFFICES ASSUME InputOk, Of("openapi") PROVE OpenApi!SchemaIsClosed(input.args)
    BY DEF SchemaIsClosed
  <2>1. PICK routes \in RouteSets : input = [task |-> "openapi", args |-> routes]
    BY DEF InputOk, Of
  <2>2. /\ routes \in SUBSET OpenApi!Routes /\ OpenApi!Register \in routes
        /\ None \notin OpenApi!Models
    BY ValidationAssumption
  <2>3. OpenApi!SchemaIsClosed(routes)
    BY <2>2, PatchedSchema
  <2> QED
    BY <2>1, <2>3
<1> QED
  BY <1>1, InputInvariant, PTL
===============================================================================
