--------------------------- MODULE MigrationsProofs ---------------------------
(***************************************************************************)
(* What the migrations guarantee after any number of commands.             *)
(***************************************************************************)
EXTENDS Migrations, TLAPS

(* These objects and perhaps the extension. *)
Holds(objects, made) == made \subseteq objects /\ objects \subseteq made \union {"vector"}

(* What the first n statements of a revision are about. *)
Firsts(script, n) == {script[i].object : i \in 1 .. n}

(* What there is before the nth statement on the way from v to t. *)
Made(v, t, n) ==
    IF v < t THEN Expected(v) \union Firsts(Upgrade[v + 1], n - 1)
    ELSE IF v > t THEN Expected(v) \ Firsts(Downgrade[v], n - 1)
    ELSE Expected(v)

IInv ==
    /\ TypeOK
    /\ Holds(database.objects, Expected(database.version))
    /\ Holds(session.objects, Made(session.version, target, next))
    /\ phase = "idle" \/ session.version = target => next = 1

-------------------------------------------------------------------------------
(* The scripts *)

LEMMA Numbers == Base = 0 /\ Newest = 2 /\ Versions = {0, 1, 2}
BY DEF Base, Newest, Upgrade, Versions

LEMMA ScriptsAre ==
    /\ Upgrade[1] = <<Ensure("vector")>>
    /\ Upgrade[2] = <<Create("users"), Create("ix_users_email_lower"),
                      Create("ix_users_username_lower"),
                      Ensure("update_updated_at_column"), Create("set_updated_at")>>
    /\ Downgrade[1] = <<DropIfExists("vector")>>
    /\ Downgrade[2] = <<DropIfExists("set_updated_at"),
                        DropIfExists("update_updated_at_column"),
                        Drop("ix_users_username_lower"), Drop("ix_users_email_lower"),
                        Drop("users")>>
BY DEF Upgrade, Downgrade

LEMMA Lengths ==
    Len(Upgrade[1]) = 1 /\ Len(Upgrade[2]) = 5
    /\ Len(Downgrade[1]) = 1 /\ Len(Downgrade[2]) = 5
BY ScriptsAre

LEMMA ExpectedIs ==
    /\ Expected(0) = {}
    /\ Expected(1) = {"vector"}
    /\ Expected(2) = Objects
<1>1. Expected(0) = {}
  BY DEF Expected
<1>2. {Upgrade[1][i].object : i \in DOMAIN Upgrade[1]} = {"vector"}
  BY ScriptsAre DEF Ensure
<1>3. {Upgrade[2][i].object : i \in DOMAIN Upgrade[2]} = Objects \ {"vector"}
  BY ScriptsAre DEF Create, Ensure, Objects, Needs
<1>4. Expected(1) = {Upgrade[1][i].object : i \in DOMAIN Upgrade[1]}
  <2>1. 1 .. 1 = {1}
    OBVIOUS
  <2> QED
    BY <2>1 DEF Expected
<1>5. Expected(2) = {Upgrade[1][i].object : i \in DOMAIN Upgrade[1]}
                      \union {Upgrade[2][i].object : i \in DOMAIN Upgrade[2]}
  <2>1. 1 .. 2 = {1, 2}
    OBVIOUS
  <2> QED
    BY <2>1 DEF Expected
<1>6. "vector" \in Objects
  BY DEF Objects, Needs
<1> QED
  BY <1>1, <1>2, <1>3, <1>4, <1>5, <1>6

-------------------------------------------------------------------------------
(* One statement *)

LEMMA NextOne ==
    ASSUME NEW script, NEW n \in Nat \ {0}
    PROVE  Firsts(script, n) = Firsts(script, n - 1) \union {script[n].object}
<1>1. 1 .. n = (1 .. n - 1) \union {n}
  OBVIOUS
<1> QED
  BY <1>1 DEF Firsts

LEMMA NoneYet == ASSUME NEW script PROVE Firsts(script, 0) = {}
BY DEF Firsts

(* An upgrade creates what is not there, after what it needs. *)
LEMMA Creates ==
    ASSUME NEW v \in {0, 1}, NEW n \in 1 .. Len(Upgrade[v + 1]),
           NEW objects \in SUBSET Objects,
           Holds(objects, Expected(v) \union Firsts(Upgrade[v + 1], n - 1))
    PROVE  /\ Upgrade[v + 1][n].op = "create"
           /\ Upgrade[v + 1][n].object \in Objects
           /\ ~Fails(objects, Upgrade[v + 1][n])
<1> DEFINE firsts(k) == Firsts(Upgrade[2], k)
<1>1. /\ firsts(0) = {} /\ firsts(1) = {"users"}
      /\ firsts(2) = {"users", "ix_users_email_lower"}
      /\ firsts(3) = {"users", "ix_users_email_lower", "ix_users_username_lower"}
      /\ firsts(4) = {"users", "ix_users_email_lower", "ix_users_username_lower",
                      "update_updated_at_column"}
  <2>1. /\ Upgrade[2][1].object = "users"
        /\ Upgrade[2][2].object = "ix_users_email_lower"
        /\ Upgrade[2][3].object = "ix_users_username_lower"
        /\ Upgrade[2][4].object = "update_updated_at_column"
    BY ScriptsAre DEF Create, Ensure
  <2>2. /\ firsts(0) = {}
        /\ firsts(1) = firsts(0) \union {Upgrade[2][1].object}
        /\ firsts(2) = firsts(1) \union {Upgrade[2][2].object}
        /\ firsts(3) = firsts(2) \union {Upgrade[2][3].object}
        /\ firsts(4) = firsts(3) \union {Upgrade[2][4].object}
    <3>1. ASSUME NEW k \in {1, 2, 3, 4}
          PROVE  firsts(k) = firsts(k - 1) \union {Upgrade[2][k].object}
      BY NextOne
    <3> QED
      BY <3>1, NoneYet
  <2> HIDE DEF firsts
  <2> QED
    BY <2>1, <2>2
<1>2. CASE v = 0
  <2>1. v + 1 = 1
    BY <1>2
  <2>2. n \in 1 .. Len(Upgrade[1])
    BY <2>1
  <2>3. n = 1
    BY <2>2, Lengths
  <2> QED
    BY <2>1, <2>3, ScriptsAre DEF Ensure, Fails, Needs, Objects
<1>3. CASE v = 1
  <2>1. v + 1 = 2 /\ n \in {1, 2, 3, 4, 5}
    <3>1. v + 1 = 2
      BY <1>3
    <3>2. n \in 1 .. Len(Upgrade[2])
      BY <3>1
    <3> QED
      BY <3>1, <3>2, Lengths
  <2>2. Holds(objects, {"vector"} \union firsts(n - 1))
    BY <2>1, <1>3, ExpectedIs
  <2> HIDE DEF firsts
  <2>3. CASE n = 1
    BY <2>1, <2>2, <2>3, <1>1, ScriptsAre DEF Holds, Create, Fails, Needs, Objects
  <2>4. CASE n = 2
    BY <2>1, <2>2, <2>4, <1>1, ScriptsAre DEF Holds, Create, Fails, Needs, Objects
  <2>5. CASE n = 3
    BY <2>1, <2>2, <2>5, <1>1, ScriptsAre DEF Holds, Create, Fails, Needs, Objects
  <2>6. CASE n = 4
    BY <2>1, <2>2, <2>6, <1>1, ScriptsAre DEF Holds, Ensure, Fails, Needs, Objects
  <2>7. CASE n = 5
    BY <2>1, <2>2, <2>7, <1>1, ScriptsAre DEF Holds, Create, Fails, Needs, Objects
  <2> QED
    BY <2>1, <2>3, <2>4, <2>5, <2>6, <2>7
<1> QED
  BY <1>2, <1>3

(* A downgrade drops what is there or need not be, before what that needs. *)
LEMMA Drops ==
    ASSUME NEW v \in {1, 2}, NEW n \in 1 .. Len(Downgrade[v]),
           NEW objects \in SUBSET Objects,
           Holds(objects, Expected(v) \ Firsts(Downgrade[v], n - 1))
    PROVE  /\ ~Fails(objects, Downgrade[v][n])
           /\ After(objects, Downgrade[v][n]) = objects \ {Downgrade[v][n].object}
<1> DEFINE firsts(k) == Firsts(Downgrade[2], k)
<1>1. /\ firsts(0) = {} /\ firsts(1) = {"set_updated_at"}
      /\ firsts(2) = {"set_updated_at", "update_updated_at_column"}
      /\ firsts(3) = {"set_updated_at", "update_updated_at_column",
                      "ix_users_username_lower"}
      /\ firsts(4) = {"set_updated_at", "update_updated_at_column",
                      "ix_users_username_lower", "ix_users_email_lower"}
  <2>1. /\ Downgrade[2][1].object = "set_updated_at"
        /\ Downgrade[2][2].object = "update_updated_at_column"
        /\ Downgrade[2][3].object = "ix_users_username_lower"
        /\ Downgrade[2][4].object = "ix_users_email_lower"
    BY ScriptsAre DEF Drop, DropIfExists
  <2>2. /\ firsts(0) = {}
        /\ firsts(1) = firsts(0) \union {Downgrade[2][1].object}
        /\ firsts(2) = firsts(1) \union {Downgrade[2][2].object}
        /\ firsts(3) = firsts(2) \union {Downgrade[2][3].object}
        /\ firsts(4) = firsts(3) \union {Downgrade[2][4].object}
    <3>1. ASSUME NEW k \in {1, 2, 3, 4}
          PROVE  firsts(k) = firsts(k - 1) \union {Downgrade[2][k].object}
      BY NextOne
    <3> QED
      BY <3>1, NoneYet
  <2> HIDE DEF firsts
  <2> QED
    BY <2>1, <2>2
<1>2. CASE v = 1
  <2>1. n \in 1 .. Len(Downgrade[1])
    BY <1>2
  <2>2. n = 1
    BY <2>1, Lengths
  <2> QED
    BY <1>2, <2>2, ScriptsAre DEF DropIfExists, Fails, After, Needs, Objects
<1>3. CASE v = 2
  <2>1. n \in {1, 2, 3, 4, 5}
    <3>1. n \in 1 .. Len(Downgrade[2])
      BY <1>3
    <3> QED
      BY <3>1, Lengths
  <2>2. Holds(objects, Objects \ firsts(n - 1))
    BY <1>3, ExpectedIs
  <2> HIDE DEF firsts
  <2>3. CASE n = 1
    BY <2>2, <2>3, <1>1, <1>3, ScriptsAre
       DEF Holds, DropIfExists, Fails, After, Needs, Objects
  <2>4. CASE n = 2
    BY <2>2, <2>4, <1>1, <1>3, ScriptsAre
       DEF Holds, DropIfExists, Fails, After, Needs, Objects
  <2>5. CASE n = 3
    BY <2>2, <2>5, <1>1, <1>3, ScriptsAre DEF Holds, Drop, Fails, After, Needs, Objects
  <2>6. CASE n = 4
    BY <2>2, <2>6, <1>1, <1>3, ScriptsAre DEF Holds, Drop, Fails, After, Needs, Objects
  <2>7. CASE n = 5
    BY <2>2, <2>7, <1>1, <1>3, ScriptsAre
       DEF Holds, Drop, Fails, After, Needs, Objects, OfTable
  <2> QED
    BY <2>1, <2>3, <2>4, <2>5, <2>6, <2>7
<1> QED
  BY <1>2, <1>3

(* After its last statement a revision has made or dropped all it should. *)
LEMMA RevisionEnds ==
    /\ \A v \in {0, 1} :
          Expected(v) \union Firsts(Upgrade[v + 1], Len(Upgrade[v + 1])) = Expected(v + 1)
    /\ \A v \in {1, 2} :
          Expected(v) \ Firsts(Downgrade[v], Len(Downgrade[v])) = Expected(v - 1)
<1>1. Firsts(Upgrade[1], 1) = {"vector"} /\ Firsts(Downgrade[1], 1) = {"vector"}
  BY ScriptsAre DEF Firsts, Ensure, DropIfExists
<1>2. 1 .. 5 = {1, 2, 3, 4, 5}
  OBVIOUS
<1>3. Firsts(Upgrade[2], 5) = Objects \ {"vector"}
  BY <1>2, ScriptsAre DEF Firsts, Create, Ensure, Objects, Needs
<1>4. Firsts(Downgrade[2], 5) = Objects \ {"vector"}
  BY <1>2, ScriptsAre DEF Firsts, Drop, DropIfExists, Objects, Needs
<1>5. "vector" \in Objects
  BY DEF Objects, Needs
<1>6. Expected(0) \union Firsts(Upgrade[0 + 1], Len(Upgrade[0 + 1])) = Expected(0 + 1)
  <2>1. 0 + 1 = 1
    OBVIOUS
  <2>2. Expected(0) \union Firsts(Upgrade[1], Len(Upgrade[1])) = Expected(1)
    BY <1>1, ExpectedIs, Lengths
  <2> QED
    BY <2>1, <2>2
<1>7. Expected(1) \union Firsts(Upgrade[1 + 1], Len(Upgrade[1 + 1])) = Expected(1 + 1)
  <2>1. 1 + 1 = 2
    OBVIOUS
  <2>2. Expected(1) \union Firsts(Upgrade[2], Len(Upgrade[2])) = Expected(2)
    BY <1>3, <1>5, ExpectedIs, Lengths
  <2> QED
    BY <2>1, <2>2
<1>8. Expected(1) \ Firsts(Downgrade[1], Len(Downgrade[1])) = Expected(1 - 1)
  BY <1>1, ExpectedIs, Lengths
<1>9. Expected(2) \ Firsts(Downgrade[2], Len(Downgrade[2])) = Expected(2 - 1)
  BY <1>4, <1>5, ExpectedIs, Lengths
<1> QED
  BY <1>6, <1>7, <1>8, <1>9

(* What a statement of an upgrade makes of the objects. *)
LEMMA UpStep ==
    ASSUME NEW v \in {0, 1}, NEW n \in 1 .. Len(Upgrade[v + 1]),
           NEW objects \in SUBSET Objects,
           Holds(objects, Expected(v) \union Firsts(Upgrade[v + 1], n - 1))
    PROVE  LET after == After(objects, Upgrade[v + 1][n])
           IN  /\ after \in SUBSET Objects
               /\ Holds(after, Expected(v) \union Firsts(Upgrade[v + 1], n))
               /\ n = Len(Upgrade[v + 1]) => Holds(after, Expected(v + 1))
<1> DEFINE s == Upgrade[v + 1][n]
           after == After(objects, s)
<1>1. s.op = "create" /\ s.object \in Objects
  BY Creates
<1>2. after = objects \union {s.object}
  BY <1>1 DEF After
<1>3. n \in Nat \ {0}
  <2>1. v + 1 \in {1, 2}
    OBVIOUS
  <2>2. Len(Upgrade[v + 1]) \in Nat
    BY <2>1, Lengths
  <2> QED
    BY <2>2
<1>4. Firsts(Upgrade[v + 1], n) = Firsts(Upgrade[v + 1], n - 1) \union {s.object}
  BY <1>3, NextOne
<1> HIDE DEF s, after
<1>5. after \in SUBSET Objects
  BY <1>1, <1>2
<1>6. Holds(after, Expected(v) \union Firsts(Upgrade[v + 1], n))
  BY <1>2, <1>4 DEF Holds
<1>7. n = Len(Upgrade[v + 1]) => Holds(after, Expected(v + 1))
  BY <1>6, RevisionEnds
<1> QED
  BY <1>5, <1>6, <1>7 DEF after, s

(* What a statement of a downgrade makes of the objects. *)
LEMMA DownStep ==
    ASSUME NEW v \in {1, 2}, NEW n \in 1 .. Len(Downgrade[v]),
           NEW objects \in SUBSET Objects,
           Holds(objects, Expected(v) \ Firsts(Downgrade[v], n - 1))
    PROVE  LET after == After(objects, Downgrade[v][n])
           IN  /\ after \in SUBSET Objects
               /\ Holds(after, Expected(v) \ Firsts(Downgrade[v], n))
               /\ n = Len(Downgrade[v]) => Holds(after, Expected(v - 1))
<1> DEFINE s == Downgrade[v][n]
           after == After(objects, s)
<1>1. after = objects \ {s.object}
  BY Drops
<1>2. n \in Nat \ {0}
  <2>1. Len(Downgrade[v]) \in Nat
    BY Lengths
  <2> QED
    BY <2>1
<1>3. Firsts(Downgrade[v], n) = Firsts(Downgrade[v], n - 1) \union {s.object}
  BY <1>2, NextOne
<1> HIDE DEF s, after
<1>4. after \in SUBSET Objects
  BY <1>1
<1>5. Holds(after, Expected(v) \ Firsts(Downgrade[v], n))
  BY <1>1, <1>3 DEF Holds
<1>6. n = Len(Downgrade[v]) => Holds(after, Expected(v - 1))
  BY <1>5, RevisionEnds
<1> QED
  BY <1>4, <1>5, <1>6 DEF after, s

-------------------------------------------------------------------------------
(* The commands *)

LEMMA AtStart == ASSUME NEW v, NEW t PROVE Made(v, t, 1) = Expected(v)
BY NoneYet DEF Made

(* The revision between two versions has a statement. *)
Script(v, t) == IF v < t THEN Upgrade[v + 1] ELSE Downgrade[v]

LEMMA SomeStatement ==
    ASSUME NEW v \in {0, 1, 2}, NEW t \in {0, 1, 2}, v # t
    PROVE  1 <= Len(Script(v, t))
<1>1. CASE v < t
  <2>1. v + 1 \in {1, 2}
    BY <1>1
  <2> QED
    BY <1>1, <2>1, Lengths DEF Script
<1>2. CASE ~(v < t)
  <2>1. v \in {1, 2}
    BY <1>2
  <2>2. Script(v, t) = Downgrade[v]
    BY <1>2 DEF Script
  <2>3. Script(v, t) \in {Downgrade[1], Downgrade[2]}
    BY <2>1, <2>2
  <2> QED
    BY <2>3, Lengths
<1> QED
  BY <1>1, <1>2

(* Where a command that is at work is. *)
LEMMA Working ==
    ASSUME IInv, AtWork
    PROVE  /\ next \in 1 .. Len(Revision)
           /\ \/ /\ session.version < target /\ session.version \in {0, 1}
                 /\ Revision = Upgrade[session.version + 1]
                 /\ Holds(session.objects,
                          Expected(session.version) \union Firsts(Revision, next - 1))
              \/ /\ session.version > target /\ session.version \in {1, 2}
                 /\ Revision = Downgrade[session.version]
                 /\ Holds(session.objects,
                          Expected(session.version) \ Firsts(Revision, next - 1))
<1>1. session.version \in {0, 1, 2} /\ target \in {0, 1, 2} /\ session.version # target
  BY Numbers DEF IInv, TypeOK, Schemas, AtWork
<1>2. CASE session.version < target
  <2>1. session.version \in {0, 1} /\ Revision = Upgrade[session.version + 1]
    BY <1>1, <1>2 DEF Revision, Up
  <2>2. Len(Revision) \in Nat
    <3>1. session.version + 1 \in {1, 2}
      BY <2>1
    <3> QED
      BY <2>1, <3>1, Lengths
  <2>3. next \in 1 .. Len(Revision)
    BY <2>2 DEF IInv, TypeOK
  <2> QED
    BY <1>2, <2>1, <2>3 DEF IInv, Made
<1>3. CASE session.version > target
  <2>1. session.version \in {1, 2} /\ Revision = Downgrade[session.version]
    BY <1>1, <1>3 DEF Revision, Up
  <2>2. Len(Revision) \in Nat
    BY <2>1, Lengths
  <2>3. next \in 1 .. Len(Revision)
    BY <2>2 DEF IInv, TypeOK
  <2>4. ~(session.version < target)
    BY <1>1, <1>3
  <2> QED
    BY <1>3, <2>1, <2>3, <2>4 DEF IInv, Made
<1> QED
  BY <1>1, <1>2, <1>3

(* A statement of a command at work succeeds. *)
LEMMA Succeeds == IInv => NoStatementFails
<1> SUFFICES ASSUME IInv, AtWork PROVE ~Fails(session.objects, Revision[next])
  BY DEF NoStatementFails
<1>1. session.objects \in SUBSET Objects
  BY DEF IInv, TypeOK, Schemas
<1> QED
  BY <1>1, Working, Creates, Drops

LEMMA InitIInv == Init => IInv
<1> SUFFICES ASSUME Init PROVE IInv
  OBVIOUS
<1>1. PICK installed \in {{}, {"vector"}} :
        database = [objects |-> installed, version |-> Base]
  BY DEF Init
<1>2. "vector" \in Objects
  BY DEF Objects, Needs
<1>3. database.objects \in SUBSET Objects /\ Holds(database.objects, {})
  BY <1>1, <1>2 DEF Holds
<1>4. database.version = 0 /\ database \in Schemas
  BY <1>1, <1>2, Numbers DEF Schemas
<1>5. TypeOK
  BY <1>4, Numbers, MigrationsAssumption DEF Init, TypeOK, AtWork
<1>6. Made(session.version, target, next) = {}
  BY <1>4, AtStart, ExpectedIs DEF Init
<1> QED
  BY <1>3, <1>4, <1>5, <1>6, ExpectedIs DEF Init, IInv

(* One statement, in either direction. *)
LEMMA ExecuteKeeps == ASSUME IInv, Execute PROVE IInv'
<1> DEFINE v == session.version
           after == After(session.objects, Revision[next])
           last == next = Len(Revision)
<1>1. /\ AtWork /\ phase = "running" /\ v # target
      /\ database' = database /\ phase' = phase /\ target' = target
      /\ commands' = commands
      /\ next' = IF last THEN 1 ELSE next + 1
      /\ session' = [objects |-> after,
                     version |-> IF ~last THEN v ELSE IF Up THEN v + 1 ELSE v - 1]
  BY DEF Execute, AtWork
<1>2. /\ database \in Schemas /\ target \in {0, 1, 2} /\ v \in {0, 1, 2}
      /\ next \in Nat \ {0} /\ commands \in 0 .. MaxCommands
      /\ session.objects \in SUBSET Objects
  BY Numbers DEF IInv, TypeOK, Schemas
<1>3. /\ next \in 1 .. Len(Revision) /\ after \in SUBSET Objects
      /\ session'.version \in {0, 1, 2}
      /\ Holds(session'.objects, Made(session'.version, target, next'))
  <2>1. CASE v < target
    <3>1. /\ v \in {0, 1} /\ Up /\ Revision = Upgrade[v + 1]
          /\ next \in 1 .. Len(Upgrade[v + 1])
          /\ Holds(session.objects, Expected(v) \union Firsts(Upgrade[v + 1], next - 1))
      <4>1. ~(v > target) /\ Up
        BY <1>2, <2>1 DEF Up
      <4> QED
        BY <1>1, <4>1, Working
    <3>2. /\ after \in SUBSET Objects
          /\ Holds(after, Expected(v) \union Firsts(Upgrade[v + 1], next))
          /\ last => Holds(after, Expected(v + 1))
      BY <1>2, <3>1, UpStep
    <3>3. CASE last
      BY <1>1, <3>1, <3>2, <3>3, AtStart
    <3>4. CASE ~last
      <4>1. session'.version = v /\ next' = next + 1 /\ session'.objects = after
        BY <1>1, <3>4
      <4>2. next' - 1 = next
        BY <1>2, <4>1
      <4>3. Made(v, target, next') = Expected(v) \union Firsts(Upgrade[v + 1], next)
        BY <2>1, <4>2 DEF Made
      <4> QED
        BY <1>2, <3>1, <3>2, <4>1, <4>3
    <3> QED
      BY <3>3, <3>4
  <2>2. CASE v > target
    <3>1. /\ v \in {1, 2} /\ ~Up /\ Revision = Downgrade[v]
          /\ next \in 1 .. Len(Downgrade[v])
          /\ Holds(session.objects, Expected(v) \ Firsts(Downgrade[v], next - 1))
      <4>1. ~(v < target) /\ ~Up
        BY <1>2, <2>2 DEF Up
      <4> QED
        BY <1>1, <4>1, Working
    <3>2. /\ after \in SUBSET Objects
          /\ Holds(after, Expected(v) \ Firsts(Downgrade[v], next))
          /\ last => Holds(after, Expected(v - 1))
      BY <1>2, <3>1, DownStep
    <3>3. CASE last
      BY <1>1, <3>1, <3>2, <3>3, AtStart
    <3>4. CASE ~last
      <4>1. session'.version = v /\ next' = next + 1 /\ session'.objects = after
        BY <1>1, <3>4
      <4>2. next' - 1 = next
        BY <1>2, <4>1
      <4>3. Made(v, target, next') = Expected(v) \ Firsts(Downgrade[v], next)
        BY <1>2, <2>2, <4>2 DEF Made
      <4> QED
        BY <1>2, <3>1, <3>2, <4>1, <4>3
    <3> QED
      BY <3>3, <3>4
  <2> QED
    BY <1>1, <1>2, <2>1, <2>2
<1>4. session' \in Schemas
  BY <1>1, <1>3, Numbers DEF Schemas
<1>5. next' \in Nat \ {0}
  BY <1>1, <1>2
<1>6. AtWork' => next' <= Len(Revision')
  <2>1. CASE last
    <3>1. ASSUME AtWork' PROVE 1 <= Len(Revision')
      <4>1. /\ session'.version \in {0, 1, 2} /\ target' \in {0, 1, 2}
            /\ session'.version # target'
        BY <1>1, <1>2, <1>3, <3>1 DEF AtWork
      <4>2. Revision' = Script(session'.version, target')
        BY DEF Revision, Up, Script
      <4> QED
        BY <4>1, <4>2, SomeStatement
    <3>2. next' = 1
      BY <1>1, <2>1
    <3> QED
      BY <3>1, <3>2
  <2>2. CASE ~last
    <3>1. session'.version = v /\ next' = next + 1
      BY <1>1, <2>2
    <3>2. Revision' = Revision
      BY <1>1, <3>1 DEF Revision, Up
    <3>3. Len(Revision) \in Nat
      <4>1. Revision \in {Upgrade[1], Upgrade[2], Downgrade[1], Downgrade[2]}
        BY <1>1, Working
      <4> QED
        BY <4>1, Lengths
    <3> QED
      BY <1>2, <1>3, <2>2, <3>1, <3>2, <3>3
  <2> QED
    BY <2>1, <2>2
<1>7. TypeOK'
  BY <1>1, <1>2, <1>4, <1>5, <1>6, Numbers DEF TypeOK
<1>8. session'.version = target' => next' = 1
  BY <1>1
<1> QED
  BY <1>1, <1>3, <1>7, <1>8 DEF IInv

LEMMA NextIInv == IInv /\ [Next]_vars => IInv'
<1> SUFFICES ASSUME IInv, [Next]_vars PROVE IInv'
  OBVIOUS
<1>1. /\ database \in Schemas /\ session \in Schemas
      /\ target \in Versions /\ commands \in 0 .. MaxCommands
  BY DEF IInv, TypeOK
<1>2. ASSUME NEW version \in Base .. Newest, Begin(version) PROVE IInv'
  <2>1. session' = database /\ database' = database /\ next' = 1
        /\ phase' = "running" /\ target' = version /\ commands' = commands + 1
        /\ commands < MaxCommands
    BY <1>2 DEF Begin, IInv, TypeOK
  <2>2. version \in Versions /\ commands + 1 \in 0 .. MaxCommands
    BY <1>1, <2>1, MigrationsAssumption DEF Versions
  <2>3. AtWork' => 1 <= Len(Revision')
    <3> SUFFICES ASSUME AtWork' PROVE 1 <= Len(Revision')
      OBVIOUS
    <3>1. /\ session'.version \in {0, 1, 2} /\ target' \in {0, 1, 2}
          /\ session'.version # target'
      BY <1>1, <2>1, <2>2, Numbers DEF AtWork, Schemas
    <3>2. Revision' = Script(session'.version, target')
      BY DEF Revision, Up, Script
    <3> QED
      BY <3>1, <3>2, SomeStatement
  <2>4. TypeOK'
    BY <1>1, <2>1, <2>2, <2>3 DEF TypeOK
  <2>5. Holds(session'.objects, Made(session'.version, target', next'))
    BY <2>1, AtStart DEF IInv
  <2> QED
    BY <2>1, <2>4, <2>5 DEF IInv
<1>3. CASE Execute
  BY <1>3, ExecuteKeeps
<1>4. CASE Commit
  BY <1>1, <1>4, AtStart DEF Commit, IInv, TypeOK, AtWork
<1>5. CASE Die
  BY <1>1, <1>5, AtStart DEF Die, IInv, TypeOK, AtWork
<1>6. CASE UNCHANGED vars
  BY <1>6 DEF vars, IInv, TypeOK, AtWork, Revision, Up
<1> QED
  BY <1>2, <1>3, <1>4, <1>5, <1>6 DEF Next, Terminating

-------------------------------------------------------------------------------
(* The inductive invariant: the transaction of a command holds what the    *)
(* versions and statements behind it have made or not yet dropped.         *)
THEOREM Invariant == Spec => []IInv
<1> QED
  BY InitIInv, NextIInv, PTL DEF Spec

(* The state of a migration has its type, and only the committed schema is *)
(* left between commands.                                                  *)
THEOREM TypeCorrect == Spec => []TypeOK
<1> QED
  BY Invariant, PTL DEF IInv

(* No statement of an upgrade or downgrade fails, after any number of      *)
(* commands that committed or died.                                        *)
THEOREM StatementsSucceed == Spec => []NoStatementFails
<1> QED
  BY Invariant, Succeeds, PTL

(* alembic_version tells which objects the committed schema has.           *)
THEOREM SchemaIsTold == Spec => []VersionTellsSchema
<1>1. IInv => VersionTellsSchema
  BY DEF IInv, Holds, VersionTellsSchema
<1> QED
  BY <1>1, Invariant, PTL
===============================================================================
