-------------------------- MODULE RegistrationProofs --------------------------
(***************************************************************************)
(* What Registration guarantees for every number of requests and servers,  *)
(* every payload and every pool size.                                      *)
(***************************************************************************)
EXTENDS Registration, FiniteSetTheorems, TLAPS

(* r owns its value of field f: its row is committed, or its transaction   *)
(* has the index entry.                                                    *)
Owns(r, f) == r \in committed \/ f \in entries[r]

(* Ownership is exclusive.  This is what the unique indexes enforce, and   *)
(* it speaks of open transactions because they become committed rows.      *)
Exclusive ==
    \A r, q \in Requests : r # q =>
        \A f \in Fields : Owns(r, f) /\ Owns(q, f) => Key(r, f) # Key(q, f)

(* What the program counter says of a request's other state. *)
Phases ==
    \A r \in Requests :
        /\ pc[r] \in {"new", "opened", "inserting", "flushed"} =>
                answer[r] = "none" /\ r \notin committed
        /\ pc[r] \in {"flushed", "answered"} => entries[r] = Fields
        /\ pc[r] = "answered" => answer[r] = "created" /\ r \notin committed
        /\ answer[r] = "created" => entries[r] \in {{}, Fields}

(* A conflict on its way to the client, or told to it, is grounded. *)
Grounded ==
    \A r \in Requests : \A f \in Fields :
        raised[r] = f \/ answer[r] = f =>
            \E q \in committed \ {r} : Key(q, f) = Key(r, f)

IInv == /\ TypeOK
        /\ Exclusive
        /\ Phases
        /\ Grounded
        /\ ErrorStoresNothing
        /\ PoolRespected

-------------------------------------------------------------------------------
(* Helpers *)

(* Folding twice is folding once, so a key is the folded payload. *)
LEMMA KeyIsFolded ==
    ASSUME TypeOK, NEW r \in Requests, NEW f \in Fields
    PROVE  Key(r, f) = Lower[body[r][f]]
<1>1. body[r] \in [Fields -> Spellings]
  BY ConstantsAssumption DEF TypeOK
<1>2. body[r][f] \in Spellings
  BY <1>1
<1>3. Row(r)[f] = Lower[body[r][f]]
  BY DEF Row
<1> QED
  BY <1>2, <1>3, ConstantsAssumption DEF Key

(* Steps that leave the payloads alone leave the keys alone. *)
LEMMA KeyUnchanged ==
    ASSUME UNCHANGED body, NEW r \in Requests, NEW f \in Fields
    PROVE  Key(r, f)' = Key(r, f)
BY DEF Key, Row

(* The pool of a server is a finite set. *)
LEMMA InUseFinite ==
    ASSUME TypeOK, NEW s \in Servers
    PROVE  IsFiniteSet(InUse(s)) /\ Cardinality(InUse(s)) \in Nat
<1>1. InUse(s) \subseteq Requests
  BY DEF InUse, TypeOK
<1>2. IsFiniteSet(InUse(s))
  BY <1>1, ConstantsAssumption, FS_Subset
<1> QED
  BY <1>2, FS_CardinalityType

(* Giving connections back never overdraws a pool. *)
LEMMA PoolShrinks ==
    ASSUME TypeOK, PoolRespected, UNCHANGED home,
           checkedOut' \subseteq checkedOut
    PROVE  \A s \in Servers : Cardinality(InUse(s)') <= PoolLimit
<1> SUFFICES ASSUME NEW s \in Servers
             PROVE  Cardinality(InUse(s)') <= PoolLimit
  OBVIOUS
<1>1. InUse(s)' \subseteq InUse(s)
  BY DEF InUse
<1>2. /\ Cardinality(InUse(s)') \in Nat
      /\ Cardinality(InUse(s)') <= Cardinality(InUse(s))
  BY <1>1, InUseFinite, FS_Subset, FS_CardinalityType
<1>3. Cardinality(InUse(s)) <= PoolLimit /\ Cardinality(InUse(s)) \in Nat
  BY InUseFinite DEF PoolRespected
<1> QED
  BY <1>2, <1>3, ConstantsAssumption

(* The fields PostgreSQL checks and what a violation of their index is     *)
(* reported as.                                                            *)
LEMMA ConflictNamesField ==
    ASSUME NEW f \in Fields
    PROVE  IdentifyDuplicateField(IndexOf[f]) = f
BY DEF Fields, IndexOf, IdentifyDuplicateField, ConstraintToField

-------------------------------------------------------------------------------
(* Type correctness *)

LEMMA TypeStep == TypeOK /\ [Next]_vars => TypeOK'
<1> SUFFICES ASSUME TypeOK, [Next]_vars
             PROVE  TypeOK'
  OBVIOUS
<1> USE DEF PCs, InFlight, Finished, Errors, Answers, Fields
<1>1. ASSUME NEW r \in Requests, Arrive(r) PROVE TypeOK'
  BY <1>1 DEF TypeOK, Arrive, Goto
<1>2. ASSUME NEW r \in Requests, RejectBody(r) PROVE TypeOK'
  BY <1>2 DEF TypeOK, RejectBody, Raise
<1>3. ASSUME NEW r \in Requests, Checkout(r) PROVE TypeOK'
  BY <1>3 DEF TypeOK, Checkout, Goto
<1>4. ASSUME NEW r \in Requests, PoolTimeout(r) PROVE TypeOK'
  BY <1>4 DEF TypeOK, PoolTimeout, Raise
<1>5. ASSUME NEW r \in Requests, NEW f \in Fields, InsertEntry(r, f)
      PROVE  TypeOK'
  BY <1>5 DEF TypeOK, InsertEntry
<1>6. ASSUME NEW r \in Requests, NEW f \in Fields, Conflict(r, f)
      PROVE  TypeOK'
  BY <1>6, ConflictNamesField DEF TypeOK, Conflict, Raise
<1>7. ASSUME NEW r \in Requests, HandlerRaises(r) PROVE TypeOK'
  BY <1>7 DEF TypeOK, HandlerRaises, Raise
<1>8. ASSUME NEW r \in Requests, Respond(r) PROVE TypeOK'
  BY <1>8 DEF TypeOK, Respond, Send, Goto
<1>9. ASSUME NEW r \in Requests, Commit(r) PROVE TypeOK'
  BY <1>9 DEF TypeOK, Commit, Goto
<1>10. ASSUME NEW r \in Requests, CommitRaises(r) PROVE TypeOK'
  BY <1>10 DEF TypeOK, CommitRaises, Raise
<1>11. ASSUME NEW r \in Requests, Rollback(r) PROVE TypeOK'
  BY <1>11 DEF TypeOK, Rollback, Goto
<1>12. ASSUME NEW r \in Requests, RollbackRaises(r) PROVE TypeOK'
  BY <1>12 DEF TypeOK, RollbackRaises, Goto
<1>13. ASSUME NEW r \in Requests, Close(r) PROVE TypeOK'
  BY <1>13 DEF TypeOK, Close, SendError, Send, Goto
<1>14. ASSUME NEW r \in Requests, Reap(r) PROVE TypeOK'
  BY <1>14 DEF TypeOK, Reap
<1>15. ASSUME NEW s \in Servers, Crash(s) PROVE TypeOK'
  BY <1>15 DEF TypeOK, Crash
<1>16. CASE Terminating
  BY <1>16 DEF TypeOK, Terminating, vars
<1>17. CASE UNCHANGED vars
  BY <1>17 DEF TypeOK, vars
<1> QED
  BY <1>1, <1>2, <1>3, <1>4, <1>5, <1>6, <1>7, <1>8, <1>9, <1>10, <1>11,
     <1>12, <1>13, <1>14, <1>15, <1>16, <1>17 DEF Next, Progress

-------------------------------------------------------------------------------
(* The program counter and the rest of a request's state *)

LEMMA PhasesStep == TypeOK /\ Phases /\ [Next]_vars => Phases'
<1> SUFFICES ASSUME TypeOK, Phases, [Next]_vars
             PROVE  Phases'
  OBVIOUS
<1> USE DEF InFlight, Finished, Errors, Answers, Fields
<1>1. ASSUME NEW r \in Requests, Arrive(r) PROVE Phases'
  BY <1>1 DEF TypeOK, Phases, Arrive, Goto
<1>2. ASSUME NEW r \in Requests, RejectBody(r) PROVE Phases'
  BY <1>2 DEF TypeOK, Phases, RejectBody, Raise
<1>3. ASSUME NEW r \in Requests, Checkout(r) PROVE Phases'
  BY <1>3 DEF TypeOK, Phases, Checkout, Goto
<1>4. ASSUME NEW r \in Requests, PoolTimeout(r) PROVE Phases'
  BY <1>4 DEF TypeOK, Phases, PoolTimeout, Raise
<1>5. ASSUME NEW r \in Requests, HandlerRaises(r) PROVE Phases'
  BY <1>5 DEF TypeOK, Phases, HandlerRaises, Raise
<1>6. ASSUME NEW r \in Requests, Respond(r) PROVE Phases'
  BY <1>6 DEF TypeOK, Phases, Respond, Send, Goto
<1>7. ASSUME NEW r \in Requests, Commit(r) PROVE Phases'
  BY <1>7 DEF TypeOK, Phases, Commit, Goto
<1>8. ASSUME NEW r \in Requests, CommitRaises(r) PROVE Phases'
  <2>1. CASE UNCHANGED <<committed, entries>>
    BY <1>8, <2>1 DEF TypeOK, Phases, CommitRaises, Raise
  <2>2. CASE /\ committed' = committed \cup {r}
             /\ entries' = [entries EXCEPT ![r] = {}]
    BY <1>8, <2>2 DEF TypeOK, Phases, CommitRaises, Raise
  <2> QED
    BY <1>8, <2>1, <2>2 DEF CommitRaises
<1>9. ASSUME NEW r \in Requests, Rollback(r) PROVE Phases'
  BY <1>9 DEF TypeOK, Phases, Rollback, Goto
<1>10. ASSUME NEW r \in Requests, RollbackRaises(r) PROVE Phases'
  BY <1>10 DEF TypeOK, Phases, RollbackRaises, Goto
<1>11. ASSUME NEW r \in Requests, Close(r) PROVE Phases'
  BY <1>11 DEF TypeOK, Phases, Close, SendError, Send, Goto
<1>12. ASSUME NEW r \in Requests, Reap(r) PROVE Phases'
  BY <1>12 DEF TypeOK, Phases, Reap
<1>13. ASSUME NEW r \in Requests, NEW f \in Fields, InsertEntry(r, f)
      PROVE  Phases'
  BY <1>13 DEF TypeOK, Phases, InsertEntry, NextField
<1>14. ASSUME NEW r \in Requests, NEW f \in Fields, Conflict(r, f)
      PROVE  Phases'
  BY <1>14, ConflictNamesField DEF TypeOK, Phases, Conflict, Raise
<1>15. ASSUME NEW s \in Servers, Crash(s) PROVE Phases'
  BY <1>15 DEF TypeOK, Phases, Crash
<1>16. CASE Terminating
  BY <1>16 DEF TypeOK, Phases, Terminating, vars
<1>17. CASE UNCHANGED vars
  BY <1>17 DEF TypeOK, Phases, vars
<1> QED
  BY <1>1, <1>2, <1>3, <1>4, <1>5, <1>6, <1>7, <1>8, <1>9, <1>10, <1>11, <1>12, <1>13, <1>14, <1>15, <1>16, <1>17 DEF Next, Progress

-------------------------------------------------------------------------------
(* Only a 201 stores a user *)

LEMMA StoredStep ==
    TypeOK /\ Phases /\ ErrorStoresNothing /\ [Next]_vars => ErrorStoresNothing'
<1> SUFFICES ASSUME TypeOK, Phases, ErrorStoresNothing, [Next]_vars
             PROVE  ErrorStoresNothing'
  OBVIOUS
<1>1. ASSUME NEW r \in Requests, Arrive(r) PROVE ErrorStoresNothing'
  BY <1>1 DEF TypeOK, Phases, ErrorStoresNothing, Arrive, Goto
<1>2. ASSUME NEW r \in Requests, RejectBody(r) PROVE ErrorStoresNothing'
  BY <1>2 DEF TypeOK, Phases, ErrorStoresNothing, RejectBody, Raise
<1>3. ASSUME NEW r \in Requests, Checkout(r) PROVE ErrorStoresNothing'
  BY <1>3 DEF TypeOK, Phases, ErrorStoresNothing, Checkout, Goto
<1>4. ASSUME NEW r \in Requests, PoolTimeout(r) PROVE ErrorStoresNothing'
  BY <1>4 DEF TypeOK, Phases, ErrorStoresNothing, PoolTimeout, Raise
<1>5. ASSUME NEW r \in Requests, HandlerRaises(r) PROVE ErrorStoresNothing'
  BY <1>5 DEF TypeOK, Phases, ErrorStoresNothing, HandlerRaises, Raise
<1>6. ASSUME NEW r \in Requests, Respond(r) PROVE ErrorStoresNothing'
  BY <1>6 DEF TypeOK, Phases, ErrorStoresNothing, Respond, Send, Goto
<1>7. ASSUME NEW r \in Requests, Commit(r) PROVE ErrorStoresNothing'
  BY <1>7 DEF TypeOK, Phases, ErrorStoresNothing, Commit, Goto
<1>8. ASSUME NEW r \in Requests, CommitRaises(r) PROVE ErrorStoresNothing'
  BY <1>8 DEF TypeOK, Phases, ErrorStoresNothing, CommitRaises, Raise
<1>9. ASSUME NEW r \in Requests, Rollback(r) PROVE ErrorStoresNothing'
  BY <1>9 DEF TypeOK, Phases, ErrorStoresNothing, Rollback, Goto
<1>10. ASSUME NEW r \in Requests, RollbackRaises(r) PROVE ErrorStoresNothing'
  BY <1>10 DEF TypeOK, Phases, ErrorStoresNothing, RollbackRaises, Goto
<1>11. ASSUME NEW r \in Requests, Close(r) PROVE ErrorStoresNothing'
  BY <1>11 DEF TypeOK, Phases, ErrorStoresNothing, Close, SendError, Send, Goto
<1>12. ASSUME NEW r \in Requests, Reap(r) PROVE ErrorStoresNothing'
  BY <1>12 DEF TypeOK, Phases, ErrorStoresNothing, Reap
<1>13. ASSUME NEW r \in Requests, NEW f \in Fields, InsertEntry(r, f)
      PROVE  ErrorStoresNothing'
  BY <1>13 DEF TypeOK, Phases, ErrorStoresNothing, InsertEntry
<1>14. ASSUME NEW r \in Requests, NEW f \in Fields, Conflict(r, f)
      PROVE  ErrorStoresNothing'
  BY <1>14 DEF TypeOK, Phases, ErrorStoresNothing, Conflict, Raise
<1>15. ASSUME NEW s \in Servers, Crash(s) PROVE ErrorStoresNothing'
  BY <1>15 DEF TypeOK, Phases, ErrorStoresNothing, Crash
<1>16. CASE Terminating
  BY <1>16 DEF TypeOK, Phases, ErrorStoresNothing, Terminating, vars
<1>17. CASE UNCHANGED vars
  BY <1>17 DEF TypeOK, Phases, ErrorStoresNothing, vars
<1> QED
  BY <1>1, <1>2, <1>3, <1>4, <1>5, <1>6, <1>7, <1>8, <1>9, <1>10, <1>11, <1>12, <1>13, <1>14, <1>15, <1>16, <1>17 DEF Next, Progress

-------------------------------------------------------------------------------
(* Ownership stays exclusive *)

(* A step that lets nobody own more keeps ownership exclusive. *)
LEMMA OwnersShrink ==
    ASSUME Exclusive, UNCHANGED body,
           \A r \in Requests : \A f \in Fields : Owns(r, f)' => Owns(r, f)
    PROVE  Exclusive'
BY KeyUnchanged DEF Exclusive

LEMMA ExclusiveStep ==
    TypeOK /\ Phases /\ Exclusive /\ [Next]_vars => Exclusive'
<1> SUFFICES ASSUME TypeOK, Phases, Exclusive, [Next]_vars
             PROVE  Exclusive'
  OBVIOUS
(* The only step that owns more: neither a row nor an open transaction has *)
(* the key, so nobody else owns it.                                        *)
<1>1. ASSUME NEW r \in Requests, NEW f \in Fields, InsertEntry(r, f)
      PROVE  Exclusive'
  <2>1. \A q \in Requests : \A g \in Fields :
            Owns(q, g)' => Owns(q, g) \/ (q = r /\ g = f)
    BY <1>1 DEF TypeOK, InsertEntry, Owns
  <2>2. \A q \in Requests \ {r} : Owns(q, f) => Key(q, f) # Key(r, f)
    BY <1>1 DEF InsertEntry, Taken, Held, Owns
  <2>3. UNCHANGED body
    BY <1>1 DEF InsertEntry
  <2>4. ASSUME NEW p \in Requests, NEW q \in Requests, p # q,
               NEW g \in Fields, Owns(p, g)', Owns(q, g)'
        PROVE  Key(p, g)' # Key(q, g)'
    <3>1. Key(p, g) # Key(q, g)
      BY <2>1, <2>2, <2>4 DEF Exclusive
    <3> QED
      BY <3>1, <2>3, KeyUnchanged
  <2> QED
    BY <2>4 DEF Exclusive
(* Committing turns entries into a row of the same owner. *)
<1>2. ASSUME NEW r \in Requests, Commit(r) PROVE Exclusive'
  <2>1. entries[r] = Fields
    BY <1>2 DEF Commit, Goto, Phases
  <2>2. \A q \in Requests : \A g \in Fields : Owns(q, g)' => Owns(q, g)
    BY <1>2, <2>1 DEF TypeOK, Commit, Owns
  <2> QED
    BY <1>2, <2>2, OwnersShrink DEF Commit
<1>3. ASSUME NEW r \in Requests, CommitRaises(r) PROVE Exclusive'
  <2>1. entries[r] = Fields
    BY <1>3 DEF CommitRaises, Phases
  <2>2. \A q \in Requests : \A g \in Fields : Owns(q, g)' => Owns(q, g)
    BY <1>3, <2>1 DEF TypeOK, CommitRaises, Owns
  <2> QED
    BY <1>3, <2>2, OwnersShrink DEF CommitRaises
<1>4. ASSUME NEW r \in Requests, Arrive(r) PROVE Exclusive'
  BY <1>4, OwnersShrink DEF TypeOK, Owns, Arrive
<1>5. ASSUME NEW r \in Requests, RejectBody(r) PROVE Exclusive'
  BY <1>5, OwnersShrink DEF TypeOK, Owns, RejectBody
<1>6. ASSUME NEW r \in Requests, Checkout(r) PROVE Exclusive'
  BY <1>6, OwnersShrink DEF TypeOK, Owns, Checkout
<1>7. ASSUME NEW r \in Requests, PoolTimeout(r) PROVE Exclusive'
  BY <1>7, OwnersShrink DEF TypeOK, Owns, PoolTimeout
<1>8. ASSUME NEW r \in Requests, HandlerRaises(r) PROVE Exclusive'
  BY <1>8, OwnersShrink DEF TypeOK, Owns, HandlerRaises
<1>9. ASSUME NEW r \in Requests, Respond(r) PROVE Exclusive'
  BY <1>9, OwnersShrink DEF TypeOK, Owns, Respond, Send
<1>10. ASSUME NEW r \in Requests, Rollback(r) PROVE Exclusive'
  BY <1>10, OwnersShrink DEF TypeOK, Owns, Rollback
<1>11. ASSUME NEW r \in Requests, RollbackRaises(r) PROVE Exclusive'
  BY <1>11, OwnersShrink DEF TypeOK, Owns, RollbackRaises
<1>12. ASSUME NEW r \in Requests, Close(r) PROVE Exclusive'
  BY <1>12, OwnersShrink DEF TypeOK, Owns, Close, SendError, Send
<1>13. ASSUME NEW r \in Requests, Reap(r) PROVE Exclusive'
  BY <1>13, OwnersShrink DEF TypeOK, Owns, Reap
<1>14. ASSUME NEW r \in Requests, NEW f \in Fields, Conflict(r, f)
      PROVE  Exclusive'
  BY <1>14, OwnersShrink DEF TypeOK, Owns, Conflict
<1>15. ASSUME NEW s \in Servers, Crash(s) PROVE Exclusive'
  BY <1>15, OwnersShrink DEF Owns, Crash
<1>16. CASE Terminating
  BY <1>16, OwnersShrink DEF Owns, Terminating, vars
<1>17. CASE UNCHANGED vars
  BY <1>17, OwnersShrink DEF Owns, vars
<1> QED
  BY <1>1, <1>2, <1>3, <1>4, <1>5, <1>6, <1>7, <1>8, <1>9, <1>10, <1>11, <1>12, <1>13, <1>14, <1>15, <1>16, <1>17 DEF Next, Progress

-------------------------------------------------------------------------------
(* Conflicts stay grounded *)

(* Rows are never removed, so what has been said about them stays true. *)
LEMMA GroundsStay ==
    ASSUME Grounded, UNCHANGED body, committed \subseteq committed',
           committed \subseteq Requests, committed' \subseteq Requests,
           \A r \in Requests : \A f \in Fields :
               raised'[r] = f \/ answer'[r] = f => raised[r] = f \/ answer[r] = f
    PROVE  Grounded'
<1> SUFFICES ASSUME NEW r \in Requests, NEW f \in Fields,
                    raised'[r] = f \/ answer'[r] = f
             PROVE  \E q \in committed' \ {r} : Key(q, f)' = Key(r, f)'
  BY DEF Grounded
<1>1. PICK q \in committed \ {r} : Key(q, f) = Key(r, f)
  BY DEF Grounded
<1>2. Key(q, f)' = Key(q, f) /\ Key(r, f)' = Key(r, f)
  BY KeyUnchanged
<1> QED
  BY <1>1, <1>2

LEMMA GroundedStep ==
    TypeOK /\ Phases /\ Grounded /\ [Next]_vars => Grounded'
<1> SUFFICES ASSUME TypeOK, Phases, Grounded, [Next]_vars
             PROVE  Grounded'
  OBVIOUS
<1>0. TypeOK' /\ committed \subseteq Requests /\ committed' \subseteq Requests
  BY TypeStep DEF TypeOK
<1> USE DEF Fields
(* The conflict is raised against a row committed by somebody else. *)
<1>1. ASSUME NEW r \in Requests, NEW f \in Fields, Conflict(r, f)
      PROVE  Grounded'
  <2>1. PICK q \in committed : Key(q, f) = Key(r, f)
    BY <1>1 DEF Conflict, Taken
  <2>2. q # r
    BY <1>1, <2>1 DEF Conflict, Phases
  <2>3. raised' = [raised EXCEPT ![r] = f] /\ UNCHANGED <<body, committed, answer>>
    BY <1>1, ConflictNamesField DEF Conflict, Raise
  <2>4. ASSUME NEW p \in Requests, NEW g \in Fields,
               raised'[p] = g \/ answer'[p] = g
        PROVE  \E x \in committed' \ {p} : Key(x, g)' = Key(p, g)'
    <3>1. CASE p = r /\ g = f
      <4>1. Key(q, g)' = Key(p, g)'
        BY <2>1, <2>3, <3>1, KeyUnchanged, <1>0
      <4> QED
        BY <4>1, <2>2, <2>3, <3>1
    <3>2. CASE ~(p = r /\ g = f)
      <4>1. raised[p] = g \/ answer[p] = g
        BY <2>3, <2>4, <3>2 DEF TypeOK
      <4>2. PICK x \in committed \ {p} : Key(x, g) = Key(p, g)
        BY <4>1 DEF Grounded
      <4>3. Key(x, g)' = Key(p, g)'
        BY <2>3, <4>2, KeyUnchanged, <1>0
      <4> QED
        BY <2>3, <4>2, <4>3
    <3> QED
      BY <3>1, <3>2
  <2> QED
    BY <2>4 DEF Grounded
<1>2. ASSUME NEW r \in Requests, Arrive(r) PROVE Grounded'
  BY <1>0, <1>2, GroundsStay DEF TypeOK, Arrive
<1>3. ASSUME NEW r \in Requests, RejectBody(r) PROVE Grounded'
  BY <1>0, <1>3, GroundsStay DEF TypeOK, RejectBody, Raise
<1>4. ASSUME NEW r \in Requests, Checkout(r) PROVE Grounded'
  BY <1>0, <1>4, GroundsStay DEF TypeOK, Checkout
<1>5. ASSUME NEW r \in Requests, PoolTimeout(r) PROVE Grounded'
  BY <1>0, <1>5, GroundsStay DEF TypeOK, PoolTimeout, Raise
<1>6. ASSUME NEW r \in Requests, HandlerRaises(r) PROVE Grounded'
  BY <1>0, <1>6, GroundsStay DEF TypeOK, HandlerRaises, Raise
<1>7. ASSUME NEW r \in Requests, Respond(r) PROVE Grounded'
  BY <1>0, <1>7, GroundsStay DEF TypeOK, Respond, Send
<1>8. ASSUME NEW r \in Requests, Commit(r) PROVE Grounded'
  BY <1>0, <1>8, GroundsStay DEF TypeOK, Commit
<1>9. ASSUME NEW r \in Requests, Rollback(r) PROVE Grounded'
  BY <1>0, <1>9, GroundsStay DEF TypeOK, Rollback
<1>10. ASSUME NEW r \in Requests, RollbackRaises(r) PROVE Grounded'
  BY <1>0, <1>10, GroundsStay DEF TypeOK, RollbackRaises
<1>11. ASSUME NEW r \in Requests, Close(r) PROVE Grounded'
  BY <1>0, <1>11, GroundsStay DEF TypeOK, Close, SendError, Send
<1>12. ASSUME NEW r \in Requests, Reap(r) PROVE Grounded'
  BY <1>0, <1>12, GroundsStay DEF TypeOK, Reap
<1>13. ASSUME NEW r \in Requests, CommitRaises(r) PROVE Grounded'
  BY <1>0, <1>13, GroundsStay DEF TypeOK, CommitRaises, Raise
<1>14. ASSUME NEW r \in Requests, NEW f \in Fields, InsertEntry(r, f)
      PROVE  Grounded'
  BY <1>0, <1>14, GroundsStay DEF InsertEntry
<1>15. ASSUME NEW s \in Servers, Crash(s) PROVE Grounded'
  BY <1>0, <1>15, GroundsStay DEF Crash
<1>16. CASE Terminating
  BY <1>0, <1>16, GroundsStay DEF Terminating, vars
<1>17. CASE UNCHANGED vars
  BY <1>0, <1>17, GroundsStay DEF vars
<1> QED
  BY <1>1, <1>2, <1>3, <1>4, <1>5, <1>6, <1>7, <1>8, <1>9, <1>10, <1>11, <1>12, <1>13, <1>14, <1>15, <1>16, <1>17 DEF Next, Progress

-------------------------------------------------------------------------------
(* The pool *)

LEMMA PoolStep == TypeOK /\ PoolRespected /\ [Next]_vars => PoolRespected'
<1> SUFFICES ASSUME TypeOK, PoolRespected, [Next]_vars
             PROVE  PoolRespected'
  OBVIOUS
<1> DEFINE HoldersLive == \A q \in checkedOut : pc[q] \in InFlight
<1> USE DEF InFlight, Finished
(* A step that takes no connection only has to keep the holders in flight. *)
<1>0. ASSUME UNCHANGED home, checkedOut' \subseteq checkedOut, HoldersLive'
      PROVE  PoolRespected'
  <2>1. \A s \in Servers : Cardinality(InUse(s)') <= PoolLimit
    BY <1>0, PoolShrinks
  <2> QED
    BY <1>0, <2>1 DEF PoolRespected
<1>1. ASSUME NEW r \in Requests, Checkout(r) PROVE PoolRespected'
  <2>1. ASSUME NEW s \in Servers
        PROVE  Cardinality(InUse(s)') <= PoolLimit
    <3>1. CASE home[r] = s
      <4>1. InUse(s)' = InUse(s) \cup {r}
        BY <1>1, <3>1 DEF Checkout, InUse
      <4>2. Cardinality(InUse(s)) < PoolLimit
        BY <1>1, <3>1 DEF Checkout, PoolHasRoom
      <4>3. \/ Cardinality(InUse(s)') = Cardinality(InUse(s))
            \/ Cardinality(InUse(s)') = Cardinality(InUse(s)) + 1
        BY <4>1, InUseFinite, FS_AddElement
      <4> QED
        BY <4>2, <4>3, InUseFinite, ConstantsAssumption
    <3>2. CASE home[r] # s
      <4>1. InUse(s)' = InUse(s)
        BY <1>1, <3>2 DEF Checkout, InUse
      <4> QED
        BY <4>1 DEF PoolRespected
    <3> QED
      BY <3>1, <3>2
  <2>2. HoldersLive'
    BY <1>1 DEF TypeOK, PoolRespected, Checkout, Goto
  <2> QED
    BY <2>1, <2>2 DEF PoolRespected
<1>2. ASSUME NEW r \in Requests, Arrive(r) PROVE PoolRespected'
  BY <1>0, <1>2 DEF TypeOK, PoolRespected, Arrive, Goto
<1>3. ASSUME NEW r \in Requests, RejectBody(r) PROVE PoolRespected'
  BY <1>0, <1>3 DEF TypeOK, PoolRespected, RejectBody, Raise
<1>4. ASSUME NEW r \in Requests, PoolTimeout(r) PROVE PoolRespected'
  BY <1>0, <1>4 DEF TypeOK, PoolRespected, PoolTimeout, Raise
<1>5. ASSUME NEW r \in Requests, HandlerRaises(r) PROVE PoolRespected'
  BY <1>0, <1>5 DEF TypeOK, PoolRespected, HandlerRaises, Raise
<1>6. ASSUME NEW r \in Requests, Respond(r) PROVE PoolRespected'
  BY <1>0, <1>6 DEF TypeOK, PoolRespected, Respond, Send, Goto
<1>7. ASSUME NEW r \in Requests, Commit(r) PROVE PoolRespected'
  BY <1>0, <1>7 DEF TypeOK, PoolRespected, Commit, Goto
<1>8. ASSUME NEW r \in Requests, CommitRaises(r) PROVE PoolRespected'
  BY <1>0, <1>8 DEF TypeOK, PoolRespected, CommitRaises, Raise
<1>9. ASSUME NEW r \in Requests, Rollback(r) PROVE PoolRespected'
  BY <1>0, <1>9 DEF TypeOK, PoolRespected, Rollback, Goto
<1>10. ASSUME NEW r \in Requests, RollbackRaises(r) PROVE PoolRespected'
  BY <1>0, <1>10 DEF TypeOK, PoolRespected, RollbackRaises, Goto
<1>11. ASSUME NEW r \in Requests, Close(r) PROVE PoolRespected'
  BY <1>0, <1>11 DEF TypeOK, PoolRespected, Close, SendError, Send, Goto
<1>12. ASSUME NEW r \in Requests, Reap(r) PROVE PoolRespected'
  BY <1>0, <1>12 DEF TypeOK, PoolRespected, Reap
<1>13. ASSUME NEW r \in Requests, NEW f \in Fields, InsertEntry(r, f)
      PROVE  PoolRespected'
  BY <1>0, <1>13 DEF TypeOK, PoolRespected, InsertEntry
<1>14. ASSUME NEW r \in Requests, NEW f \in Fields, Conflict(r, f)
      PROVE  PoolRespected'
  BY <1>0, <1>14 DEF TypeOK, PoolRespected, Conflict, Raise
<1>15. ASSUME NEW s \in Servers, Crash(s) PROVE PoolRespected'
  BY <1>0, <1>15 DEF TypeOK, PoolRespected, Crash, InUse
<1>16. CASE Terminating
  BY <1>0, <1>16 DEF PoolRespected, Terminating, vars
<1>17. CASE UNCHANGED vars
  BY <1>0, <1>17 DEF PoolRespected, vars
<1> QED
  BY <1>1, <1>2, <1>3, <1>4, <1>5, <1>6, <1>7, <1>8, <1>9, <1>10, <1>11, <1>12, <1>13, <1>14, <1>15, <1>16, <1>17 DEF Next, Progress

-------------------------------------------------------------------------------
(* The invariant, and the properties it implies *)

LEMMA InitInvariant == Init => IInv
<1> SUFFICES ASSUME Init PROVE IInv
  OBVIOUS
<1> USE DEF Init
<1>1. TypeOK
  BY DEF TypeOK, PCs, Answers
<1>2. Exclusive /\ ErrorStoresNothing
  BY DEF Exclusive, Owns, ErrorStoresNothing
<1>3. Phases /\ Grounded
  BY DEF Phases, Grounded, Fields
<1>4. PoolRespected
  <2>1. \A s \in Servers : InUse(s) = {}
    BY DEF InUse
  <2>2. Cardinality({}) <= PoolLimit
    BY FS_EmptySet, ConstantsAssumption
  <2>3. \A s \in Servers : Cardinality(InUse(s)) <= PoolLimit
    BY <2>1, <2>2
  <2> QED
    BY <2>3 DEF PoolRespected
<1> QED
  BY <1>1, <1>2, <1>3, <1>4 DEF IInv

(* Every reachable state satisfies the inductive invariant. *)
THEOREM Invariant == Spec => []IInv
<1>1. IInv /\ [Next]_vars => IInv'
  BY TypeStep, ExclusiveStep, PhasesStep, GroundedStep, StoredStep, PoolStep
     DEF IInv
<1> QED
  BY InitInvariant, <1>1, PTL DEF Spec

(* Every variable keeps its type. *)
THEOREM TypeCorrect == Spec => []TypeOK
<1>1. IInv => TypeOK
  BY DEF IInv
<1> QED
  BY Invariant, <1>1, PTL

(* Two committed users never share an email or a username. *)
THEOREM IdentityIsUnique == Spec => []UniqueIdentity
<1>1. ASSUME IInv PROVE UniqueIdentity
  <2> SUFFICES ASSUME NEW r \in committed, NEW q \in committed, r # q,
                      NEW f \in Fields
               PROVE  Lower[body[r][f]] # Lower[body[q][f]]
    BY DEF UniqueIdentity
  <2>1. TypeOK /\ r \in Requests /\ q \in Requests
    BY <1>1 DEF IInv, TypeOK
  <2>2. Key(r, f) # Key(q, f)
    BY <1>1, <2>1 DEF IInv, Exclusive, Owns
  <2> QED
    BY <2>1, <2>2, KeyIsFolded
<1> QED
  BY Invariant, <1>1, PTL

(* A 409 always has a committed row of another request behind it. *)
THEOREM ConflictsAreJustified == Spec => []ConflictJustified
<1>1. ASSUME IInv PROVE ConflictJustified
  <2> SUFFICES ASSUME NEW r \in Requests, NEW f \in Fields, answer[r] = f
               PROVE  \E q \in committed \ {r} :
                          Lower[body[q][f]] = Lower[body[r][f]]
    BY DEF ConflictJustified
  <2>1. PICK q \in committed \ {r} : Key(q, f) = Key(r, f)
    BY <1>1 DEF IInv, Grounded
  <2>2. TypeOK /\ q \in Requests
    BY <1>1, <2>1 DEF IInv, TypeOK
  <2> QED
    BY <2>1, <2>2, KeyIsFolded
<1> QED
  BY Invariant, <1>1, PTL

(* A response other than 201, or none, means no row, heard or not. *)
THEOREM ErrorsStoreNothing == Spec => []ErrorStoresNothing
<1>1. IInv => ErrorStoresNothing
  BY DEF IInv
<1> QED
  BY Invariant, <1>1, PTL

(* No pool is overdrawn and no ended request holds a connection. *)
THEOREM PoolIsRespected == Spec => []PoolRespected
<1>1. IInv => PoolRespected
  BY DEF IInv
<1> QED
  BY Invariant, <1>1, PTL

-------------------------------------------------------------------------------
(* Answers *)

(* No step changes an answer that has been given or removes a row. *)
THEOREM AnswersAreFinal == Spec => AnswerIsFinal
<1> DEFINE Final ==
        /\ \A r \in Requests : answer[r] # "none" =>
              /\ answer'[r] = answer[r]
              /\ r \in heard' <=> r \in heard
        /\ committed \subseteq committed'
<1>1. ASSUME IInv, Next PROVE Final
  <2>0. TypeOK /\ Phases
    BY <1>1 DEF IInv
  <2>1. ASSUME NEW r \in Requests, Respond(r) PROVE Final
    BY <2>0, <2>1 DEF TypeOK, Phases, Respond, Send, Goto
  <2>2. ASSUME NEW r \in Requests, Close(r) PROVE Final
    BY <2>0, <2>2 DEF TypeOK, Close, SendError, Send
  <2>3. ASSUME NEW r \in Requests, Commit(r) PROVE Final
    BY <2>3 DEF Commit
  <2>4. ASSUME NEW r \in Requests, CommitRaises(r) PROVE Final
    BY <2>4 DEF CommitRaises
  <2>5. CASE UNCHANGED <<committed, answer, heard>>
    BY <2>5
  <2> QED
    BY <1>1, <2>1, <2>2, <2>3, <2>4, <2>5
       DEF Next, Progress, Arrive, RejectBody, Checkout, PoolTimeout,
           InsertEntry, Conflict, HandlerRaises, Rollback, RollbackRaises,
           Reap, Crash, Terminating, vars
<1>2. IInv /\ [Next]_vars => [Final]_vars
  BY <1>1
<1> QED
  BY Invariant, <1>2, PTL DEF Spec, AnswerIsFinal

-------------------------------------------------------------------------------
(* Registration implements UserDirectory *)

(* What the clients have been told. *)
told == [r \in Requests |-> IF r \in heard THEN answer[r] ELSE "none"]

identities == [r \in Requests |-> [f \in Fields |-> Key(r, f)]]

LEMMA KeyType ==
    ASSUME TypeOK PROVE identities \in [Requests -> [Fields -> Spellings]]
<1>1. ASSUME NEW r \in Requests, NEW f \in Fields
      PROVE  Key(r, f) \in Spellings
  BY <1>1, KeyIsFolded, ConstantsAssumption DEF TypeOK
<1> QED
  BY <1>1 DEF identities

LEMMA IdentitiesUnchanged ==
    ASSUME UNCHANGED body PROVE UNCHANGED identities
BY DEF identities, Key, Row

(* Only whole identities are promised. *)
LEMMA PromiseOwnsAll ==
    ASSUME TypeOK, Phases, NEW q \in committed \cup Promises, NEW f \in Fields
    PROVE  q \in Requests /\ Owns(q, f)
BY DEF TypeOK, Phases, Promises, Owns

(* A response, heard or not, tells the client of its request or nobody. *)
LEMMA SendTells ==
    ASSUME TypeOK, NEW r \in Requests, NEW response \in Answers \ {"none"},
           answer[r] = "none", Send(r, response)
    PROVE  told' \in {told, [told EXCEPT ![r] = response]}
<1>1. r \notin heard
  BY DEF TypeOK
<1>2. CASE heard' = heard
  BY <1>1, <1>2 DEF Send, told, TypeOK
<1>3. CASE heard' = heard \cup {r}
  BY <1>1, <1>3 DEF Send, told, TypeOK
<1> QED
  BY <1>2, <1>3 DEF Send

(* A request for which nothing was sent has no promise and no row. *)
LEMMA SilenceIsUnanswered ==
    ASSUME IInv, NEW r \in Requests, answer[r] = "none"
    PROVE  Directory!Unanswered(r)
BY DEF IInv, ErrorStoresNothing, Promises, Directory!Unanswered

(* The 201 of r is a promise that clashes with no row and no promise. *)
LEMMA RespondPromises ==
    ASSUME IInv, NEW r \in Requests, Respond(r)
    PROVE  Directory!Promise(r)
<1>1. TypeOK /\ Phases /\ Exclusive
  BY DEF IInv
<1>2. answer[r] = "none" /\ entries[r] = Fields
  BY <1>1 DEF Respond, Goto, Phases
<1>3. /\ answer' = [answer EXCEPT ![r] = "created"]
      /\ UNCHANGED <<entries, committed, body>>
  BY DEF Respond, Send
<1>4. Promises' = Promises \cup {r}
  BY <1>1, <1>2, <1>3 DEF Promises, TypeOK, Fields
<1>5. Directory!Unanswered(r)
  BY <1>2, SilenceIsUnanswered
<1>6. r \notin committed \cup Promises
  BY <1>5 DEF Directory!Unanswered
<1>7. ASSUME NEW q \in committed \cup Promises, NEW f \in Fields
      PROVE  Key(r, f) # Key(q, f)
  BY <1>1, <1>2, <1>6, <1>7, PromiseOwnsAll DEF Exclusive, Owns
<1>8. \A q \in committed \cup Promises : ~Directory!Clash(r, q)
  BY <1>1, <1>7, PromiseOwnsAll DEF Directory!Clash
<1>9. UNCHANGED identities
  BY <1>3, IdentitiesUnchanged
<1>10. told' \in {told, [told EXCEPT ![r] = "created"]}
  BY <1>1, <1>2, SendTells DEF Respond, Answers
<1> QED
  BY <1>3, <1>4, <1>5, <1>8, <1>9, <1>10
     DEF Directory!Promise, identities, told

(* A row made visible keeps the promise of its 201. *)
LEMMA StoringKeepsPromise ==
    ASSUME IInv, NEW r \in Requests, pc[r] = "answered",
           committed' = committed \cup {r},
           entries' = [entries EXCEPT ![r] = {}],
           UNCHANGED <<body, answer, heard>>
    PROVE  Directory!Store(r)
<1>1. TypeOK /\ Phases
  BY DEF IInv
<1>2. r \in Promises
  BY <1>1 DEF Phases, Promises, Fields
<1>3. Promises' = Promises \ {r}
  BY <1>1 DEF Promises, TypeOK
<1>4. UNCHANGED identities
  BY IdentitiesUnchanged
<1> QED
  BY <1>2, <1>3, <1>4 DEF Directory!Store, identities, told

(* Entries that disappear without a row break the promise, if there is one. *)
LEMMA ForgettingBreaks ==
    ASSUME TypeOK, NEW r \in Requests,
           entries' = [entries EXCEPT ![r] = {}],
           UNCHANGED <<body, committed, answer, heard>>
    PROVE  Directory!Break(r) \/ UNCHANGED Directory!dirVars
<1>1. UNCHANGED identities
  BY IdentitiesUnchanged
<1>2. CASE r \in Promises
  <2>1. Promises' = Promises \ {r}
    BY DEF Promises, TypeOK
  <2> QED
    BY <1>1, <1>2, <2>1 DEF Directory!Break, identities, told
<1>3. CASE r \notin Promises
  <2>1. Promises' = Promises
    BY <1>3 DEF Promises, TypeOK
  <2> QED
    BY <1>1, <2>1 DEF Directory!dirVars, identities, told
<1> QED
  BY <1>2, <1>3

(* An error answer is a grounded refusal or a failure of the request's own. *)
LEMMA CloseAnswers ==
    ASSUME IInv, NEW r \in Requests, Close(r)
    PROVE  \/ \E f \in Fields : Directory!Refuse(r, f)
           \/ \E why \in Errors \ Fields : Directory!Fail(r, why)
           \/ UNCHANGED Directory!dirVars
<1>1. TypeOK /\ Grounded
  BY DEF IInv
<1>2. UNCHANGED <<body, committed, entries>> /\ SendError(r)
  BY DEF Close
<1>3. raised[r] \in {"none"} \cup Errors
  BY <1>1 DEF TypeOK
<1>4. Promises' = Promises
  BY <1>1, <1>2, <1>3 DEF Promises, TypeOK, Errors, SendError, Send
<1>5. UNCHANGED identities
  BY <1>2, IdentitiesUnchanged
<1>6. CASE UNCHANGED <<answer, heard>>
  <2>1. UNCHANGED told
    BY <1>6 DEF told
  <2> QED
    BY <1>2, <1>4, <1>5, <2>1 DEF Directory!dirVars, identities, told
<1>7. ASSUME NEW e \in Errors, raised[r] = e, answer[r] = "none", Send(r, e)
      PROVE  \/ \E f \in Fields : Directory!Refuse(r, f)
             \/ \E why \in Errors \ Fields : Directory!Fail(r, why)
             \/ UNCHANGED Directory!dirVars
  <2>1. Directory!Unanswered(r)
    BY <1>7, SilenceIsUnanswered
  <2>2. CASE told' = told
    BY <1>2, <1>4, <1>5, <2>2 DEF Directory!dirVars, identities, told
  <2>3. CASE e \in Fields /\ told' = [told EXCEPT ![r] = e]
    <3>1. PICK q \in committed \ {r} : Key(q, e) = Key(r, e)
      BY <1>1, <1>7, <2>3 DEF Grounded
    <3>2. q \in Requests
      BY <1>1, <3>1 DEF TypeOK
    <3>3. Directory!Refuse(r, e)
      BY <1>2, <1>4, <1>5, <2>1, <2>3, <3>1, <3>2
         DEF Directory!Refuse, identities, told
    <3> QED
      BY <2>3, <3>3
  <2>4. CASE e \in Errors \ Fields /\ told' = [told EXCEPT ![r] = e]
    <3>1. Directory!Fail(r, e)
      BY <1>2, <1>4, <1>5, <2>1, <2>4 DEF Directory!Fail, identities, told
    <3> QED
      BY <2>4, <3>1
  <2>5. told' \in {told, [told EXCEPT ![r] = e]}
    BY <1>1, <1>7, SendTells DEF Errors, Answers
  <2> QED
    BY <1>7, <2>2, <2>3, <2>4, <2>5
<1> QED
  BY <1>2, <1>3, <1>6, <1>7 DEF SendError

(* A step that only touches a request without an answer is invisible. *)
LEMMA Invisible ==
    ASSUME TypeOK, NEW r \in Requests, answer[r] = "none",
           \A q \in Requests \ {r} : entries'[q] = entries[q],
           UNCHANGED <<body, committed, answer, heard>>
    PROVE  UNCHANGED Directory!dirVars
<1>1. Promises' = Promises
  BY DEF Promises
<1>2. UNCHANGED identities
  BY IdentitiesUnchanged
<1> QED
  BY <1>1, <1>2 DEF Directory!dirVars, identities, told

LEMMA DirectoryStep ==
    IInv /\ [Next]_vars => [Directory!Next]_(Directory!dirVars)
<1> SUFFICES ASSUME IInv, [Next]_vars
             PROVE  Directory!Next \/ UNCHANGED Directory!dirVars
  OBVIOUS
<1>0. TypeOK /\ Phases
  BY DEF IInv
<1> USE DEF Directory!Next
<1>1. ASSUME NEW r \in Requests, Respond(r)
      PROVE  Directory!Next \/ UNCHANGED Directory!dirVars
  BY <1>1, RespondPromises
<1>2. ASSUME NEW r \in Requests, Commit(r)
      PROVE  Directory!Next \/ UNCHANGED Directory!dirVars
  <2>1. Directory!Store(r)
    BY <1>2, StoringKeepsPromise DEF Commit, Goto
  <2> QED
    BY <2>1
<1>3. ASSUME NEW r \in Requests, CommitRaises(r)
      PROVE  Directory!Next \/ UNCHANGED Directory!dirVars
  <2>1. CASE /\ committed' = committed \cup {r}
             /\ entries' = [entries EXCEPT ![r] = {}]
    <3>1. Directory!Store(r)
      BY <1>3, <2>1, StoringKeepsPromise DEF CommitRaises
    <3> QED
      BY <3>1
  <2>2. CASE UNCHANGED <<committed, entries>>
    <3>1. UNCHANGED <<body, committed, answer, heard, entries>>
      BY <1>3, <2>2 DEF CommitRaises
    <3>2. UNCHANGED identities /\ UNCHANGED Promises
      BY <3>1, IdentitiesUnchanged DEF Promises
    <3> QED
      BY <3>1, <3>2 DEF Directory!dirVars, identities, told
  <2> QED
    BY <1>3, <2>1, <2>2 DEF CommitRaises
<1>4. ASSUME NEW r \in Requests, Rollback(r) \/ Reap(r)
      PROVE  Directory!Next \/ UNCHANGED Directory!dirVars
  <2>1. Directory!Break(r) \/ UNCHANGED Directory!dirVars
    BY <1>0, <1>4, ForgettingBreaks DEF Rollback, Reap
  <2> QED
    BY <2>1
<1>5. ASSUME NEW r \in Requests, Close(r)
      PROVE  Directory!Next \/ UNCHANGED Directory!dirVars
  BY <1>5, CloseAnswers
<1>6. ASSUME NEW r \in Requests, NEW f \in Fields,
             InsertEntry(r, f) \/ Conflict(r, f)
      PROVE  UNCHANGED Directory!dirVars
  <2>1. answer[r] = "none"
    BY <1>0, <1>6 DEF Phases, InsertEntry, Conflict
  <2>2. /\ \A q \in Requests \ {r} : entries'[q] = entries[q]
        /\ UNCHANGED <<body, committed, answer, heard>>
    BY <1>0, <1>6 DEF TypeOK, InsertEntry, Conflict
  <2> QED
    BY <1>0, <2>1, <2>2, Invisible
<1>7. CASE UNCHANGED <<body, entries, committed, answer, heard>>
  <2>1. UNCHANGED identities /\ UNCHANGED Promises
    BY <1>7, IdentitiesUnchanged DEF Promises
  <2> QED
    BY <1>7, <2>1 DEF Directory!dirVars, identities, told
<1> QED
  BY <1>1, <1>2, <1>3, <1>4, <1>5, <1>6, <1>7
     DEF Next, Progress, Arrive, RejectBody, Checkout, PoolTimeout,
         HandlerRaises, RollbackRaises, Crash, Terminating, vars

(* The registration service implements the directory of promises. *)
THEOREM Refinement == Spec => ImplementsDirectory
<1>1. ASSUME Init PROVE Directory!Init
  <2>1. TypeOK
    BY <1>1, InitInvariant DEF IInv
  <2>2. Promises = {}
    BY <1>1 DEF Init, Promises
  <2> QED
    BY <1>1, <2>1, <2>2, KeyType DEF Init, Directory!Init, identities, told
<1> QED
  BY Invariant, <1>1, DirectoryStep, PTL
     DEF Spec, ImplementsDirectory, Directory!Spec
===============================================================================
