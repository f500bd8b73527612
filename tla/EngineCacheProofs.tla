-------------------------- MODULE EngineCacheProofs --------------------------
(***************************************************************************)
(* What the unlocked engine cache guarantees for any number of threads and *)
(* calls and any settings, in the two uses it is made for.                 *)
(***************************************************************************)
EXTENDS EngineCache, FiniteSetTheorems, SequenceTheorems, TLAPS

Opening == {"look", "compare", "dispose", "create", "setKey", "return"}
Clearing == {"clearDispose", "forget", "forgetKey"}

(* Only threads and keys of this use are about. *)
InUse ==
    /\ \A t \in Threads :
          /\ pc[t] # "idle" => t \in use.threads
          /\ pc[t] \in Opening => want[t] \in use.keys
    /\ cacheKey \in use.keys \cup {None}
    /\ \A e \in Engines : built[e] \in use.keys
    /\ \A i \in DOMAIN returns : returns[i].key \in use.keys \cup {None}

Returned ==
    \A i \in DOMAIN returns : returns[i].key # None =>
        returns[i].engine # 0 /\ built[returns[i].engine] = returns[i].key

(* One thread: the cached engine has the cached key, except between the    *)
(* two assignments, and no other engine is left when a new one is made or  *)
(* the cached one forgotten.                                               *)
AloneAt(t) ==
    /\ pc[t] \in {"compare", "dispose", "clearDispose", "setKey", "return"} =>
          cached # 0
    /\ pc[t] \in {"create", "forget"} => Engines \subseteq disposed
    /\ pc[t] = "forgetKey" => cached = 0
    /\ pc[t] = "setKey" => built[cached] = want[t]
    /\ pc[t] = "return" => cacheKey = want[t]

Alone ==
    /\ Engines \ disposed \subseteq {cached}
    /\ \/ cached # 0 => built[cached] = cacheKey
       \/ \E t \in Threads : pc[t] = "setKey"
    /\ \A t \in Threads : AloneAt(t)

(* One setting: until the key is set, each engine belongs to a thread that *)
(* is about to set it; from then on nobody becomes a builder any more, and *)
(* every builder yet to build has not built before.                        *)
Setters == {t \in Threads : pc[t] = "setKey"}
Spent == {t \in use.threads : pc[t] \notin {"dispose", "create"}}

SharedAt(t) ==
    /\ pc[t] \notin Clearing
    /\ pc[t] \in {"compare", "dispose", "setKey", "return"} => cached # 0

Counted ==
    IF cacheKey = None THEN Len(built) = Cardinality(Setters)
                       ELSE Len(built) <= Cardinality(Spent)

Shared ==
    /\ \A t \in Threads : SharedAt(t)
    /\ cacheKey # None => cached # 0
    /\ Counted

IInv ==
    /\ TypeOK
    /\ InUse
    /\ Sequential => Alone
    /\ OneSetting => Shared
    /\ Sequential \/ OneSetting => Returned

-------------------------------------------------------------------------------
(* Helpers *)

LEMMA AtMostOne ==
    ASSUME NEW S, IsFiniteSet(S), Cardinality(S) <= 1, NEW x \in S, NEW y \in S
    PROVE  x = y
<1>1. IsFiniteSet({x}) /\ Cardinality({x}) = 1
  BY FS_Singleton
<1>2. Cardinality({x}) <= Cardinality(S) /\ (Cardinality(S) = Cardinality({x}) => S = {x})
  BY FS_Subset
<1>3. Cardinality(S) \in Nat
  BY FS_CardinalityType
<1> QED
  BY <1>1, <1>2, <1>3

(* The use of a process never changes, and is one of Uses. *)
LEMMA UseTypes ==
    ASSUME TypeOK
    PROVE  /\ use.threads \subseteq Threads /\ IsFiniteSet(use.threads)
           /\ use.keys \subseteq Keys /\ IsFiniteSet(use.keys)
           /\ use.clears \in BOOLEAN
<1>1. use \in [threads: SUBSET Threads, keys: SUBSET Keys, clears: BOOLEAN]
  BY CacheAssumption DEF TypeOK
<1>2. use.threads \subseteq Threads /\ use.keys \subseteq Keys /\ use.clears \in BOOLEAN
  BY <1>1
<1> QED
  BY <1>2, CacheAssumption, FS_Subset

LEMMA UseFixed ==
    ASSUME [Next]_vars
    PROVE  use' = use
BY DEF Next, Terminating, vars, Call, Look, Compare, Dispose, Create, CreateRaises,
    SetKey, Return, Clear, ClearDispose, Forget, ForgetKey, Begin, Test, Step,
    DisposeCached, Finish, Goto

-------------------------------------------------------------------------------
(* Types *)

LEMMA TypeStep ==
    ASSUME TypeOK, InUse, [Next]_vars
    PROVE  TypeOK'
<1> USE DEF TypeOK, cache, engines, Engines
<1>1. ASSUME NEW t \in Threads, NEW k \in Keys, Call(t, k)
      PROVE  TypeOK'
  BY <1>1, CacheAssumption DEF Call, Begin, Goto
<1>2. ASSUME NEW t \in Threads, Look(t)
      PROVE  TypeOK'
  BY <1>2, CacheAssumption DEF Look, Test, Step, Goto
<1>3. ASSUME NEW t \in Threads, Compare(t)
      PROVE  TypeOK'
  BY <1>3, CacheAssumption DEF Compare, Test, Step, Goto
<1>4. ASSUME NEW t \in Threads, Dispose(t)
      PROVE  TypeOK'
  BY <1>4, CacheAssumption DEF Dispose, DisposeCached, Step, Goto
<1>5. ASSUME NEW t \in Threads, Create(t)
      PROVE  TypeOK'
  <2>1. /\ pc[t] = "create" /\ built' = Append(built, want[t])
        /\ returns' = returns /\ cached' = Len(built) + 1 /\ disposed' = disposed
    BY <1>5 DEF Create, Step, Goto
  <2>2. want[t] \in Keys
    BY <2>1, UseTypes DEF InUse, Opening
  <2>3. built' \in Seq(Keys) /\ Len(built') = Len(built) + 1
    BY <2>1, <2>2
  <2>4. returns' \in Seq([key: Keys \cup {None}, engine: 0..Len(built')])
    <3>1. [key: Keys \cup {None}, engine: 0..Len(built)]
            \subseteq [key: Keys \cup {None}, engine: 0..Len(built')]
      BY <2>3
    <3>2. returns \in Seq([key: Keys \cup {None}, engine: 0..Len(built')])
      BY <3>1, SeqMonotonic
    <3> QED
      BY <2>1, <3>2
  <2>5. cached' \in 0..Len(built') /\ disposed' \subseteq 1..Len(built')
    BY <2>1, <2>3
  <2>6. /\ pc' = [pc EXCEPT ![t] = "setKey"]
        /\ UNCHANGED <<cacheKey, want, calls, use>>
    BY <1>5 DEF Create, Step, Goto
  <2> QED
    BY <2>3, <2>4, <2>5, <2>6
<1>6. ASSUME NEW t \in Threads, CreateRaises(t)
      PROVE  TypeOK'
  BY <1>6, CacheAssumption DEF CreateRaises, Test, Step, Goto
<1>7. ASSUME NEW t \in Threads, SetKey(t)
      PROVE  TypeOK'
  BY <1>7, CacheAssumption DEF SetKey, Step, Goto
<1>8. ASSUME NEW t \in Threads, Return(t)
      PROVE  TypeOK'
  BY <1>8 DEF Return, Finish, Step, Goto
<1>9. ASSUME NEW t \in Threads, Clear(t)
      PROVE  TypeOK'
  BY <1>9, CacheAssumption DEF Clear, Begin, Goto
<1>10. ASSUME NEW t \in Threads, ClearDispose(t)
      PROVE  TypeOK'
  BY <1>10, CacheAssumption DEF ClearDispose, DisposeCached, Step, Goto
<1>11. ASSUME NEW t \in Threads, Forget(t)
      PROVE  TypeOK'
  BY <1>11, CacheAssumption DEF Forget, Step, Goto
<1>12. ASSUME NEW t \in Threads, ForgetKey(t)
      PROVE  TypeOK'
  BY <1>12 DEF ForgetKey, Finish, Step, Goto
<1>13. CASE UNCHANGED vars
  BY <1>13 DEF vars
<1> QED
  BY <1>1, <1>2, <1>3, <1>4, <1>5, <1>6, <1>7, <1>8, <1>9, <1>10, <1>11, <1>12, <1>13 DEF Next, Terminating

-------------------------------------------------------------------------------
(* Threads and keys of this use *)

LEMMA InUseStep ==
    ASSUME TypeOK, InUse, [Next]_vars
    PROVE  InUse'
<1> USE DEF InUse, TypeOK, cache, engines, Engines, Opening
<1>1. ASSUME NEW t \in Threads, NEW k \in Keys, Call(t, k)
      PROVE  InUse'
  BY <1>1 DEF Call, Begin, Goto
<1>2. ASSUME NEW t \in Threads, Look(t)
      PROVE  InUse'
  BY <1>2 DEF Look, Test, Step, Goto
<1>3. ASSUME NEW t \in Threads, Compare(t)
      PROVE  InUse'
  BY <1>3 DEF Compare, Test, Step, Goto
<1>4. ASSUME NEW t \in Threads, Dispose(t)
      PROVE  InUse'
  BY <1>4 DEF Dispose, DisposeCached, Step, Goto
<1>5. ASSUME NEW t \in Threads, Create(t)
      PROVE  InUse'
  BY <1>5 DEF Create, Step, Goto
<1>6. ASSUME NEW t \in Threads, CreateRaises(t)
      PROVE  InUse'
  BY <1>6 DEF CreateRaises, Test, Step, Goto
<1>7. ASSUME NEW t \in Threads, SetKey(t)
      PROVE  InUse'
  BY <1>7 DEF SetKey, Step, Goto
<1>8. ASSUME NEW t \in Threads, Return(t)
      PROVE  InUse'
  BY <1>8 DEF Return, Finish, Step, Goto
<1>9. ASSUME NEW t \in Threads, Clear(t)
      PROVE  InUse'
  BY <1>9 DEF Clear, Begin, Goto
<1>10. ASSUME NEW t \in Threads, ClearDispose(t)
      PROVE  InUse'
  BY <1>10 DEF ClearDispose, DisposeCached, Step, Goto
<1>11. ASSUME NEW t \in Threads, Forget(t)
      PROVE  InUse'
  BY <1>11 DEF Forget, Step, Goto
<1>12. ASSUME NEW t \in Threads, ForgetKey(t)
      PROVE  InUse'
  BY <1>12 DEF ForgetKey, Finish, Step, Goto
<1>13. CASE UNCHANGED vars
  BY <1>13 DEF vars
<1> QED
  BY <1>1, <1>2, <1>3, <1>4, <1>5, <1>6, <1>7, <1>8, <1>9, <1>10, <1>11, <1>12, <1>13 DEF Next, Terminating

-------------------------------------------------------------------------------
(* One thread *)

(* A thread that steps is the only one that is in a call, before and after. *)
LEMMA OnlyOne ==
    ASSUME TypeOK, InUse, Sequential, NEW t \in Threads, NEW q \in Threads,
           t \in use.threads, pc[q] # "idle"
    PROVE  q = t
BY UseTypes, AtMostOne DEF InUse, Sequential

LEMMA AloneStep ==
    ASSUME TypeOK, InUse, Sequential, Alone, [Next]_vars
    PROVE  Alone'
<1> USE DEF TypeOK, cache, engines, Engines, Alone, AloneAt
<1>0. ASSUME NEW t \in Threads, pc[t] # "idle"
      PROVE  \A q \in Threads : pc[q] = "idle" \/ q = t
  BY <1>0, OnlyOne DEF InUse
<1>1. ASSUME NEW t \in Threads, NEW k \in Keys, Call(t, k)
      PROVE  Alone'
  BY <1>1, OnlyOne DEF Call, Begin, Goto
<1>2. ASSUME NEW t \in Threads, Look(t)
      PROVE  Alone'
  BY <1>2, <1>0 DEF Look, Test, Step, Goto
<1>3. ASSUME NEW t \in Threads, Compare(t)
      PROVE  Alone'
  BY <1>3, <1>0 DEF Compare, Test, Step, Goto
<1>4. ASSUME NEW t \in Threads, Dispose(t)
      PROVE  Alone'
  BY <1>4, <1>0 DEF Dispose, DisposeCached, Step, Goto
<1>5. ASSUME NEW t \in Threads, Create(t)
      PROVE  Alone'
  BY <1>5, <1>0 DEF Create, Step, Goto
<1>6. ASSUME NEW t \in Threads, CreateRaises(t)
      PROVE  Alone'
  BY <1>6, <1>0 DEF CreateRaises, Test, Step, Goto
<1>7. ASSUME NEW t \in Threads, SetKey(t)
      PROVE  Alone'
  BY <1>7, <1>0 DEF SetKey, Step, Goto
<1>8. ASSUME NEW t \in Threads, Return(t)
      PROVE  Alone'
  BY <1>8, <1>0 DEF Return, Finish, Step, Goto
<1>9. ASSUME NEW t \in Threads, Clear(t)
      PROVE  Alone'
  BY <1>9, OnlyOne DEF Clear, Begin, Goto
<1>10. ASSUME NEW t \in Threads, ClearDispose(t)
      PROVE  Alone'
  BY <1>10, <1>0 DEF ClearDispose, DisposeCached, Step, Goto
<1>11. ASSUME NEW t \in Threads, Forget(t)
      PROVE  Alone'
  BY <1>11, <1>0 DEF Forget, Step, Goto
<1>12. ASSUME NEW t \in Threads, ForgetKey(t)
      PROVE  Alone'
  BY <1>12, <1>0 DEF ForgetKey, Finish, Step, Goto
<1>13. CASE UNCHANGED vars
  BY <1>13 DEF vars
<1> QED
  BY <1>1, <1>2, <1>3, <1>4, <1>5, <1>6, <1>7, <1>8, <1>9, <1>10, <1>11, <1>12, <1>13 DEF Next, Terminating

-------------------------------------------------------------------------------
(* One setting *)

LEMMA SameKey ==
    ASSUME TypeOK, OneSetting, NEW k \in use.keys, NEW l \in use.keys
    PROVE  k = l
BY UseTypes, AtMostOne DEF OneSetting

LEMMA Counts ==
    ASSUME TypeOK, InUse
    PROVE  /\ IsFiniteSet(Setters) /\ Cardinality(Setters) \in Nat
           /\ IsFiniteSet(Spent) /\ Cardinality(Spent) \in Nat
           /\ Setters \subseteq Spent /\ Cardinality(Setters) <= Cardinality(Spent)
           /\ Cardinality(Spent) <= Cardinality(use.threads)
           /\ Cardinality(use.threads) \in Nat
<1>1. Setters \subseteq Spent
  BY DEF Setters, Spent, InUse
<1>2. Spent \subseteq use.threads
  BY DEF Spent
<1> QED
  BY <1>1, <1>2, UseTypes, FS_Subset, FS_CardinalityType

(* A step that builds nothing and sets no key leaves the count as it is,   *)
(* unless the key is set and somebody becomes a builder.                   *)
LEMMA CountKept ==
    ASSUME TypeOK, InUse, Counted, UNCHANGED <<built, cacheKey>>,
           Setters' = Setters, Spent' \subseteq use.threads,
           cacheKey # None => Spent \subseteq Spent'
    PROVE  Counted'
<1>1. CASE cacheKey = None
  BY <1>1 DEF Counted
<1>2. CASE cacheKey # None
  <2>1. IsFiniteSet(Spent') /\ Cardinality(Spent) <= Cardinality(Spent')
    BY <1>2, UseTypes, FS_Subset
  <2>2. Cardinality(Spent') \in Nat /\ Len(built) \in Nat
    BY <2>1, FS_CardinalityType DEF TypeOK
  <2> QED
    BY <1>2, <2>1, <2>2, Counts DEF Counted
<1> QED
  BY <1>1, <1>2

LEMMA CountBuilt ==
    ASSUME TypeOK, InUse, Counted, NEW t \in use.threads,
           pc[t] = "create", pc' = [pc EXCEPT ![t] = "setKey"],
           UNCHANGED <<cacheKey, use>>, Len(built') = Len(built) + 1
    PROVE  Counted'
<1>0. t \in Threads /\ use.threads \subseteq Threads
  BY UseTypes
<1>1. Setters' = Setters \cup {t} /\ t \notin Setters
  BY <1>0 DEF Setters, TypeOK
<1>2. Spent' = Spent \cup {t} /\ t \notin Spent
  BY <1>0 DEF Spent, TypeOK
<1>3. /\ Cardinality(Setters') = Cardinality(Setters) + 1
      /\ Cardinality(Spent') = Cardinality(Spent) + 1
  BY <1>1, <1>2, Counts, FS_AddElement
<1> QED
  BY <1>3, Counts DEF Counted, TypeOK

LEMMA SharedStep ==
    ASSUME TypeOK, InUse, OneSetting, Shared, [Next]_vars
    PROVE  Shared'
<1>0. use.threads \subseteq Threads /\ use' = use
  BY UseTypes, UseFixed
<1> USE DEF TypeOK, cache, engines, Engines, Shared, SharedAt, Clearing
<1>1. ASSUME NEW t \in Threads, NEW k \in Keys, Call(t, k)
      PROVE  Shared'
  <2>1. Counted'
    BY <1>0, <1>1, CountKept DEF Call, Begin, Goto, Setters, Spent
  <2> QED
    BY <1>1, <2>1 DEF Call, Begin, Goto
<1>2. ASSUME NEW t \in Threads, Look(t)
      PROVE  Shared'
  <2>1. Counted'
    BY <1>0, <1>2, CountKept DEF Look, Test, Step, Goto, Setters, Spent
  <2> QED
    BY <1>2, <2>1 DEF Look, Test, Step, Goto
<1>3. ASSUME NEW t \in Threads, Compare(t)
      PROVE  Shared'
  <2>1. cacheKey # None => cacheKey = want[t]
    BY <1>3, SameKey DEF Compare, Test, Step, Goto, InUse, Opening
  <2>2. Counted'
    BY <1>0, <1>3, <2>1, CountKept DEF Compare, Test, Step, Goto, Setters, Spent
  <2> QED
    BY <1>3, <2>2 DEF Compare, Test, Step, Goto
<1>4. ASSUME NEW t \in Threads, Dispose(t)
      PROVE  Shared'
  <2>1. Counted'
    BY <1>0, <1>4, CountKept DEF Dispose, DisposeCached, Step, Goto, Setters, Spent
  <2> QED
    BY <1>4, <2>1 DEF Dispose, DisposeCached, Step, Goto
<1>5. ASSUME NEW t \in Threads, Create(t)
      PROVE  Shared'
  <2>1. t \in use.threads
    BY <1>5 DEF Create, Step, Goto, InUse
  <2>2. want[t] \in Keys
    BY <1>5, <1>0, UseTypes DEF Create, Step, Goto, InUse, Opening
  <2>3. Len(built') = Len(built) + 1
    BY <1>5, <2>2 DEF Create
  <2>4. Counted'
    BY <1>5, <2>1, <2>3, CountBuilt DEF Create, Step, Goto
  <2> QED
    BY <1>5, <2>4 DEF Create, Step, Goto
<1>6. ASSUME NEW t \in Threads, CreateRaises(t)
      PROVE  Shared'
  <2>1. t \in use.threads
    BY <1>6 DEF CreateRaises, Test, Step, Goto, InUse
  <2>2. Counted'
    BY <1>0, <1>6, <2>1, CountKept DEF CreateRaises, Test, Step, Goto, Setters, Spent
  <2> QED
    BY <1>6, <2>2 DEF CreateRaises, Test, Step, Goto
<1>7. ASSUME NEW t \in Threads, SetKey(t)
      PROVE  Shared'
  <2>1. want[t] # None
    BY <1>7, UseTypes, CacheAssumption DEF SetKey, Step, Goto, InUse, Opening
  <2>2. Spent' = Spent
    BY <1>0, <1>7 DEF SetKey, Step, Goto, Spent
  <2>3. Len(built) <= Cardinality(Spent)
    BY Counts DEF Counted
  <2>4. Counted'
    BY <1>7, <2>1, <2>2, <2>3 DEF SetKey, Counted
  <2> QED
    BY <1>7, <2>4 DEF SetKey, Step, Goto
<1>8. ASSUME NEW t \in Threads, Return(t)
      PROVE  Shared'
  <2>1. Counted'
    BY <1>0, <1>8, CountKept DEF Return, Finish, Step, Goto, Setters, Spent
  <2> QED
    BY <1>8, <2>1 DEF Return, Finish, Step, Goto
<1>9. ASSUME NEW t \in Threads,
             Clear(t) \/ ClearDispose(t) \/ Forget(t) \/ ForgetKey(t)
      PROVE  Shared'
  BY <1>9 DEF OneSetting, Clear, ClearDispose, DisposeCached, Forget, ForgetKey,
    Finish, Step, Goto
<1>10. CASE UNCHANGED vars
  BY <1>10 DEF vars, Counted, Setters, Spent
<1> QED
  BY <1>1, <1>2, <1>3, <1>4, <1>5, <1>6, <1>7, <1>8, <1>9, <1>10 DEF Next, Terminating

-------------------------------------------------------------------------------
(* What calls returned *)

(* The engine a thread is about to return was built for its settings.      *)
LEMMA AboutToReturn ==
    ASSUME IInv, Sequential \/ OneSetting, NEW t \in Threads, pc[t] = "return"
    PROVE  cached \in Engines /\ built[cached] = want[t]
<1>1. CASE Sequential
  <2>1. \A q \in Threads : pc[q] # "setKey"
    BY <1>1, OnlyOne DEF IInv, InUse
  <2> QED
    BY <1>1, <2>1 DEF IInv, Alone, AloneAt, TypeOK, Engines
<1>2. CASE OneSetting
  <2>1. cached \in Engines
    BY <1>2 DEF IInv, Shared, SharedAt, TypeOK, Engines
  <2>2. built[cached] \in use.keys /\ want[t] \in use.keys
    BY <2>1 DEF IInv, InUse, Opening
  <2> QED
    BY <1>2, <2>1, <2>2, SameKey DEF IInv
<1> QED
  BY <1>1, <1>2

LEMMA ReturnTypes ==
    ASSUME TypeOK, NEW i \in DOMAIN returns
    PROVE  returns[i].engine \in 0..Len(built)
<1> DEFINE Returns == [key: Keys \cup {None}, engine: 0..Len(built)]
<1>1. returns \in Seq(Returns)
  BY DEF TypeOK
<1> HIDE DEF Returns
<1>2. returns[i] \in Returns
  BY <1>1, ElementOfSeq, LenProperties
<1> QED
  BY <1>2 DEF Returns

LEMMA ReturnedStep ==
    ASSUME IInv, Sequential \/ OneSetting, [Next]_vars
    PROVE  Returned'
<1> USE DEF IInv, TypeOK, cache, engines, Engines, Returned
<1>1. ASSUME NEW t \in Threads, NEW k \in Keys, Call(t, k)
      PROVE  Returned'
  BY <1>1 DEF Call, Begin, Goto
<1>2. ASSUME NEW t \in Threads, Create(t)
      PROVE  Returned'
  <2>1. built' = Append(built, want[t]) /\ returns' = returns /\ want[t] \in Keys
    BY <1>2, UseTypes DEF Create, Step, Goto, InUse, Opening
  <2>2. \A e \in 1..Len(built) : built'[e] = built[e]
    BY <2>1
  <2>3. \A i \in DOMAIN returns : returns[i].engine \in 0..Len(built)
    BY ReturnTypes
  <2> QED
    BY <2>1, <2>2, <2>3
<1>3. ASSUME NEW t \in Threads, Return(t)
      PROVE  Returned'
  <2>1. cached \in Engines /\ built[cached] = want[t]
    BY <1>3, AboutToReturn DEF Return, Finish, Step, Goto
  <2>2. /\ returns' = Append(returns, [key |-> want[t], engine |-> cached])
        /\ built' = built
    BY <1>3 DEF Return, Finish
  <2> QED
    BY <2>1, <2>2
<1>4. ASSUME NEW t \in Threads, ForgetKey(t)
      PROVE  Returned'
  BY <1>4 DEF ForgetKey, Finish, Step, Goto
<1>5. ASSUME NEW t \in Threads,
             \/ Look(t) \/ Compare(t) \/ Dispose(t) \/ CreateRaises(t) \/ SetKey(t)
             \/ Clear(t) \/ ClearDispose(t) \/ Forget(t)
      PROVE  Returned'
  BY <1>5 DEF Look, Compare, Dispose, CreateRaises, SetKey, Clear, ClearDispose,
    Forget, Begin, Test, DisposeCached, Step, Goto
<1>6. CASE UNCHANGED vars
  BY <1>6 DEF vars
<1> QED
  BY <1>1, <1>2, <1>3, <1>4, <1>5, <1>6 DEF Next, Terminating

-------------------------------------------------------------------------------
(* The invariant holds: initially, and after every step. *)

LEMMA Begins == Init => IInv
<1> SUFFICES ASSUME Init
             PROVE  IInv
  OBVIOUS
<1>1. TypeOK
  BY CacheAssumption DEF Init, TypeOK, Engines
<1>2. InUse /\ Returned
  BY DEF Init, InUse, Returned, Opening, Engines
<1>3. Alone
  BY DEF Init, Alone, AloneAt, Engines
<1>4. Shared
  <2>1. Setters = {}
    BY DEF Init, Setters
  <2>2. Len(built) = 0
    BY DEF Init
  <2> QED
    BY <2>1, <2>2, FS_EmptySet DEF Init, Shared, SharedAt, Clearing, Counted
<1> QED
  BY <1>1, <1>2, <1>3, <1>4 DEF IInv

LEMMA Continues == IInv /\ [Next]_vars => IInv'
<1> SUFFICES ASSUME IInv, [Next]_vars
             PROVE  IInv'
  OBVIOUS
<1>1. TypeOK' /\ InUse'
  BY TypeStep, InUseStep DEF IInv
<1>2. (Sequential' <=> Sequential) /\ (OneSetting' <=> OneSetting)
  BY UseFixed DEF Sequential, OneSetting
<1>3. Sequential => Alone'
  BY AloneStep DEF IInv
<1>4. OneSetting => Shared'
  BY SharedStep DEF IInv
<1>5. Sequential \/ OneSetting => Returned'
  BY ReturnedStep
<1> QED
  BY <1>1, <1>2, <1>3, <1>4, <1>5 DEF IInv

(* The inductive invariant: if calls do not overlap, key and engine in the *)
(* cache agree between calls; with one set of settings, each engine has a  *)
(* thread of its own that built it.                                        *)
THEOREM Invariant == Spec => []IInv
BY Begins, Continues, PTL DEF Spec

(* Every variable keeps its type: a key that is asked for is one of this   *)
(* process, and the cached engine is one that was built.                   *)
THEOREM TypeCorrect == Spec => []TypeOK
<1>1. IInv => TypeOK
  BY DEF IInv
<1> QED
  BY <1>1, Invariant, PTL

(* A caller gets an engine built for the settings it asked for             *)
(* (_managed_engine), for any number of calls, if threads do not overlap   *)
(* or if all use the same settings and nobody clears the cache.            *)
THEOREM CallersGetTheirEngine == Spec => []RightEngine
<1>1. IInv => RightEngine
  BY DEF IInv, RightEngine, Returned
<1> QED
  BY <1>1, Invariant, PTL

(* As long as calls do not overlap, every engine that was swapped or       *)
(* cleared has been disposed of (_managed_engine, clear_engine_cache).     *)
THEOREM SwappedEnginesDisposed == Spec => []StaleEnginesDisposed
<1>1. IInv => StaleEnginesDisposed
  BY DEF IInv, StaleEnginesDisposed, NoEngineLost, Alone
<1> QED
  BY <1>1, Invariant, PTL

(* With one set of settings, a race of first uses builds at most one       *)
(* engine per thread, however many calls follow.                           *)
THEOREM RacersBuildOneEach == Spec => []RaceIsBounded
<1>1. ASSUME IInv, OneSetting
      PROVE  Len(built) <= Cardinality(use.threads)
  BY <1>1, Counts DEF IInv, Shared, Counted, TypeOK
<1>2. IInv => RaceIsBounded
  BY <1>1 DEF RaceIsBounded
<1> QED
  BY <1>2, Invariant, PTL
===============================================================================
