----------------------------- MODULE EngineCache -----------------------------
(***************************************************************************)
(* The engine cache of app.core.database: two module globals that          *)
(* _managed_engine and clear_engine_cache read and write without a lock.   *)
(* get_db is a plain generator, so every request runs it in a thread of    *)
(* the pool; each step below is one access to a global, or one call on an  *)
(* engine, and threads interleave between any two of them.                 *)
(***************************************************************************)
EXTENDS Naturals, Sequences, FiniteSets

CONSTANTS
    Threads,    \* threads that open sessions
    Keys,       \* (database URL, app_debug) pairs asked for
    BadKeys,    \* those whose URL create_engine refuses
    Uses,       \* ways to use the cache: threads, settings, and clearing or not
    None,       \* Python's None
    MaxCalls    \* bound: calls that have begun

ASSUME CacheAssumption ==
    /\ IsFiniteSet(Threads) /\ IsFiniteSet(Keys)
    /\ BadKeys \subseteq Keys
    /\ Uses \subseteq [threads: SUBSET Threads, keys: SUBSET Keys,
                      clears: BOOLEAN]
    /\ None \notin Keys
    /\ MaxCalls \in Nat

VARIABLES
    cacheKey,   \* _engine_cache_key
    cached,     \* _engine_cache_instance: 0 for None, or an engine's number
    built,      \* built[e]: the key engine e was created for
    disposed,   \* the engines dispose() has been called on
    pc,         \* pc[t]: the next access of thread t
    want,       \* want[t]: the key its call asks for
    calls,      \* calls that have begun
    returns,    \* what calls returned, in order; key None is a clear
    use         \* how this process uses the cache

cache == <<cacheKey, cached>>
engines == <<built, disposed>>
vars == <<cache, engines, pc, want, calls, returns, use>>

Engines == 1..Len(built)

Init ==
    /\ cacheKey = None
    /\ cached = 0
    /\ built = <<>>
    /\ disposed = {}
    /\ pc = [t \in Threads |-> "idle"]
    /\ want = [t \in Threads |-> None]
    /\ calls = 0
    /\ returns = <<>>
    /\ use \in Uses

Goto(t, from, to) == pc[t] = from /\ pc' = [pc EXCEPT ![t] = to] /\ UNCHANGED use

(* The first step of a call, and any other one. *)
Begin(t, to) ==
    /\ t \in use.threads
    /\ calls < MaxCalls
    /\ calls' = calls + 1
    /\ Goto(t, "idle", to)
    /\ UNCHANGED <<cache, engines, returns>>

Step(t, from, to) == Goto(t, from, to) /\ UNCHANGED <<want, calls>>

(* A step that only reads. *)
Test(t, from, to) == Step(t, from, to) /\ UNCHANGED <<cache, engines, returns>>

(* _engine_cache_instance.dispose(); AttributeError if it is None by now. *)
DisposeCached(t, from, to) ==
    /\ Step(t, from, IF cached = 0 THEN "idle" ELSE to)
    /\ disposed' = IF cached = 0 THEN disposed ELSE disposed \cup {cached}
    /\ UNCHANGED <<cache, built, returns>>

Finish(t, from, key, engine) ==
    /\ Step(t, from, "idle")
    /\ returns' = Append(returns, [key |-> key, engine |-> engine])
    /\ UNCHANGED <<cached, engines>>

-------------------------------------------------------------------------------
(* get_session_factory -> get_engine -> _managed_engine, for key k. *)
Call(t, k) ==
    /\ k \in use.keys
    /\ Begin(t, "look")
    /\ want' = [want EXCEPT ![t] = k]

(* if _engine_cache_instance is None *)
Look(t) == Test(t, "look", IF cached = 0 THEN "create" ELSE "compare")

(* MUTANT: the key is not compared at all. *)
CompareNothing(t) == Test(t, "compare", "return")

(* elif _engine_cache_key != cache_key *)
Compare(t) == Test(t, "compare", IF cacheKey # want[t] THEN "dispose" ELSE "return")

(* MUTANT: the stale engine is dropped without being disposed of. *)
DisposeSkipped(t) == Test(t, "dispose", "create")

Dispose(t) == DisposeCached(t, "dispose", "create")

(* _engine_cache_instance = create_engine(...) *)
Create(t) ==
    /\ want[t] \notin BadKeys
    /\ Step(t, "create", "setKey")
    /\ built' = Append(built, want[t])
    /\ cached' = Len(built) + 1
    /\ UNCHANGED <<cacheKey, disposed, returns>>

(* MUTANT: a failed create_engine still fills the cache. *)
CreateRaisesFills(t) ==
    /\ want[t] \in BadKeys
    /\ Step(t, "create", "idle")
    /\ cached' = Len(built) + 1
    /\ UNCHANGED <<cacheKey, engines, returns>>

(* create_engine raises: the globals stay as they are. *)
CreateRaises(t) == want[t] \in BadKeys /\ Test(t, "create", "idle")

(* MUTANT: the key of the new engine is not recorded. *)
SetKeyForgotten(t) == Test(t, "setKey", "return")

(* _engine_cache_key = cache_key *)
SetKey(t) ==
    /\ Step(t, "setKey", "return")
    /\ cacheKey' = want[t]
    /\ UNCHANGED <<cached, engines, returns>>

(* return _engine_cache_instance: the global is read once more. *)
Return(t) == Finish(t, "return", want[t], cached) /\ UNCHANGED cacheKey

(* clear_engine_cache: if not None, dispose ... *)
Clear(t) ==
    /\ use.clears
    /\ Begin(t, IF cached = 0 THEN "forget" ELSE "clearDispose")
    /\ UNCHANGED want

ClearDispose(t) == DisposeCached(t, "clearDispose", "forget")

(* ... _engine_cache_instance = None ... *)
Forget(t) ==
    /\ Step(t, "forget", "forgetKey")
    /\ cached' = 0
    /\ UNCHANGED <<cacheKey, engines, returns>>

(* ... _engine_cache_key = None. *)
ForgetKey(t) == Finish(t, "forgetKey", None, 0) /\ cacheKey' = None

-------------------------------------------------------------------------------
Quiet == \A t \in Threads : pc[t] = "idle"

Terminating == Quiet /\ calls = MaxCalls /\ UNCHANGED vars

Next ==
    \/ \E t \in Threads :
        \/ \E k \in Keys : Call(t, k)
        \/ Look(t) \/ Compare(t) \/ Dispose(t) \/ Create(t) \/ CreateRaises(t)
        \/ SetKey(t) \/ Return(t)
        \/ Clear(t) \/ ClearDispose(t) \/ Forget(t) \/ ForgetKey(t)
    \/ Terminating

Spec == Init /\ [][Next]_vars

-------------------------------------------------------------------------------
(* Properties *)

TypeOK ==
    /\ cacheKey \in Keys \cup {None}
    /\ cached \in 0..Len(built)
    /\ built \in Seq(Keys)
    /\ disposed \subseteq Engines
    /\ pc \in [Threads -> {"idle", "look", "compare", "dispose", "create",
                           "setKey", "return", "clearDispose", "forget",
                           "forgetKey"}]
    /\ want \in [Threads -> Keys \cup {None}]
    /\ calls \in 0..MaxCalls
    /\ returns \in Seq([key: Keys \cup {None}, engine: 0..Len(built)])
    /\ use \in Uses

(* The uses the code is made for: one thread at a time, or many threads    *)
(* with the settings read at start-up.                                     *)
Sequential == Cardinality(use.threads) <= 1
OneSetting == Cardinality(use.keys) <= 1 /\ ~use.clears

(* A caller gets an engine, and one created for the settings it asked for: *)
(* a session never ends up on another database (_managed_engine's key).    *)
(* Threads that use different settings at once are not promised that.      *)
RightEngine ==
    Sequential \/ OneSetting =>
        \A i \in DOMAIN returns : returns[i].key # None =>
            returns[i].engine # 0 /\ built[returns[i].engine] = returns[i].key

NoEngineLost == Quiet => Engines \ disposed \subseteq {cached}

(* As long as calls do not overlap, every engine but the cached one has    *)
(* been disposed of once nobody is in a call, so its connections are gone  *)
(* ("disposing stale engine on swap", and clear_engine_cache).             *)
StaleEnginesDisposed == Sequential => NoEngineLost

(* With one set of settings, a race of first uses costs at most an engine  *)
(* per racing thread; later calls build none.                              *)
RaceIsBounded == OneSetting => Len(built) <= Cardinality(use.threads)

(* Not true of the code: a race of first uses loses no engine.             *)
RacersLoseNoEngine == OneSetting => NoEngineLost
===============================================================================
